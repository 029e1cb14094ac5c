---------------------------- MODULE AccessProofs ----------------------------
(***************************************************************************)
(* Who is who: the owners of plates, the logins of a browser and the       *)
(* accounts; and what a partner has set up: the artwork of its invoices    *)
(* and its presets.                                                        *)
(***************************************************************************)
EXTENDS PlateRegistry, WebSessions, UserAdmin, InvoiceArt, CogsPresets, TLAPS

-----------------------------------------------------------------------------
(***************************************************************************)
(* Every screen names the same owner of a plate, for any number of         *)
(* claimants, plates and claims.  The reason: a claim keeps its id and its *)
(* creation time through every re-plating, and both grow together.         *)
(***************************************************************************)

Live(i) == claims[i] # NoClaim

ClaimRows == [of : Claimants, plate : ClaimPlates, created : Nat]

ClaimsTyped  == claims \in Seq(ClaimRows \cup {NoClaim})
CreatedPast  == \A i \in ClaimIds : Live(i) => claims[i].created < tick
IdsInOrder   == \A i, j \in ClaimIds :
                    Live(i) /\ Live(j) /\ i < j => claims[i].created < claims[j].created
CallsTyped   == plateCall \in [Clients -> {Quiet} \cup [id : ClaimIds, plate : ClaimPlates]]

RegistryInv ==
    /\ tick \in Nat
    /\ ClaimsTyped
    /\ CreatedPast
    /\ IdsInOrder
    /\ CallsTyped

-----------------------------------------------------------------------------
\* Two keys that order a set the same way have the same last element.
LEMMA SameOrderSameLast ==
    ASSUME NEW S \in SUBSET Nat, NEW key \in [S -> Nat],
           \A i, j \in S : i <= j <=> key[i] <= key[j]
    PROVE  LastBy([i \in S |-> i]) = LastBy(key)
  <1>1. \A i \in S : (\A j \in S : j <= i) <=> (\A j \in S : key[j] <= key[i])
    OBVIOUS
  <1>2. \A i : (i \in S /\ \A j \in S : j <= i) <=> (i \in S /\ \A j \in S : key[j] <= key[i])
    BY <1>1
  <1>3. (CHOOSE i : i \in S /\ \A j \in S : j <= i)
            = (CHOOSE i : i \in S /\ \A j \in S : key[j] <= key[i])
    BY <1>2, Zenon
  <1>4. LastBy(key) = (CHOOSE i : i \in S /\ \A j \in S : key[j] <= key[i])
    BY Zenon DEF LastBy
  <1> QED
    BY <1>2, <1>3, <1>4 DEF LastBy

\* Under the invariant both queries find the same claim.
LEMMA OrdersAgree == RegistryInv => LabelsAgree
  <1> SUFFICES ASSUME RegistryInv, NEW p \in ClaimPlates, registry[p].name = NoName
               PROVE  OverlayName(p) = ScopeName(p)
    BY DEF LabelsAgree
  <1> DEFINE S   == Claims(p)
             key == [i \in S |-> claims[i].created]
  <1>1. \A i \in S : i \in ClaimIds /\ Live(i) /\ claims[i] \in ClaimRows
    BY RegistryAssumption DEF Claims, Live, RegistryInv, ClaimsTyped, ClaimIds, NoClaim
  <1>2. S \in SUBSET Nat
    BY DEF Claims, ClaimIds, RegistryInv, ClaimsTyped
  <1>3. key \in [S -> Nat]
    BY <1>1 DEF ClaimRows
  <1>4. \A i, j \in S : i <= j <=> key[i] <= key[j]
    <2> SUFFICES ASSUME NEW i \in S, NEW j \in S PROVE i <= j <=> key[i] <= key[j]
      OBVIOUS
    <2>1. i < j => key[i] < key[j]
      BY <1>1 DEF RegistryInv, IdsInOrder
    <2>2. j < i => key[j] < key[i]
      BY <1>1 DEF RegistryInv, IdsInOrder
    <2>3. i \in Nat /\ j \in Nat /\ key[i] \in Nat /\ key[j] \in Nat
      BY <1>2, <1>3
    <2> QED
      BY <2>1, <2>2, <2>3
  <1>5. LastBy([i \in S |-> i]) = LastBy(key)
    BY <1>2, <1>3, <1>4, SameOrderSameLast
  <1> QED
    BY <1>5 DEF OverlayName, ScopeName, NameBy

-----------------------------------------------------------------------------
LEMMA RegistryInvInit == RegistryInit => RegistryInv
  BY DEF RegistryInit, RegistryInv, ClaimsTyped, CreatedPast, IdsInOrder, CallsTyped, ClaimIds

\* A new claim comes last in both orders.
LEMMA ClaimPlateKeeps ==
    ASSUME RegistryInv, NEW o \in Claimants, NEW p \in ClaimPlates, ClaimPlate(o, p)
    PROVE  RegistryInv'
  <1> DEFINE new == [of |-> o, plate |-> p, created |-> tick]
  <1>1. /\ claims' = Append(claims, new)
        /\ tick' = tick + 1
        /\ plateCall' = plateCall
    BY DEF ClaimPlate
  <1>2. new \in ClaimRows
    BY DEF RegistryInv, ClaimRows
  <1>3. ClaimsTyped'
    BY <1>1, <1>2 DEF RegistryInv, ClaimsTyped
  <1>4. /\ Len(claims') = Len(claims) + 1
        /\ claims'[Len(claims) + 1] = new
        /\ \A i \in ClaimIds : claims'[i] = claims[i]
        /\ Len(claims) \in Nat
    BY <1>1 DEF RegistryInv, ClaimsTyped, ClaimIds
  <1>5. \A i \in ClaimIds' : i \in ClaimIds \/ i = Len(claims) + 1
    BY <1>4 DEF ClaimIds
  <1>6. \A i \in ClaimIds : Live(i)' => Live(i) /\ claims[i].created \in Nat
    <2> SUFFICES ASSUME NEW i \in ClaimIds, Live(i)' PROVE Live(i) /\ claims[i].created \in Nat
      OBVIOUS
    <2>1. Live(i)
      BY <1>4 DEF Live
    <2>2. claims[i] \in ClaimRows
      BY <2>1 DEF Live, RegistryInv, ClaimsTyped, ClaimIds
    <2> QED
      BY <2>1, <2>2 DEF ClaimRows
  <1>7. CreatedPast'
    <2> SUFFICES ASSUME NEW i \in ClaimIds', Live(i)' PROVE claims'[i].created < tick'
      BY DEF CreatedPast
    <2>1. CASE i \in ClaimIds
      <3>1. Live(i) /\ claims[i].created \in Nat
        BY <1>6, <2>1
      <3>2. claims'[i] = claims[i]
        BY <1>4, <2>1
      <3>3. claims[i].created < tick /\ tick \in Nat
        BY <2>1, <3>1 DEF RegistryInv, CreatedPast
      <3>4. tick' = tick + 1
        BY <1>1
      <3> QED
        BY <3>1, <3>2, <3>3, <3>4
    <2>2. CASE i = Len(claims) + 1
      BY <1>1, <1>4, <2>2 DEF RegistryInv
    <2> QED
      BY <1>5, <2>1, <2>2
  <1>8. IdsInOrder'
    <2> SUFFICES ASSUME NEW i \in ClaimIds', NEW j \in ClaimIds', Live(i)', Live(j)', i < j
                 PROVE  claims'[i].created < claims'[j].created
      BY DEF IdsInOrder
    <2>1. i \in ClaimIds /\ Live(i)
      BY <1>4, <1>5, <1>6 DEF ClaimIds
    <2>2. CASE j \in ClaimIds
      BY <1>4, <1>6, <2>1, <2>2 DEF RegistryInv, IdsInOrder
    <2>3. CASE j = Len(claims) + 1
      BY <1>4, <2>1, <2>3 DEF RegistryInv, CreatedPast
    <2> QED
      BY <1>5, <2>2, <2>3
  <1>9. ClaimIds \subseteq ClaimIds'
    BY <1>4 DEF ClaimIds
  <1>10. CallsTyped'
    BY <1>1, <1>9 DEF RegistryInv, CallsTyped
  <1> QED
    BY <1>1, <1>3, <1>7, <1>8, <1>10 DEF RegistryInv

\* A claim is written anew: it keeps its creation time, or it is gone.
LEMMA RewriteKeeps ==
    ASSUME RegistryInv, NEW i \in ClaimIds, NEW row \in ClaimRows \cup {NoClaim},
           claims' = [claims EXCEPT ![i] = row],
           row # NoClaim => Live(i) /\ row.created = claims[i].created,
           tick' = tick, CallsTyped'
    PROVE  RegistryInv'
  <1>1. Len(claims') = Len(claims) /\ ClaimIds' = ClaimIds /\ ClaimsTyped'
    BY DEF RegistryInv, ClaimsTyped, ClaimIds
  <1>2. \A j \in ClaimIds : claims'[j] = IF j = i THEN row ELSE claims[j]
    BY DEF RegistryInv, ClaimsTyped, ClaimIds
  <1>3. \A j \in ClaimIds : Live(j)' => Live(j) /\ claims'[j].created = claims[j].created
    BY <1>2 DEF Live, NoClaim
  <1>4. CreatedPast'
    BY <1>1, <1>3 DEF RegistryInv, CreatedPast
  <1>5. IdsInOrder'
    BY <1>1, <1>3 DEF RegistryInv, IdsInOrder
  <1> QED
    BY <1>1, <1>4, <1>5 DEF RegistryInv

\* A step that leaves the claims and the clock alone.
LEMMA NothingClaimed ==
    ASSUME RegistryInv, UNCHANGED <<claims, tick>>, CallsTyped'
    PROVE  RegistryInv'
  BY DEF RegistryInv, ClaimsTyped, CreatedPast, IdsInOrder, Live, ClaimIds

LEMMA ReplateKeeps ==
    ASSUME RegistryInv, NEW c \in Clients, Replate(c)
    PROVE  RegistryInv'
  <1> DEFINE i == plateCall[c].id
             p == plateCall[c].plate
  <1>1. i \in ClaimIds /\ p \in ClaimPlates
    BY DEF Replate, RegistryInv, CallsTyped
  <1>2. plateCall' = [plateCall EXCEPT ![c] = Quiet] /\ tick' = tick
    BY DEF Replate, Now
  <1>3. CASE Live(i) /\ claims' = [claims EXCEPT ![i].plate = p]
    <2> DEFINE row == [claims[i] EXCEPT !.plate = p]
    <2>1. claims[i] \in ClaimRows
      BY <1>1, <1>3 DEF Live, RegistryInv, ClaimsTyped, ClaimIds
    <2>2. row \in ClaimRows /\ row.created = claims[i].created
      BY <1>1, <2>1 DEF ClaimRows
    <2>3. claims' = [claims EXCEPT ![i] = row]
      BY <1>3
    <2>4. ClaimIds' = ClaimIds
      BY <2>3 DEF RegistryInv, ClaimsTyped, ClaimIds
    <2>5. CallsTyped'
      BY <1>2, <2>4 DEF RegistryInv, CallsTyped
    <2> HIDE DEF row
    <2> QED
      BY <1>1, <1>2, <1>3, <2>2, <2>3, <2>5, RewriteKeeps
  <1>4. CASE claims' = claims
    <2>1. CallsTyped'
      BY <1>2, <1>4 DEF RegistryInv, CallsTyped, ClaimIds
    <2> QED
      BY <1>2, <1>4, <2>1, NothingClaimed
  <1> QED
    BY <1>3, <1>4 DEF Replate, Live

LEMMA RegistryInvNext == RegistryInv /\ [RegistryNext]_registryVars => RegistryInv'
  <1> SUFFICES ASSUME RegistryInv, [RegistryNext]_registryVars PROVE RegistryInv'
    OBVIOUS
  <1>1. CASE UNCHANGED registryVars
    BY <1>1, NothingClaimed DEF registryVars, RegistryInv, CallsTyped, ClaimIds
  <1>2. ASSUME NEW o \in Claimants, NEW p \in ClaimPlates, ClaimPlate(o, p) PROVE RegistryInv'
    BY <1>2, ClaimPlateKeeps
  <1>3. ASSUME NEW c \in Clients, Replate(c) PROVE RegistryInv'
    BY <1>3, ReplateKeeps
  <1>4. ASSUME NEW c \in Clients, NEW i \in ClaimIds, NEW p \in ClaimPlates, BeginReplate(c, i, p)
        PROVE  RegistryInv'
    BY <1>4, NothingClaimed DEF BeginReplate, Now, RegistryInv, CallsTyped, ClaimIds
  <1>5. ASSUME NEW i \in ClaimIds, ReleasePlate(i) PROVE RegistryInv'
    <2>1. ClaimIds' = ClaimIds
      BY <1>5 DEF ReleasePlate, RegistryInv, ClaimsTyped, ClaimIds
    <2>2. CallsTyped'
      BY <1>5, <2>1 DEF ReleasePlate, RegistryInv, CallsTyped
    <2> QED
      BY <1>5, <2>2, RewriteKeeps DEF ReleasePlate
  <1>6. ASSUME NEW p \in ClaimPlates, UnregisterAdmin(p) PROVE RegistryInv'
    BY <1>6, NothingClaimed DEF UnregisterAdmin, RegistryInv, CallsTyped, ClaimIds
  <1>7. ASSUME NEW p \in ClaimPlates, NEW q \in ClaimPlates, NEW n,
               RegisterAdmin(p, n) \/ ReplateAdmin(p, q, n)
        PROVE  RegistryInv'
    BY <1>7, NothingClaimed DEF RegisterAdmin, ReplateAdmin, RegistryInv, CallsTyped, ClaimIds
  <1> QED
    BY <1>1, <1>2, <1>3, <1>4, <1>5, <1>6, <1>7 DEF RegistryNext

\* The overlay of the grids and the admin scope name the same partner, whatever
\* was claimed, re-plated or released (admin-plates.service.ts and
\* registered-partner-names.ts read the claims in different orders).
THEOREM OneOwnerPerPlate == RegistrySpec => []LabelsAgree
  <1> QED
    BY RegistryInvInit, RegistryInvNext, OrdersAgree, PTL DEF RegistrySpec

-----------------------------------------------------------------------------
(***************************************************************************)
(* The absolute cap of a login holds for any number of overlapping HTTP    *)
(* requests of a browser, any cap and any clock.  The reason: every copy   *)
(* of a slot, in the store or in a request, has the time of the login it   *)
(* came from, so the eviction of an old slot judges the login itself.      *)
(***************************************************************************)

\* A slot that says when its account logged in, and a session of such slots.
Slots    == {s \in [at : Nat, real : Nat, must : BOOLEAN, on : BOOLEAN] : s.at = s.real}
Sessions == [Audiences -> Slots]
Requests == [op   : {"none", "page", "logout", "login", "password"},
             at   : {"none", "handle", "save"},
             aud  : {"none", "admin", "partner"},
             sid  : Sids \cup {NoSid},
             copy : Sessions]

SessionInv ==
    /\ store \in [Sids -> Sessions]
    /\ cookie \in Sids \cup {NoSid}
    /\ hour \in Nat
    /\ CapHolds
    /\ webCall \in [Clients -> Requests]

LEMMA NowhereIsASession == EmptySlot \in Slots /\ Nowhere \in Sessions
  BY DEF EmptySlot, Slots, Nowhere, Sessions

LEMMA NoRequestIsOne == NoRequest \in Requests
  BY NowhereIsASession DEF NoRequest, Requests

\* A client's request is replaced by another one.
LEMMA ServeKeeps ==
    ASSUME SessionInv, NEW c \in Clients, NEW call \in Requests, Serve(c, call)
    PROVE  webCall' \in [Clients -> Requests]
  BY DEF SessionInv, Serve, Now

\* A request goes to its end with another copy, or with a flag of its slot cleared.
LEMMA CopyReplaced ==
    ASSUME NEW r \in Requests, NEW copy \in Sessions
    PROVE  [r EXCEPT !.at = "save", !.copy = copy] \in Requests
  BY DEF Requests

LEMMA FlagCleared ==
    ASSUME NEW r \in Requests
    PROVE  [r EXCEPT !.at = "save", !.copy[r.aud].must = FALSE] \in Requests
  <1> DEFINE slot == [r.copy[r.aud] EXCEPT !.must = FALSE]
             copy == [r.copy EXCEPT ![r.aud] = slot]
  <1>1. r.aud \in Audiences => slot \in Slots
    <2> SUFFICES ASSUME r.aud \in Audiences PROVE slot \in Slots
      OBVIOUS
    <2>1. r.copy[r.aud] \in Slots
      BY DEF Requests, Sessions
    <2> QED
      BY <2>1 DEF Slots
  <1>2. copy \in Sessions
    BY <1>1 DEF Requests, Sessions
  <1>3. [r EXCEPT !.at = "save", !.copy[r.aud].must = FALSE]
            = [r EXCEPT !.at = "save", !.copy = copy]
    BY DEF Requests
  <1> QED
    BY <1>2, <1>3, CopyReplaced

\* Eviction leaves a session of true slots, and none of those it looked at is
\* older than the cap.
LEMMA EvictedIsASession ==
    ASSUME NEW s \in Sessions, NEW as
    PROVE  Evicted(s, as) \in Sessions
  BY NowhereIsASession DEF Evicted, Sessions

LEMMA EvictedIsLive ==
    ASSUME hour \in Nat, NEW s \in Sessions, NEW as, NEW a \in Audiences, a \in as,
           Evicted(s, as)[a].on
    PROVE  ~(hour - Evicted(s, as)[a].real > AbsoluteMax)
  <1>1. s[a] \in Slots
    BY DEF Sessions
  <1>2. CASE Expired(s[a])
    BY <1>2 DEF Evicted, EmptySlot
  <1>3. CASE ~Expired(s[a])
    <2>1. Evicted(s, as)[a] = s[a]
      BY <1>3 DEF Evicted
    <2> QED
      BY <1>1, <1>3, <2>1 DEF Expired, Slots
  <1> QED
    BY <1>2, <1>3

\* Who is found on a path has a live slot that the path looks at.
LEMMA ResolvedIsLive ==
    ASSUME NEW s \in Sessions, NEW path \in {"admin", "partner", "shared"},
           Resolved(s, path) # "none"
    PROVE  /\ Resolved(s, path) \in Audiences \cap Looked(path)
           /\ s[Resolved(s, path)].on
  <1> DEFINE live == {a \in Looked(path) : s[a].on}
             must == {a \in live : s[a].must}
  <1>1. Looked(path) \subseteq Audiences
    BY DEF Looked, Audiences
  <1>2. live # {}
    BY DEF Resolved
  <1>3. Resolved(s, path) \in live
    <2>1. CASE must # {}
      <3>1. Resolved(s, path) = IF "admin" \in must THEN "admin" ELSE "partner"
        BY <1>2, <2>1 DEF Resolved
      <3> QED
        BY <1>1, <2>1, <3>1 DEF Audiences
    <2>2. CASE must = {}
      <3>1. Resolved(s, path) = IF "admin" \in live THEN "admin" ELSE "partner"
        BY <1>2, <2>2 DEF Resolved
      <3> QED
        BY <1>1, <1>2, <3>1 DEF Audiences
    <2> QED
      BY <2>1, <2>2
  <1> QED
    BY <1>1, <1>3

\* The guard serves a request on a login that is not too old.
LEMMA ArriveKeeps ==
    ASSUME SessionInv, NEW c \in Clients, NEW op \in {"page", "logout", "password"},
           NEW path \in {"admin", "partner", "shared"}, Arrive(c, op, path)
    PROVE  SessionInv'
  <1> DEFINE s    == IF cookie = NoSid THEN Nowhere ELSE store[cookie]
             copy == Evicted(s, Looked(path))
             aud  == Resolved(copy, path)
             at   == IF aud # "none" /\ op # "page" THEN "handle" ELSE "save"
             call == [op |-> op, at |-> at, aud |-> aud, sid |-> cookie, copy |-> copy]
  <1>1. s \in Sessions
    BY NowhereIsASession DEF SessionInv
  <1>2. copy \in Sessions
    BY <1>1, EvictedIsASession
  <1>3. aud # "none" => aud \in Audiences \cap Looked(path) /\ copy[aud].on
    BY <1>2, ResolvedIsLive
  <1>4. call \in Requests
    BY <1>2, <1>3 DEF SessionInv, Requests, Audiences
  <1>5. webCall' \in [Clients -> Requests]
    <2>1. Serve(c, NoRequest) \/ Serve(c, call)
      BY DEF Arrive
    <2> QED
      BY <1>4, <2>1, NoRequestIsOne, ServeKeeps
  <1>6. CapHolds'
    <2>1. CASE aud = "none"
      BY <2>1 DEF Arrive, SessionInv, CapHolds
    <2>2. CASE aud # "none"
      <3>1. ~(hour - copy[aud].real > AbsoluteMax)
        BY <1>1, <1>3, <2>2, EvictedIsLive DEF SessionInv
      <3>2. overstayed' = (overstayed \/ hour - copy[aud].real > AbsoluteMax)
        BY <2>2 DEF Arrive, Judge
      <3> QED
        BY <3>1, <3>2 DEF SessionInv, CapHolds
    <2> QED
      BY <2>1, <2>2
  <1>7. UNCHANGED <<store, cookie, hour>>
    BY DEF Arrive
  <1> QED
    BY <1>5, <1>6, <1>7 DEF SessionInv

\* A login carries the other slot into the new session as it is.
LEMMA RegenerateKeeps ==
    ASSUME SessionInv, NEW c \in Clients, NEW must \in BOOLEAN, Regenerate(c, must)
    PROVE  SessionInv'
  <1> DEFINE new  == CHOOSE sid \in Sids : sid \notin issued
             copy == [b \in Audiences |-> IF b = webCall[c].aud THEN FreshSlot(must)
                                          ELSE Carried(webCall[c].copy[b])]
             call == [webCall[c] EXCEPT !.at = "save", !.sid = new, !.copy = copy]
  <1>1. new \in Sids
    BY DEF Regenerate
  <1>2. webCall[c] \in Requests
    BY DEF SessionInv
  <1>3. copy \in Sessions
    BY <1>2 DEF SessionInv, Requests, Sessions, FreshSlot, Slots, Carried
  <1>4. call \in Requests
    BY <1>1, <1>2, <1>3 DEF Requests
  <1>5. Serve(c, call)
    BY DEF Regenerate
  <1>6. webCall' \in [Clients -> Requests]
    BY <1>4, <1>5, ServeKeeps
  <1>7. store' \in [Sids -> Sessions]
    BY NowhereIsASession DEF Regenerate, SessionInv
  <1> QED
    BY <1>6, <1>7 DEF Regenerate, SessionInv, CapHolds

LEMMA SessionInvInit == SessionInit => SessionInv
  BY NowhereIsASession, NoRequestIsOne DEF SessionInit, SessionInv, CapHolds

LEMMA SessionInvNext == SessionInv /\ [SessionNext]_sessionVars => SessionInv'
  <1> SUFFICES ASSUME SessionInv, [SessionNext]_sessionVars PROVE SessionInv'
    OBVIOUS
  <1>1. CASE UNCHANGED sessionVars
    BY <1>1 DEF SessionInv, sessionVars, CapHolds
  <1>2. ASSUME NEW c \in Clients, NEW a \in Audiences, Arrive(c, "page", a) \/ Arrive(c, "logout", a)
        PROVE  SessionInv'
    BY <1>2, ArriveKeeps DEF Audiences
  <1>3. ASSUME NEW c \in Clients, Arrive(c, "password", "shared") PROVE SessionInv'
    BY <1>3, ArriveKeeps
  <1>4. ASSUME NEW c \in Clients, NEW a \in Audiences, ArriveToLogIn(c, a) PROVE SessionInv'
    <2> DEFINE call == [op |-> "login", at |-> "handle", aud |-> a, sid |-> cookie,
                        copy |-> IF cookie = NoSid THEN Nowhere ELSE store[cookie]]
    <2>1. call \in Requests
      BY NowhereIsASession DEF SessionInv, Requests, Audiences
    <2>2. webCall' \in [Clients -> Requests]
      BY <1>4, <2>1, ServeKeeps DEF ArriveToLogIn
    <2> QED
      BY <1>4, <2>2 DEF ArriveToLogIn, SessionInv, CapHolds
  <1>5. ASSUME NEW c \in Clients, NEW must \in BOOLEAN, Regenerate(c, must) PROVE SessionInv'
    BY <1>5, RegenerateKeeps
  <1>6. ASSUME NEW c \in Clients, ChangePassword(c) PROVE SessionInv'
    <2>1. webCall[c] \in Requests
      BY DEF SessionInv
    <2>2. webCall' \in [Clients -> Requests]
      BY <1>6, <2>1, FlagCleared, ServeKeeps DEF ChangePassword
    <2> QED
      BY <1>6, <2>2 DEF ChangePassword, SessionInv, CapHolds
  <1>7. ASSUME NEW c \in Clients, LogOut(c) PROVE SessionInv'
    <2> DEFINE left == [webCall[c].copy EXCEPT ![webCall[c].aud] = EmptySlot]
               call == [webCall[c] EXCEPT !.at = "save", !.copy = left]
    <2>1. webCall[c] \in Requests
      BY DEF SessionInv
    <2>2. left \in Sessions
      BY <2>1, NowhereIsASession DEF Requests, Sessions
    <2>3. call \in Requests
      BY <2>1, <2>2, CopyReplaced
    <2>4. webCall' \in [Clients -> Requests]
      <3>1. Serve(c, call) \/ Serve(c, NoRequest)
        BY <1>7 DEF LogOut
      <3> QED
        BY <2>3, <3>1, ServeKeeps, NoRequestIsOne
    <2>5. store' \in [Sids -> Sessions]
      BY <1>7, NowhereIsASession DEF LogOut, SessionInv
    <2> QED
      BY <1>7, <2>4, <2>5 DEF LogOut, SessionInv, CapHolds
  <1>8. ASSUME NEW c \in Clients, SaveSession(c) PROVE SessionInv'
    <2>1. webCall[c] \in Requests
      BY DEF SessionInv
    <2>2. webCall' \in [Clients -> Requests]
      BY <1>8, ServeKeeps, NoRequestIsOne DEF SaveSession
    <2>3. store' \in [Sids -> Sessions] /\ cookie' \in Sids \cup {NoSid}
      BY <1>8, <2>1 DEF SaveSession, SessionInv, Requests
    <2> QED
      BY <1>8, <2>2, <2>3 DEF SaveSession, SessionInv, CapHolds
  <1>9. ASSUME NEW sid \in Sids, IdleOut(sid) PROVE SessionInv'
    BY <1>9, NowhereIsASession DEF IdleOut, SessionInv, CapHolds
  <1>10. CASE HourPasses
    BY <1>10 DEF HourPasses, SessionInv, CapHolds
  <1>11. ASSUME Connect \/ \E login \in sockets : Disconnect(login) PROVE SessionInv'
    BY <1>11 DEF Connect, Disconnect, SessionInv, CapHolds
  <1> QED
    BY <1>1, <1>2, <1>3, <1>4, <1>5, <1>6, <1>7, <1>8, <1>9, <1>10, <1>11 DEF SessionNext

\* No HTTP request is served on a login older than the absolute cap, whatever the
\* requests of a browser do to each other's copies of the session (liveSlotUser);
\* sockets come and go beside them and are not bound by the cap.
THEOREM LoginsEnd == SessionSpec => []CapHolds
  <1>1. SessionInv => CapHolds
    BY DEF SessionInv
  <1> QED
    BY SessionInvInit, SessionInvNext, <1>1, PTL DEF SessionSpec
-----------------------------------------------------------------------------
(***************************************************************************)
(* The accounts, with requests one at a time: what a guard has counted is  *)
(* still so when the handler writes, for it is the only one in flight.     *)
(* (Of two at once each may spare the super admin the other one takes.)    *)
(***************************************************************************)

\* Requests come one at a time: the next one begins after the answer.  People
\* log in and accounts are created at any moment.
OneAtATime == \A c, d \in Clients : c = d

\* Another active super admin than the account a handler works on.
Spared(u) == \E v \in ActiveSuperAdmins : v # u

\* What updateUser() and deleteUser() have read is still so: past the guard
\* somebody else administers, the account is where it was, and nobody is left
\* with the partner whose plates stay.
Recalled(call) ==
    \/ call = NoCall
    \/ /\ call.op = "update"
       /\ call = [op |-> "update", at |-> call.at, user |-> call.user, patch |-> call.patch]
       /\ call.at \in {"guard", "write"}
       /\ call.user \in Users /\ call.patch \in Patches
       /\ call.at = "write" /\ DropsSuperAdmin(call.patch) => Spared(call.user)
    \/ /\ call.op = "delete" /\ call.at \in {"guard", "count"}
       /\ call = [op |-> "delete", at |-> call.at, user |-> call.user, partner |-> call.partner]
       /\ call.at = "count" => Spared(call.user)
       /\ There(call.user) /\ call.user \in Users
       /\ call.partner = account[call.user].partner
    \/ /\ call.op = "delete" /\ call.at = "delete"
       /\ call = [op |-> "delete", at |-> "delete", user |-> call.user, drop |-> call.drop]
       /\ Spared(call.user)
       /\ There(call.user) /\ call.user \in Users
       /\ \/ \E v \in UsersOf(account[call.user].partner) : v # call.user
          \/ account[call.user].partner \in plates => account[call.user].partner \in call.drop

\* Accounts and calls by their fields.
AdminShape ==
    /\ account = [u \in Users |-> account[u]]
    /\ \A u \in Users :
        /\ account[u] = [at |-> account[u].at, super |-> account[u].super,
                         active |-> account[u].active, partner |-> account[u].partner]
        /\ account[u].super \in BOOLEAN /\ account[u].active \in BOOLEAN

AdminInv ==
    /\ AdminShape
    /\ adminCall = [c \in Clients |-> adminCall[c]]
    /\ SomeSuperAdmin
    /\ \A c \in Clients : Recalled(adminCall[c])

\* What the last user of a partner takes along, in one step.
PlatesGoAlong ==
    \A p \in Partners : \A u \in UsersOf(p) :
        account'[u].at = "deleted" /\ UsersOf(p)' = {} => p \notin plates'

\* With one request at a time the handler that moves is the only one.
LEMMA OnlyRequest ==
    ASSUME OneAtATime, AdminInv, NEW c \in Clients, NEW call, Proceed(c, call),
           AdminShape', SomeSuperAdmin', Recalled(call)'
    PROVE  AdminInv'
  <1>1. adminCall' = [d \in Clients |-> IF d = c THEN call ELSE adminCall[d]]
    BY DEF AdminInv, Proceed, Now
  <1>2. \A d \in Clients : d = c
    BY DEF OneAtATime
  <1>3. \A d \in Clients : adminCall'[d] = call
    BY <1>1, <1>2
  <1>4. adminCall' = [d \in Clients |-> adminCall'[d]]
    BY <1>1
  <1>5. ASSUME NEW d \in Clients PROVE Recalled(adminCall[d])'
    BY <1>3
  <1> QED
    BY <1>4, <1>5 DEF AdminInv, AdminShape

\* A handler that writes nothing yet.
LEMMA OnlyReads ==
    ASSUME OneAtATime, AdminInv, UNCHANGED <<account, plates>>,
           NEW c \in Clients, NEW call, Proceed(c, call), Recalled(call)
    PROVE  AdminInv' /\ PlatesGoAlong
  <1>1. AdminShape' /\ SomeSuperAdmin'
    BY DEF AdminInv, AdminShape, SomeSuperAdmin, ActiveSuperAdmins, There
  <1>2. Recalled(call)'
    BY DEF Recalled, Spared, UsersOf, There, ActiveSuperAdmins
  <1>3. PlatesGoAlong
    BY DEF PlatesGoAlong, UsersOf, There
  <1> QED
    BY <1>1, <1>2, <1>3, OnlyRequest

LEMMA NothingRecalled == Recalled(NoCall) /\ Recalled(NoCall)'
  BY DEF Recalled

\* A patch that neither demotes nor deactivates leaves a super admin one.
LEMMA HarmlessPatch ==
    ASSUME NEW patch \in Patches
    PROVE  /\ \A old \in BOOLEAN : Patched(old, patch.super) \in BOOLEAN
           /\ \A old \in BOOLEAN : Patched(old, patch.active) \in BOOLEAN
           /\ ~DropsSuperAdmin(patch) =>
                Patched(TRUE, patch.super) = TRUE /\ Patched(TRUE, patch.active) = TRUE
  <1>1. \A field \in AtMostOne(BOOLEAN) : field = {} \/ field = {TRUE} \/ field = {FALSE}
    BY DEF AtMostOne
  <1>2. (CHOOSE v \in {TRUE} : TRUE) = TRUE /\ (CHOOSE v \in {FALSE} : TRUE) = FALSE
    OBVIOUS
  <1>3. \A field \in AtMostOne(BOOLEAN) : field # {FALSE} => Patched(TRUE, field) = TRUE
    BY <1>1, <1>2 DEF Patched
  <1>4. \A field \in AtMostOne(BOOLEAN), old \in BOOLEAN : Patched(old, field) \in BOOLEAN
    BY <1>1, <1>2 DEF Patched
  <1>5. patch.super \in AtMostOne(BOOLEAN) /\ patch.active \in AtMostOne(BOOLEAN)
    BY DEF Patches
  <1> QED
    BY <1>3, <1>4, <1>5 DEF DropsSuperAdmin

\* The seed administers, and nothing is in flight.
LEMMA AdminStarts == UserInit => AdminInv
  <1>1. SUFFICES ASSUME UserInit PROVE AdminInv
    OBVIOUS
  <1>2. PICK seed \in Users :
        account = [u \in Users |-> IF u = seed
            THEN [at |-> "there", super |-> TRUE, active |-> TRUE, partner |-> NoPartner]
            ELSE NoAccount]
    BY <1>1 DEF UserInit
  <1>3. AdminShape
    BY <1>2 DEF AdminShape, NoAccount
  <1>4. seed \in ActiveSuperAdmins
    BY <1>2 DEF ActiveSuperAdmins, There
  <1> QED
    BY <1>1, <1>3, <1>4 DEF UserInit, AdminInv, SomeSuperAdmin, Recalled

\* A row that a deleted account leaves.
LEMMA RowDeleted ==
    ASSUME NEW old,
           old = [at |-> old.at, super |-> old.super, active |-> old.active,
                  partner |-> old.partner]
    PROVE  [old EXCEPT !.at = "deleted"]
               = [at |-> "deleted", super |-> old.super, active |-> old.active,
                  partner |-> old.partner]
  <1>1. old \in [at : {old.at}, super : {old.super}, active : {old.active}, partner : {old.partner}]
    OBVIOUS
  <1>2. [old EXCEPT !.at = "deleted"]
            \in [at : {"deleted"}, super : {old.super}, active : {old.active}, partner : {old.partner}]
    BY <1>1
  <1>3. \A r \in [at : {"deleted"}, super : {old.super}, active : {old.active}, partner : {old.partner}] :
            r = [at |-> "deleted", super |-> old.super, active |-> old.active,
                 partner |-> old.partner]
    OBVIOUS
  <1> QED
    BY <1>2, <1>3

\* Calls that go on past the guard.
LEMMA UpdateGoesOn ==
    ASSUME NEW call, NEW at,
           call = [op |-> "update", at |-> call.at, user |-> call.user, patch |-> call.patch]
    PROVE  [call EXCEPT !.at = at]
               = [op |-> "update", at |-> at, user |-> call.user, patch |-> call.patch]
  <1>1. call \in [op : {"update"}, at : {call.at}, user : {call.user}, patch : {call.patch}]
    OBVIOUS
  <1>2. [call EXCEPT !.at = at]
            \in [op : {"update"}, at : {at}, user : {call.user}, patch : {call.patch}]
    BY <1>1
  <1>3. \A r \in [op : {"update"}, at : {at}, user : {call.user}, patch : {call.patch}] :
            r = [op |-> "update", at |-> at, user |-> call.user, patch |-> call.patch]
    OBVIOUS
  <1> QED
    BY <1>2, <1>3

LEMMA DeleteGoesOn ==
    ASSUME NEW call, NEW at,
           call = [op |-> "delete", at |-> call.at, user |-> call.user, partner |-> call.partner]
    PROVE  [call EXCEPT !.at = at]
               = [op |-> "delete", at |-> at, user |-> call.user, partner |-> call.partner]
  <1>1. call \in [op : {"delete"}, at : {call.at}, user : {call.user}, partner : {call.partner}]
    OBVIOUS
  <1>2. [call EXCEPT !.at = at]
            \in [op : {"delete"}, at : {at}, user : {call.user}, partner : {call.partner}]
    BY <1>1
  <1>3. \A r \in [op : {"delete"}, at : {at}, user : {call.user}, partner : {call.partner}] :
            r = [op |-> "delete", at |-> at, user |-> call.user, partner |-> call.partner]
    OBVIOUS
  <1> QED
    BY <1>2, <1>3

\* A row that updateUser() writes: who was left to administer still is.
LEMMA WritingUser ==
    ASSUME OneAtATime, AdminInv, NEW c \in Clients, WriteUser(c)
    PROVE  AdminInv' /\ PlatesGoAlong
  <1>0. PICK call : call = adminCall[c]
    OBVIOUS
  <1>1. PICK u : u = call.user
    OBVIOUS
  <1>2. /\ call.op = "update" /\ call.at = "write"
        /\ UNCHANGED plates /\ Proceed(c, NoCall)
    BY <1>0 DEF WriteUser, Handling, Finish
  <1>3. /\ u \in Users /\ call.patch \in Patches
        /\ DropsSuperAdmin(call.patch) => Spared(u)
    BY <1>0, <1>1, <1>2 DEF AdminInv, Recalled, NoCall
  <1>4. CASE There(u)
    <2>a. PICK super, active, partner :
            /\ super   = Patched(account[u].super, call.patch.super)
            /\ active  = Patched(account[u].active, call.patch.active)
            /\ partner = Patched(account[u].partner, call.patch.partner)
      OBVIOUS
    <2> DEFINE row == [at |-> "there", super |-> super, active |-> active, partner |-> partner]
    <2>b. PICK old : old = account[u]
      OBVIOUS
    <2>c. old = [at |-> old.at, super |-> old.super, active |-> old.active,
                 partner |-> old.partner]
      BY <1>3, <2>b DEF AdminInv, AdminShape
    <2>d. old.at = "there"
      BY <1>4, <2>b DEF There
    <2>e. old \in [at : {"there"}, super : {old.super}, active : {old.active},
                   partner : {old.partner}]
      BY <2>c, <2>d
    <2>f. [old EXCEPT !.super = super, !.active = active, !.partner = partner]
              \in [at : {"there"}, super : {super}, active : {active}, partner : {partner}]
      BY <2>e
    <2>g. \A r \in [at : {"there"}, super : {super}, active : {active}, partner : {partner}] : r = row
      OBVIOUS
    <2>1. [account[u] EXCEPT !.super = super, !.active = active, !.partner = partner] = row
      BY <2>b, <2>f, <2>g, Zenon
    <2>2. account' = [account EXCEPT ![u] = row]
      BY <1>0, <1>1, <1>4, <2>a, <2>1, Zenon DEF WriteUser
    <2>3. account' = [v \in Users |-> IF v = u THEN row ELSE account[v]]
      BY <1>3, <2>2 DEF AdminInv, AdminShape
    <2>4. super \in BOOLEAN /\ active \in BOOLEAN
      BY <1>3, <2>a, HarmlessPatch DEF AdminInv, AdminShape
    <2>5. u \in ActiveSuperAdmins /\ ~DropsSuperAdmin(call.patch) => super = TRUE /\ active = TRUE
      <3>1. u \in ActiveSuperAdmins => account[u].super = TRUE /\ account[u].active = TRUE
        BY <1>3 DEF ActiveSuperAdmins, AdminInv, AdminShape
      <3> QED
        BY <1>3, <2>a, <3>1, HarmlessPatch
    <2>6. AdminShape'
      BY <2>3, <2>4 DEF AdminInv, AdminShape
    <2>7. PICK v \in ActiveSuperAdmins : v # u \/ ~DropsSuperAdmin(call.patch)
      BY <1>3 DEF AdminInv, SomeSuperAdmin, Spared
    <2>8. v \in ActiveSuperAdmins'
      <3>1. CASE v # u
        BY <2>3, <3>1 DEF ActiveSuperAdmins, There
      <3>2. CASE v = u /\ ~DropsSuperAdmin(call.patch)
        BY <2>3, <2>5, <2>7, <3>2 DEF ActiveSuperAdmins, There
      <3> QED
        BY <2>7, <3>1, <3>2
    <2>9. PlatesGoAlong
      BY <2>3 DEF PlatesGoAlong, UsersOf, There
    <2> QED
      BY <1>2, <2>6, <2>8, <2>9, OnlyRequest, NothingRecalled DEF SomeSuperAdmin
  <1>5. CASE ~There(u)
    BY <1>0, <1>1, <1>2, <1>5, OnlyReads, NothingRecalled DEF WriteUser
  <1> QED
    BY <1>4, <1>5

\* The account that deleteUser() takes: somebody else administers, and the plates
\* of a partner nobody is left with go along.
LEMMA DeletingUser ==
    ASSUME OneAtATime, AdminInv, NEW c \in Clients, CommitDelete(c)
    PROVE  AdminInv' /\ PlatesGoAlong
  <1>0. PICK call : call = adminCall[c]
    OBVIOUS
  <1>1. PICK u : u = call.user
    OBVIOUS
  <1>2. /\ call.op = "delete" /\ call.at = "delete"
        /\ plates' = plates \ call.drop /\ Proceed(c, NoCall)
        /\ account' = [account EXCEPT ![u] = [NoAccount EXCEPT !.at = "deleted"]]
    BY <1>0, <1>1 DEF CommitDelete, Handling, Finish
  <1>3. /\ u \in Users /\ There(u) /\ Spared(u)
        /\ \/ \E v \in UsersOf(account[u].partner) : v # u
           \/ account[u].partner \in plates => account[u].partner \in call.drop
    BY <1>0, <1>1, <1>2 DEF AdminInv, Recalled, NoCall
  <1> DEFINE row == [at |-> "deleted", super |-> FALSE, active |-> FALSE, partner |-> NoPartner]
  <1>4. [NoAccount EXCEPT !.at = "deleted"] = row
    <2>1. PICK none : none = NoAccount
      OBVIOUS
    <2>2. /\ none = [at |-> none.at, super |-> none.super, active |-> none.active,
                     partner |-> none.partner]
          /\ none.super = FALSE /\ none.active = FALSE /\ none.partner = NoPartner
      BY <2>1 DEF NoAccount
    <2>3. [none EXCEPT !.at = "deleted"]
              = [at |-> "deleted", super |-> none.super, active |-> none.active,
                 partner |-> none.partner]
      BY <2>2, RowDeleted
    <2> QED
      BY <2>1, <2>2, <2>3, Zenon
  <1>5. account' = [v \in Users |-> IF v = u THEN row ELSE account[v]]
    BY <1>2, <1>3, <1>4 DEF AdminInv, AdminShape
  <1>6. AdminShape'
    BY <1>5 DEF AdminInv, AdminShape
  <1>7. SomeSuperAdmin'
    BY <1>3, <1>5 DEF Spared, SomeSuperAdmin, ActiveSuperAdmins, There
  <1>8. PlatesGoAlong
    <2> SUFFICES ASSUME NEW p \in Partners, NEW v \in UsersOf(p),
                        account'[v].at = "deleted", UsersOf(p)' = {}
                 PROVE  p \notin plates'
      BY DEF PlatesGoAlong
    <2>1. v = u /\ p = account[u].partner
      BY <1>5 DEF UsersOf, There
    <2>2. ~ \E w \in UsersOf(p) : w # u
      BY <1>5 DEF UsersOf, There
    <2> QED
      BY <1>2, <1>3, <2>1, <2>2
  <1> QED
    BY <1>2, <1>6, <1>7, <1>8, OnlyRequest, NothingRecalled

\* A new account costs nobody anything.
LEMMA CreatingUser ==
    ASSUME AdminInv, NEW u \in Users, CreateUser(u)
    PROVE  AdminInv' /\ PlatesGoAlong
  <1>1. PICK super \in BOOLEAN, p \in Partners \cup {NoPartner} :
            account' = [account EXCEPT ![u] =
                [at |-> "there", super |-> super, active |-> TRUE, partner |-> p]]
    BY DEF CreateUser
  <1>2. ~There(u) /\ account[u].at # "deleted" /\ UNCHANGED <<plates, adminCall>>
    BY DEF CreateUser, There
  <1>3. account' = [v \in Users |-> IF v = u
                THEN [at |-> "there", super |-> super, active |-> TRUE, partner |-> p]
                ELSE account[v]]
    BY <1>1 DEF AdminInv, AdminShape
  <1>4. AdminShape'
    BY <1>3 DEF AdminInv, AdminShape
  <1>5. ActiveSuperAdmins \subseteq ActiveSuperAdmins'
    BY <1>2, <1>3 DEF ActiveSuperAdmins, There
  <1>6. \A q : UsersOf(q) \subseteq UsersOf(q)'
    BY <1>2, <1>3 DEF UsersOf, There
  <1>7. \A v \in Users : There(v) => There(v)' /\ account'[v] = account[v]
    BY <1>2, <1>3 DEF There
  <1>8. ASSUME NEW c \in Clients PROVE Recalled(adminCall[c])'
    <2>0. PICK call : call = adminCall[c]
      OBVIOUS
    <2>1. Recalled(call)
      BY <2>0 DEF AdminInv
    <2>2. Spared(call.user) => Spared(call.user)'
      BY <1>5 DEF Spared
    <2>3. Recalled(call)'
      BY <1>2, <1>6, <1>7, <2>1, <2>2 DEF Recalled
    <2> QED
      BY <1>2, <2>0, <2>3
  <1>9. PlatesGoAlong
    BY <1>3, <1>6 DEF PlatesGoAlong
  <1> QED
    BY <1>2, <1>4, <1>5, <1>8, <1>9 DEF AdminInv, SomeSuperAdmin

\* One step per action.
LEMMA AdminGoesOn ==
    ASSUME OneAtATime, AdminInv, [UserNext]_userVars
    PROVE  AdminInv' /\ PlatesGoAlong
  <1>1. ASSUME UNCHANGED <<account, plates, adminCall>> PROVE AdminInv' /\ PlatesGoAlong
    BY <1>1 DEF AdminInv, AdminShape, SomeSuperAdmin, ActiveSuperAdmins, There, Recalled, Spared,
                UsersOf, PlatesGoAlong
  <1>2. ASSUME NEW u \in Users, LogIn(u) PROVE AdminInv' /\ PlatesGoAlong
    BY <1>1, <1>2 DEF LogIn
  <1>3. ASSUME NEW u \in Users, CreateUser(u) PROVE AdminInv' /\ PlatesGoAlong
    BY <1>3, CreatingUser
  <1>4. ASSUME NEW c \in Clients, NEW p \in Partners, RegisterPlate(c, p)
        PROVE  AdminInv' /\ PlatesGoAlong
    <2>1. UNCHANGED <<account, adminCall>> /\ adminCall[c] = NoCall
      BY <1>4 DEF RegisterPlate
    <2>2. \A d \in Clients : adminCall'[d] = NoCall
      BY <2>1 DEF OneAtATime
    <2>3. AdminShape' /\ SomeSuperAdmin' /\ PlatesGoAlong
      BY <2>1 DEF AdminInv, AdminShape, SomeSuperAdmin, ActiveSuperAdmins, There, PlatesGoAlong, UsersOf
    <2> QED
      BY <2>1, <2>2, <2>3, NothingRecalled DEF AdminInv
  <1>5. ASSUME NEW c \in Clients, UserHandler(c) PROVE AdminInv' /\ PlatesGoAlong
    <2>0. PICK call : call = adminCall[c]
      OBVIOUS
    <2>00. Recalled(call)
      BY <2>0 DEF AdminInv
    <2>1. CASE BeginUpdateUser(c)
      <3>1. PICK u \in Users, patch \in Patches :
                Proceed(c, [op |-> "update", user |-> u, patch |-> patch,
                            at |-> IF DropsSuperAdmin(patch) THEN "guard" ELSE "write"])
        BY <2>1 DEF BeginUpdateUser
      <3> DEFINE next == [op |-> "update", user |-> u, patch |-> patch,
                          at |-> IF DropsSuperAdmin(patch) THEN "guard" ELSE "write"]
      <3>2. Recalled(next)
        BY DEF Recalled
      <3> HIDE DEF next
      <3>3. Proceed(c, next) /\ UNCHANGED <<account, plates>>
        BY <2>1, <3>1 DEF BeginUpdateUser, next
      <3> QED
        BY <3>2, <3>3, OnlyReads
    <2>2. ASSUME NEW op, NEW at, GuardLast(c, op, at),
                 \/ op = "update" /\ at = "write"
                 \/ op = "delete" /\ at = "count"
          PROVE  AdminInv' /\ PlatesGoAlong
      <3>1. /\ UNCHANGED <<account, plates>>
            /\ call.op = op /\ call.at = "guard"
            /\ IF ActiveSuperAdmins = {call.user}
               THEN Proceed(c, NoCall) ELSE Proceed(c, [call EXCEPT !.at = at])
        BY <2>0, <2>2 DEF GuardLast, Handling, Finish
      <3>2. CASE ActiveSuperAdmins = {call.user}
        BY <3>1, <3>2, OnlyReads, NothingRecalled
      <3>3. CASE ActiveSuperAdmins # {call.user}
        <4>1. Spared(call.user)
          BY <3>3 DEF AdminInv, SomeSuperAdmin, Spared
        <4>0. PICK next : next = [call EXCEPT !.at = at]
          OBVIOUS
        <4>2. ASSUME op = "update" PROVE Recalled(next)
          <5>1. /\ call = [op |-> "update", at |-> call.at, user |-> call.user, patch |-> call.patch]
                /\ call.user \in Users /\ call.patch \in Patches
            BY <2>00, <3>1, <4>2 DEF Recalled, NoCall
          <5>2. [call EXCEPT !.at = at]
                    = [op |-> "update", at |-> at, user |-> call.user, patch |-> call.patch]
            BY <5>1, UpdateGoesOn
          <5>3. next = [op |-> "update", at |-> "write", user |-> call.user, patch |-> call.patch]
            BY <2>2, <4>0, <4>2, <5>2, Zenon
          <5>4. Recalled([op |-> "update", at |-> "write", user |-> call.user,
                          patch |-> call.patch])
            BY <4>1, <5>1 DEF Recalled
          <5> QED
            BY <5>3, <5>4, Zenon
        <4>3. ASSUME op = "delete" PROVE Recalled(next)
          <5>1. /\ call = [op |-> "delete", at |-> call.at, user |-> call.user,
                           partner |-> call.partner]
                /\ There(call.user) /\ call.user \in Users
                /\ call.partner = account[call.user].partner
            BY <2>00, <3>1, <4>3 DEF Recalled, NoCall
          <5>2. [call EXCEPT !.at = at]
                    = [op |-> "delete", at |-> at, user |-> call.user, partner |-> call.partner]
            BY <5>1, DeleteGoesOn
          <5>3. next = [op |-> "delete", at |-> "count", user |-> call.user,
                        partner |-> call.partner]
            BY <2>2, <4>0, <4>3, <5>2, Zenon
          <5>4. Recalled([op |-> "delete", at |-> "count", user |-> call.user,
                          partner |-> call.partner])
            BY <4>1, <5>1 DEF Recalled
          <5> QED
            BY <5>3, <5>4, Zenon
        <4>4. Recalled(next)
          BY <2>2, <4>2, <4>3
        <4>5. Proceed(c, next)
          BY <3>1, <3>3, <4>0
        <4> QED
          BY <3>1, <4>4, <4>5, OnlyReads
      <3> QED
        BY <3>2, <3>3
    <2>3. CASE GuardUpdate(c) \/ GuardDelete(c)
      <3>1. GuardLast(c, "update", "write") \/ GuardLast(c, "delete", "count")
        BY <2>3 DEF GuardUpdate, GuardDelete
      <3>2. CASE GuardLast(c, "update", "write")
        BY <2>2, <3>2, Zenon
      <3>3. CASE GuardLast(c, "delete", "count")
        BY <2>2, <3>3, Zenon
      <3> QED
        BY <3>1, <3>2, <3>3
    <2>4. CASE WriteUser(c)
      BY <2>4, WritingUser
    <2>5. CASE BeginDeleteUser(c)
      <3>1. PICK u \in Users : /\ There(u)
                               /\ Proceed(c, [op |-> "delete", at |-> "guard", user |-> u,
                                              partner |-> account[u].partner])
        BY <2>5 DEF BeginDeleteUser
      <3> DEFINE next == [op |-> "delete", at |-> "guard", user |-> u, partner |-> account[u].partner]
      <3>2. Recalled(next)
        BY <3>1 DEF Recalled
      <3> HIDE DEF next
      <3>3. Proceed(c, next) /\ UNCHANGED <<account, plates>>
        BY <2>5, <3>1 DEF BeginDeleteUser, next
      <3> QED
        BY <3>2, <3>3, OnlyReads
    <2>6. CASE CountUsers(c)
      <3>1. PICK drop : drop = IF UsersOf(call.partner) \ {call.user} = {}
                               THEN {call.partner} \cap plates ELSE {}
        OBVIOUS
      <3> DEFINE next == [op |-> "delete", at |-> "delete", user |-> call.user, drop |-> drop]
      <3>2. /\ Proceed(c, next) /\ UNCHANGED <<account, plates>>
            /\ call.op = "delete" /\ call.at = "count"
        BY <2>0, <2>6, <3>1 DEF CountUsers, Handling
      <3>3. /\ Spared(call.user) /\ There(call.user) /\ call.user \in Users
            /\ call.partner = account[call.user].partner
        BY <2>00, <3>2 DEF Recalled, NoCall
      <3>4. \/ \E v \in UsersOf(call.partner) : v # call.user
            \/ call.partner \in plates => call.partner \in drop
        BY <3>1
      <3>5. Recalled(next)
        BY <3>3, <3>4 DEF Recalled
      <3> HIDE DEF next
      <3> QED
        BY <3>2, <3>5, OnlyReads
    <2>7. CASE CommitDelete(c)
      BY <2>7, DeletingUser
    <2>8. CASE AbortAdminCall(c)
      BY <2>8, OnlyReads, NothingRecalled DEF AbortAdminCall, Finish
    <2> QED
      BY <1>5, <2>1, <2>3, <2>4, <2>5, <2>6, <2>7, <2>8 DEF UserHandler
  <1>6. CASE UNCHANGED userVars
    BY <1>1, <1>6 DEF userVars
  <1> QED
    BY <1>2, <1>3, <1>4, <1>5, <1>6 DEF UserNext

\* Requests one at a time: however many accounts there are, one active super admin
\* is always left, also when a request is cut off after its guard (updateUser,
\* deleteUser).
THEOREM SomebodyAdministers ==
    ASSUME OneAtATime
    PROVE  UserSpec => []SomeSuperAdmin
  <1>1. AdminInv => SomeSuperAdmin
    BY DEF AdminInv
  <1>2. AdminInv /\ [UserNext]_userVars => AdminInv'
    BY AdminGoesOn
  <1> QED
    BY <1>1, <1>2, AdminStarts, PTL DEF UserSpec

\* Requests one at a time: when the last account of a partner is deleted, the
\* plates the partner registered go in the same step (deleteUser).
THEOREM LastUserTakesPlates ==
    ASSUME OneAtATime
    PROVE  UserSpec => PlatesLeaveWithLastUser
  <1>1. AdminInv /\ [UserNext]_userVars => AdminInv' /\ [PlatesGoAlong]_userVars
    BY AdminGoesOn
  <1>2. UserSpec => [][PlatesGoAlong]_userVars
    BY <1>1, AdminStarts, PTL DEF UserSpec
  <1> QED
    BY <1>2 DEF PlatesLeaveWithLastUser, PlatesGoAlong

-----------------------------------------------------------------------------
(***************************************************************************)
(* The artwork of the invoices is backed by its objects, for any number of *)
(* clients, kinds and keys: a key is drawn once, so it is in one place     *)
(* only, and the key a request forgets is one the row has left for good.   *)
(***************************************************************************)

ArtCall == [at : {"none", "save", "clear", "point", "forget"}, kind : ArtKinds \cup {NoKey},
            key : ArtKeys \cup {NoKey}, old : ArtKeys \cup {NoKey}]

Key(c) == artCall[c].key
Old(c) == artCall[c].old

\* A key in the row: its object is there and no other kind names it.
RowBacked ==
    \A k \in ArtKinds : artKey[k] # NoKey =>
        /\ artKey[k] \in artObjects \cap drawn
        /\ \A l \in ArtKinds : artKey[l] = artKey[k] => l = k

\* A stored object the row is about to name: nobody else knows it yet.
Pending(c) ==
    ArtAt(c, "point") =>
        /\ Key(c) \in artObjects \cap drawn
        /\ \A k \in ArtKinds : artKey[k] # Key(c)
        /\ \A d \in Clients : Old(d) # Key(c) /\ (ArtAt(d, "point") /\ Key(d) = Key(c) => d = c)

\* The key a request found in the row: only the kind it works on may still name
\* it, and none does once the request is about to forget its object.
Found(c) ==
    /\ artCall[c].at \in {"save", "point", "clear"} => artCall[c].kind \in ArtKinds
    /\ ArtAt(c, "clear") => Key(c) = NoKey
    /\ Old(c) # NoKey =>
           /\ Old(c) \in drawn
           /\ \A k \in ArtKinds : artKey[k] = Old(c) => k = artCall[c].kind /\ ~ArtAt(c, "forget")

ArtInv ==
    /\ artKey \in [ArtKinds -> ArtKeys \cup {NoKey}]
    /\ artCall \in [Clients -> ArtCall]
    /\ drawn \subseteq ArtKeys
    /\ RowBacked
    /\ \A c \in Clients : Pending(c) /\ Found(c)

\* Only the call of c changes.
LEMMA OneArtCallMoves ==
    ASSUME ArtInv, NEW c \in Clients, NEW call \in ArtCall, artCall' = Now(artCall, c, call)
    PROVE  /\ artCall' \in [Clients -> ArtCall]
           /\ artCall'[c] = call
           /\ \A d \in Clients : d # c => artCall'[d] = artCall[d]
  <1>1. artCall' = [d \in Clients |-> IF d = c THEN call ELSE artCall[d]]
    BY DEF ArtInv, Now
  <1> QED
    BY <1>1 DEF ArtInv

LEMMA ReadRowKeeps ==
    ASSUME ArtInv, NEW c \in Clients, NEW kind \in ArtKinds, NEW next \in {"save", "clear"},
           ReadRow(c, kind, next)
    PROVE  ArtInv'
  <1> DEFINE call == [at |-> next, kind |-> kind, key |-> NoKey, old |-> artKey[kind]]
  <1>1. artCall' = Now(artCall, c, call) /\ UNCHANGED <<artKey, artObjects, drawn>>
    BY DEF ReadRow, ArtGo
  <1>0. call \in ArtCall
    BY DEF ArtInv, ArtCall
  <1>2. /\ artCall' \in [Clients -> ArtCall]
        /\ artCall'[c] = call
        /\ \A d \in Clients : d # c => artCall'[d] = artCall[d]
    BY <1>1, <1>0, OneArtCallMoves
  <1>3. RowBacked'
    BY <1>1 DEF ArtInv, RowBacked
  <1>4. ASSUME NEW d \in Clients PROVE Pending(d)'
    BY <1>1, <1>2 DEF ArtInv, Pending, ArtAt, Key, Old
  <1>5. ASSUME NEW d \in Clients PROVE Found(d)'
    BY <1>1, <1>2 DEF ArtInv, Found, RowBacked, ArtAt, Key, Old
  <1> QED
    BY <1>1, <1>2, <1>3, <1>4, <1>5 DEF ArtInv

\* The key drawn is new to everybody.
LEMMA SaveObjectKeeps ==
    ASSUME ArtInv, NEW c \in Clients, SaveObject(c)
    PROVE  ArtInv'
  <1> DEFINE key == FreshKey
             call == [artCall[c] EXCEPT !.at = "point", !.key = key]
  <1>1. /\ artCall' = Now(artCall, c, call)
        /\ drawn' = drawn \cup {key} /\ artObjects' = artObjects \cup {key} /\ artKey' = artKey
    BY DEF SaveObject, ArtGo
  <1>2. key \in ArtKeys /\ key \notin drawn /\ key # NoKey
    BY ArtAssumption DEF SaveObject, FreshKey
  <1>0. /\ call \in ArtCall /\ call.at = "point" /\ call.key = key
        /\ call.kind = artCall[c].kind /\ call.old = artCall[c].old
    BY <1>2 DEF ArtInv, ArtCall
  <1>3. /\ artCall' \in [Clients -> ArtCall]
        /\ artCall'[c] = call
        /\ \A d \in Clients : d # c => artCall'[d] = artCall[d]
    BY <1>1, <1>0, OneArtCallMoves
  <1> HIDE DEF key, call
  <1>4. RowBacked'
    BY <1>1 DEF ArtInv, RowBacked
  <1>5. \A d \in Clients : Old(d)' = Old(d) /\ Old(d) # key
    BY <1>2, <1>3, <1>0 DEF ArtInv, Found, Old
  <1>6. \A k \in ArtKinds : artKey[k] # key
    BY <1>2 DEF ArtInv, RowBacked
  <1>7. Pending(c)'
    <2>1. Key(c)' = key
      BY <1>3, <1>0 DEF Key
    <2>2. ASSUME NEW d \in Clients, d # c, ArtAt(d, "point")' PROVE Key(d)' # key
      BY <1>2, <1>3, <2>2 DEF ArtInv, Pending, ArtAt, Key
    <2> QED
      BY <1>1, <1>5, <1>6, <2>1, <2>2 DEF Pending
  <1>8. ASSUME NEW d \in Clients, d # c PROVE Pending(d)'
    <2>1. SUFFICES ASSUME ArtAt(d, "point")' PROVE Pending(d)'
      BY DEF Pending
    <2>2. ArtAt(d, "point") /\ Key(d)' = Key(d) /\ Key(d) # key
      BY <1>2, <1>3, <1>8, <2>1 DEF ArtInv, Pending, ArtAt, Key
    <2>3. Key(c)' = key
      BY <1>3, <1>0 DEF Key
    <2>4. ASSUME NEW e \in Clients, ArtAt(e, "point")', Key(e)' = Key(d)' PROVE e = d
      BY <1>3, <2>2, <2>3, <2>4 DEF ArtInv, Pending, ArtAt, Key
    <2> QED
      BY <1>1, <1>5, <2>2, <2>4 DEF ArtInv, Pending
  <1>9. ASSUME NEW d \in Clients PROVE Found(d)'
    <2>1. CASE d = c
      BY <1>1, <1>3, <1>0, <2>1 DEF ArtInv, Found, SaveObject, ArtAt, Key, Old
    <2>2. CASE d # c
      BY <1>1, <1>3, <2>2 DEF ArtInv, Found, ArtAt, Key, Old
    <2> QED
      BY <2>1, <2>2
  <1> QED
    BY <1>1, <1>2, <1>3, <1>4, <1>7, <1>8, <1>9 DEF ArtInv

\* The row takes the key the request holds, which nobody else knows, or none.
LEMMA PointRowKeeps ==
    ASSUME ArtInv, NEW c \in Clients, PointRow(c)
    PROVE  ArtInv'
  <1> DEFINE kind == artCall[c].kind
             key  == artCall[c].key
             call == [artCall[c] EXCEPT !.at = "forget"]
  <1>1. /\ artCall' = Now(artCall, c, call)
        /\ artKey' = [artKey EXCEPT ![kind] = key]
        /\ UNCHANGED <<artObjects, drawn>>
    BY DEF PointRow, ArtGo
  <1>0. /\ call \in ArtCall /\ call.at = "forget" /\ call.key = key
        /\ call.kind = kind /\ call.old = artCall[c].old
    BY DEF ArtInv, ArtCall
  <1>2. /\ artCall' \in [Clients -> ArtCall]
        /\ artCall'[c] = call
        /\ \A d \in Clients : d # c => artCall'[d] = artCall[d]
    BY <1>1, <1>0, OneArtCallMoves
  <1> HIDE DEF call
  <1>3. kind \in ArtKinds
    BY DEF PointRow, ArtInv, Found
  <1>4. artKey' = [k \in ArtKinds |-> IF k = kind THEN key ELSE artKey[k]]
    BY <1>1, <1>3 DEF ArtInv
  <1>5. \/ key = NoKey
        \/ /\ key # NoKey /\ key \in artObjects \cap drawn
           /\ \A k \in ArtKinds : artKey[k] # key
           /\ \A d \in Clients : Old(d) # key
           /\ \A d \in Clients : d # c /\ ArtAt(d, "point") => Key(d) # key
    BY ArtAssumption DEF PointRow, ArtInv, Found, Pending, ArtAt, Key
  <1>6. RowBacked'
    BY <1>1, <1>4, <1>5 DEF ArtInv, RowBacked
  <1>7. \A d \in Clients : Old(d)' = Old(d)
    BY <1>2, <1>0 DEF Old
  <1>8. ASSUME NEW d \in Clients PROVE Pending(d)'
    <2>1. SUFFICES ASSUME ArtAt(d, "point")' PROVE Pending(d)'
      BY DEF Pending
    <2>2. d # c /\ ArtAt(d, "point") /\ Key(d)' = Key(d)
      BY <1>2, <1>0, <2>1 DEF ArtAt, Key
    <2>3. Key(d) \in artObjects \cap drawn /\ Key(d) # NoKey
      BY <2>2, ArtAssumption DEF ArtInv, Pending
    <2>4. \A k \in ArtKinds : artKey'[k] # Key(d)
      BY <1>4, <1>5, <2>2, <2>3 DEF ArtInv, Pending
    <2>5. ASSUME NEW e \in Clients, ArtAt(e, "point")', Key(e)' = Key(d) PROVE e = d
      BY <1>2, <1>0, <2>2, <2>5 DEF ArtInv, Pending, ArtAt, Key
    <2> QED
      BY <1>1, <1>7, <2>2, <2>3, <2>4, <2>5 DEF ArtInv, Pending
  <1>9. ASSUME NEW d \in Clients, d # c PROVE Found(d)'
    BY <1>1, <1>2, <1>4, <1>5, <1>9 DEF ArtInv, Found, ArtAt, Key, Old
  <1>10. Found(c)'
    <2>1. /\ Old(c)' = Old(c) /\ artCall'[c].kind = kind /\ artCall'[c].at = "forget"
      BY <1>2, <1>7, <1>0
    <2>2. ASSUME Old(c) # NoKey, NEW k \in ArtKinds PROVE artKey'[k] # Old(c)
      BY <1>4, <1>5, <2>2 DEF ArtInv, Found
    <2> QED
      BY <1>1, <2>1, <2>2 DEF ArtInv, Found, ArtAt
  <1>11. artKey' \in [ArtKinds -> ArtKeys \cup {NoKey}]
    <2>1. key \in ArtKeys \cup {NoKey}
      BY DEF ArtInv, ArtCall
    <2> QED
      BY <1>4, <2>1 DEF ArtInv
  <1> QED
    BY <1>1, <1>2, <1>6, <1>8, <1>9, <1>10, <1>11 DEF ArtInv

\* A request that ends, having forgotten an object nobody names, or nothing.
LEMMA EndKeeps ==
    ASSUME ArtInv, NEW c \in Clients, artCall' = Now(artCall, c, NoArt),
           UNCHANGED <<artKey, drawn>>,
           artObjects' = artObjects \/ (ArtAt(c, "forget") /\ artObjects' = artObjects \ {Old(c)})
    PROVE  ArtInv'
  <1>0. NoArt \in ArtCall
    BY DEF NoArt, ArtCall
  <1>1. /\ artCall' \in [Clients -> ArtCall]
        /\ artCall'[c] = NoArt
        /\ \A d \in Clients : d # c => artCall'[d] = artCall[d]
    BY <1>0, OneArtCallMoves
  <1>2. \A k \in ArtKinds : artKey[k] # NoKey => artKey[k] \in artObjects'
    BY DEF ArtInv, RowBacked, Found, ArtAt
  <1>3. RowBacked'
    BY <1>2 DEF ArtInv, RowBacked
  <1>4. ASSUME NEW d \in Clients PROVE Pending(d)'
    <2>1. SUFFICES ASSUME ArtAt(d, "point")' PROVE Pending(d)'
      BY DEF Pending
    <2>2. d # c /\ ArtAt(d, "point") /\ Key(d)' = Key(d)
      BY <1>1, <2>1 DEF ArtAt, Key, NoArt
    <2>3. Key(d) \in artObjects' \cap drawn' /\ Key(d) # NoKey
      BY <2>2, ArtAssumption DEF ArtInv, Pending
    <2>4. \A e \in Clients : Old(e)' # Key(d)
      BY <1>1, <2>2, <2>3 DEF ArtInv, Pending, Old, NoArt
    <2>5. ASSUME NEW e \in Clients, ArtAt(e, "point")', Key(e)' = Key(d) PROVE e = d
      BY <1>1, <2>2, <2>5 DEF ArtInv, Pending, ArtAt, Key, NoArt
    <2> QED
      BY <2>2, <2>3, <2>4, <2>5 DEF ArtInv, Pending
  <1>5. ASSUME NEW d \in Clients PROVE Found(d)'
    BY <1>1 DEF ArtInv, Found, ArtAt, Key, Old, NoArt
  <1> QED
    BY <1>1, <1>3, <1>4, <1>5 DEF ArtInv

LEMMA ArtInvInit == ArtInit => ArtInv
  BY DEF ArtInit, ArtInv, ArtCall, RowBacked, Pending, Found, ArtAt, Key, Old, NoArt

LEMMA ArtInvNext == ArtInv /\ [ArtNext]_artVars => ArtInv'
  <1> SUFFICES ASSUME ArtInv, [ArtNext]_artVars PROVE ArtInv'
    OBVIOUS
  <1>1. CASE UNCHANGED artVars
    BY <1>1 DEF ArtInv, artVars, RowBacked, Pending, Found, ArtAt, Key, Old
  <1>2. ASSUME NEW c \in Clients, NEW kind \in ArtKinds,
               StoreAsset(c, kind) \/ RemoveAsset(c, kind)
        PROVE  ArtInv'
    BY <1>2, ReadRowKeeps DEF StoreAsset, RemoveAsset
  <1>3. ASSUME NEW c \in Clients, SaveObject(c) PROVE ArtInv'
    BY <1>3, SaveObjectKeeps
  <1>4. ASSUME NEW c \in Clients, PointRow(c) PROVE ArtInv'
    BY <1>4, PointRowKeeps
  <1>5. ASSUME NEW c \in Clients, ForgetOld(c) PROVE ArtInv'
    BY <1>5, EndKeeps DEF ForgetOld, ArtGo, Old
  <1>6. ASSUME NEW c \in Clients, AbortArt(c) PROVE ArtInv'
    BY <1>6, EndKeeps DEF AbortArt, ArtGo
  <1> QED
    BY <1>1, <1>2, <1>3, <1>4, <1>5, <1>6 DEF ArtNext

\* The row never names an object the storage does not hold.
THEOREM ArtworkIsBacked == ArtSpec => []ArtBacked
  <1>1. ArtInv => ArtBacked
    BY DEF ArtInv, RowBacked, ArtBacked
  <1> QED
    BY ArtInvInit, ArtInvNext, <1>1, PTL DEF ArtSpec

-----------------------------------------------------------------------------
(***************************************************************************)
(* A partner that has presets keeps one, for any number of clients and     *)
(* keys: a removal holds the locks of the rows it counted until it commits,*)
(* so the row it spares is still there, and no other removal deletes it.   *)
(***************************************************************************)

\* Whoever is about to delete holds its row and another one, and nobody else
\* holds either of them.
Spares(c) ==
    CogsAt(c, "delete") =>
        /\ cogsCall[c].key \in cogsCall[c].rows
        /\ cogsCall[c].rows \subseteq presets
        /\ \E other \in cogsCall[c].rows : other # cogsCall[c].key

CogsInv ==
    /\ cogsCall = [c \in Clients |-> cogsCall[c]]
    /\ NeverEmptied
    /\ \A c \in Clients : Spares(c)
    /\ \A c, d \in Clients : c # d => LockedBy(c) \cap LockedBy(d) = {}

\* A step that moves one client only: its call is the new one, the others keep
\* theirs.
LEMMA OneCallMoves ==
    ASSUME cogsCall = [c \in Clients |-> cogsCall[c]], NEW c \in Clients, NEW call,
           cogsCall' = Now(cogsCall, c, call)
    PROVE  /\ cogsCall' = [d \in Clients |-> cogsCall'[d]]
           /\ cogsCall'[c] = call
           /\ \A d \in Clients : d # c => cogsCall'[d] = cogsCall[d]
  <1>1. cogsCall' = [d \in Clients |-> IF d = c THEN call ELSE cogsCall[d]]
    BY DEF Now
  <1> QED
    BY <1>1

\* A step that takes no preset away and leaves its client without a lock.
LEMMA NothingTaken ==
    ASSUME CogsInv, NEW c \in Clients, NEW call,
           cogsCall' = Now(cogsCall, c, call), call.at # "delete",
           presets \subseteq presets', NeverEmptied'
    PROVE  CogsInv'
  <1>1. /\ cogsCall' = [d \in Clients |-> cogsCall'[d]]
        /\ cogsCall'[c] = call
        /\ \A d \in Clients : d # c => cogsCall'[d] = cogsCall[d]
    BY OneCallMoves DEF CogsInv
  <1>2. LockedBy(c)' = {}
    BY <1>1 DEF LockedBy, CogsAt
  <1>3. \A d \in Clients : d # c => LockedBy(d)' = LockedBy(d)
    BY <1>1 DEF LockedBy, CogsAt
  <1>4. \A d \in Clients : Spares(d)'
    BY <1>1 DEF CogsInv, Spares, CogsAt
  <1>5. \A d, e \in Clients : d # e => LockedBy(d)' \cap LockedBy(e)' = {}
    BY <1>2, <1>3 DEF CogsInv
  <1> QED
    BY <1>1, <1>4, <1>5 DEF CogsInv

LEMMA CogsInvInit == CogsInit => CogsInv
  <1> SUFFICES ASSUME CogsInit PROVE CogsInv
    OBVIOUS
  <1>1. \A c \in Clients : cogsCall[c].at = "none"
    BY DEF CogsInit, NoCogs
  <1> QED
    BY <1>1 DEF CogsInit, CogsInv, NeverEmptied, Spares, LockedBy, CogsAt

\* Locking: the rows the client now holds were free, so they meet nobody's.
LEMMA LockRowsKeeps ==
    ASSUME CogsInv, NEW c \in Clients, LockRows(c)
    PROVE  CogsInv'
  <1> DEFINE rows == cogsCall[c].rows \cap presets
             key  == cogsCall[c].key
  <1>1. CASE key \in rows /\ \E other \in rows : other # key
    <2> DEFINE call == [at |-> "delete", key |-> key, rows |-> rows]
    <2>1. cogsCall' = Now(cogsCall, c, call) /\ UNCHANGED <<presets, begun>>
      BY <1>1 DEF LockRows, CogsGo
    <2>2. /\ cogsCall' = [d \in Clients |-> cogsCall'[d]]
          /\ cogsCall'[c] = call
          /\ \A d \in Clients : d # c => cogsCall'[d] = cogsCall[d]
      BY <2>1, OneCallMoves DEF CogsInv
    <2>3. \A d \in Clients : rows \cap LockedBy(d) = {}
      BY DEF LockRows
    <2>4. LockedBy(c)' = rows /\ \A d \in Clients : d # c => LockedBy(d)' = LockedBy(d)
      BY <2>2 DEF LockedBy, CogsAt
    <2>5. \A d, e \in Clients : d # e => LockedBy(d)' \cap LockedBy(e)' = {}
      BY <2>3, <2>4 DEF CogsInv
    <2>6. Spares(c)'
      BY <1>1, <2>1, <2>2 DEF Spares, CogsAt
    <2>7. \A d \in Clients : d # c => Spares(d)'
      BY <2>1, <2>2 DEF CogsInv, Spares, CogsAt
    <2>8. NeverEmptied'
      BY <2>1 DEF CogsInv, NeverEmptied
    <2> QED
      BY <2>2, <2>5, <2>6, <2>7, <2>8 DEF CogsInv
  <1>2. CASE ~(key \in rows /\ \E other \in rows : other # key)
    <2>1. cogsCall' = Now(cogsCall, c, NoCogs) /\ UNCHANGED <<presets, begun>>
      BY <1>2 DEF LockRows, CogsReply
    <2>2. NeverEmptied'
      BY <2>1 DEF CogsInv, NeverEmptied
    <2> QED
      BY <2>1, <2>2, NothingTaken DEF NoCogs
  <1> QED
    BY <1>1, <1>2

\* Deleting: the spared row stays, and the row that goes is nobody else's.
LEMMA DeletePresetKeeps ==
    ASSUME CogsInv, NEW c \in Clients, DeletePreset(c)
    PROVE  CogsInv'
  <1> DEFINE key == cogsCall[c].key
  <1>1. cogsCall' = Now(cogsCall, c, NoCogs) /\ presets' = presets \ {key} /\ begun' = begun
    BY DEF DeletePreset, CogsReply
  <1>2. /\ cogsCall' = [d \in Clients |-> cogsCall'[d]]
        /\ cogsCall'[c] = NoCogs
        /\ \A d \in Clients : d # c => cogsCall'[d] = cogsCall[d]
    BY <1>1, OneCallMoves DEF CogsInv
  <1>3. key \in LockedBy(c) /\ \E other \in presets : other # key
    BY DEF DeletePreset, CogsInv, Spares, LockedBy
  <1>4. NeverEmptied'
    BY <1>1, <1>3 DEF NeverEmptied
  <1>5. LockedBy(c)' = {} /\ \A d \in Clients : d # c => LockedBy(d)' = LockedBy(d)
    BY <1>2 DEF LockedBy, CogsAt, NoCogs
  <1>6. \A d, e \in Clients : d # e => LockedBy(d)' \cap LockedBy(e)' = {}
    BY <1>5 DEF CogsInv
  <1>7. ASSUME NEW d \in Clients, d # c PROVE Spares(d)'
    <2>1. key \notin LockedBy(d)
      BY <1>3, <1>7 DEF CogsInv
    <2> QED
      BY <1>1, <1>2, <1>7, <2>1 DEF CogsInv, Spares, LockedBy, CogsAt
  <1>8. Spares(c)'
    BY <1>2 DEF Spares, CogsAt, NoCogs
  <1> QED
    BY <1>2, <1>4, <1>6, <1>7, <1>8 DEF CogsInv

LEMMA CogsInvNext == CogsInv /\ [CogsNext]_cogsVars => CogsInv'
  <1> SUFFICES ASSUME CogsInv, [CogsNext]_cogsVars PROVE CogsInv'
    OBVIOUS
  <1>1. CASE UNCHANGED cogsVars
    BY <1>1 DEF CogsInv, cogsVars, NeverEmptied, Spares, LockedBy, CogsAt
  <1>2. ASSUME NEW c \in Clients, ListPresets(c) PROVE CogsInv'
    BY <1>2, NothingTaken DEF ListPresets, CogsGo, CogsInv, NeverEmptied
  <1>3. ASSUME NEW c \in Clients, SeedPresets(c) PROVE CogsInv'
    BY <1>3, NothingTaken, CogsAssumption DEF SeedPresets, CogsReply, NoCogs, NeverEmptied
  <1>4. ASSUME NEW c \in Clients, InsertPreset(c) PROVE CogsInv'
    BY <1>4, NothingTaken DEF InsertPreset, CogsReply, NoCogs, NeverEmptied
  <1>5. ASSUME NEW c \in Clients, LockRows(c) PROVE CogsInv'
    BY <1>5, LockRowsKeeps
  <1>6. ASSUME NEW c \in Clients, DeletePreset(c) PROVE CogsInv'
    BY <1>6, DeletePresetKeeps
  <1>7. ASSUME NEW c \in Clients, AbortCogs(c) PROVE CogsInv'
    BY <1>7, NothingTaken DEF AbortCogs, CogsReply, NoCogs, CogsInv, NeverEmptied
  <1>8. ASSUME NEW c \in Clients, NEW key \in CogsKeys, ChooseKey(c, key) PROVE CogsInv'
    BY <1>8, NothingTaken DEF ChooseKey, CogsGo, CogsInv, NeverEmptied
  <1>9. ASSUME NEW c \in Clients, NEW key \in CogsKeys, BeginRemove(c, key) PROVE CogsInv'
    BY <1>9, NothingTaken DEF BeginRemove, CogsGo, CogsInv, NeverEmptied
  <1> QED
    BY <1>1, <1>2, <1>3, <1>4, <1>5, <1>6, <1>7, <1>8, <1>9 DEF CogsNext

\* The table of presets never runs empty again (remove(), "two concurrent
\* deletes cannot both pass the count check").
THEOREM PresetsRemain == CogsSpec => []NeverEmptied
  <1>1. CogsInv => NeverEmptied
    BY DEF CogsInv
  <1> QED
    BY CogsInvInit, CogsInvNext, <1>1, PTL DEF CogsSpec
=============================================================================
