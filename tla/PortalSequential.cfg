SPECIFICATION MCSpec
CHECK_DEADLOCK FALSE
CONSTANTS
    c1 = c1
    c2 = c2
    r1 = r1
    r2 = r2
    u1 = u1
    u2 = u2
    u3 = u3
    q1 = q1
    q2 = q2
    gojek = gojek
    grab = grab
    n1 = n1
    n2 = n2
    p1 = p1
    p2 = p2
    A = A
    B = B
    k1 = k1
    k2 = k2
    k3 = k3
    s1 = s1
    s2 = s2
    Clients = {c1}
    InspectionPoints = {"front"}
    Signatures = {"signature_partner"}
    MaxMedia = 4
    Rentals = {r1, r2}
    ProofCap = 1
    MaxProofs = 2
    DocumentKinds = {"deposit_return_proof", "ktp"}
    ReturnProof = "deposit_return_proof"
    MaxDocuments = 3
    MayBeCut = FALSE
    Users = {u1, u2, u3}
    Partners = {"p1"}
    Rules <- SmallRules
    Setorans <- SmallPayments
    MaxDays = 6
    Readers = {q1}
    Platforms = {gojek, grab}
    Names = {n1, n2}
    ImportedNames = {n1}
    FleetPlates = {A}
    OtherPlates = {B}
    LastImportDay = 2
    MaxImported = 2
    NotListed = NotListed
    Dies = TRUE
    ArtKinds = {"signature", "stamp"}
    ArtKeys = {}
    NoKey = NoKey
    LegacyKeys = {"car", "van"}
    OwnKeys = {"own"}
    Claimants = {}
    ClaimPlates = {}
    MaxClaims = 0
    NoName = NoName
    Sids = {}
    NoSid = NoSid
    AbsoluteMax = 1
    LastHour = 2
    Scenes = {"checkpoint", "rental", "driver", "user", "ledger", "roster"}
SYMMETRY Interchangeable
INVARIANTS
    CompletedHasEvidence
    PaidHasProof
    ReturnedHasGrounds
    SomeSuperAdmin
    PaidIsPeakSurplus
    RosterFollowsImports
PROPERTIES
    CompletedIsImmutable
    SettledStays
    PlatesLeaveWithLastUser
