SPECIFICATION MCSpec
CHECK_DEADLOCK FALSE
CONSTANTS
    i1 = i1
    i2 = i2
    i3 = i3
    t1 = t1
    t2 = t2
    r1 = r1
    r2 = r2
    A = A
    B = B
    C = C
    x = x
    s = s
    ss = ss
    sn = sn
    P = P
    Ids = {i1, i2, i3}
    Plates = {A, B}
    Drivers = {x}
    DueAmounts = {2}
    PaidAmounts = {1}
    DaysIn <- ShortMonths
    MaxFacts = 3
    NoPlate = NoPlate
    NoDriver = NoDriver
    NoRow = NoRow
    Keep = Keep
    TripIds = {t1, t2}
    GrabPlates = {A, B}
    NoGrabPlate = C
    Cities = {c}
    Spellings = {s, ss, sn}
    PersonOf <- PersonSpelt
    Earnings = {0, 4}
    PartnerOf <- PartnerNames
    NoPartner = NoPartner
    NoTrip = NoTrip
    RentalIds = {r1, r2}
    RentalPlates = {A, B}
    Tariffs <- Quotes
    NoRental = NoRental
    NoMonth = NoMonth
    MaxRecords = 2
    Dues = {1, 2, 3}
    LastDay = 6
    Views = {"fleet", "column", "grab", "rental", "matrix"}
SYMMETRY Interchangeable
INVARIANTS
    BreakdownMatchesBalance
    TotalsSameInBothModes
    RangesAddUp
    CaptionMatchesAmount
    NothingLost
    ColumnFaithful
    GrabFiguresAgree
    CellsTellTheTruth
    RentalFiguresAgree
    InvoiceMatchesRecap
    MatrixAgrees
