CONSTANTS
    p1 = p1  c1 = c1  ann = ann  bob = bob   x1 = x1
    n1 = n1  n2 = n2  res = res  com = com  w1 = w1  w2 = w2
    Parcel = {p1}
    Date = {1, 2, 3}
    Conv = {c1}
    Owner = {ann, bob}
    Price = {x1}
    Nbhd = {n1, n2}
    NULL = NULL
    Malformed = Malformed
    Ragged = Ragged
    NotIngested = NotIngested
    YearlyFile = {res, com}
    WeeklyFile = {w1, w2}
    YearlyExport <- MCYearlyExport
    WeeklyContent <- MCWeeklyContent
SPECIFICATION Spec
INVARIANTS
    NoSupersededWeekly
    NeighborhoodsFilled
    OneRowPerKey
    NoSaleLost
    LatestExportStored
PROPERTIES
    WeeklyOnlyFillsGaps
    ImplementsLedger
