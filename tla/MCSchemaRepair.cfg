CONSTANTS
    p1 = p1  c1 = c1  ann = ann  bob = bob  sue = sue  x1 = x1  n1 = n1
    res = res  w1 = w1
    Parcel = {p1}
    Date = {1, 2}
    Conv = {c1}
    Owner = {ann, bob, sue}
    Price = {x1}
    Nbhd = {n1}
    NULL = NULL
    Malformed = Malformed
    Ragged = Ragged
    YearlyFile = {res}
    WeeklyFile = {w1}
    YearlyExport <- MCYearlyExport
    WeeklyContent <- MCWeeklyContent
    NotIngested = NotIngested
    Legacy <- MCLegacy
    MaxCrashes = 2
SPECIFICATION RepairSpec
INVARIANTS
    KeysCanBeCreated
    OldSalesKept
