CONSTANTS
    p1 = p1  c1 = c1  ann = ann  bob = bob  x1 = x1  n1 = n1
    com = com  res = res  w1 = w1  w2 = w2  server = server  cli = cli
    Backend = {"postgresql", "sqlite"}
    Proc = {server, cli}
    Parcel = {p1}
    Date = {1, 2, 3}
    Conv = {c1}
    Owner = {ann, bob}
    Price = {x1}
    Nbhd = {n1}
    NULL = NULL
    Malformed = Malformed
    Ragged = Ragged
    YearlyFile = {com, res}
    WeeklyFile = {w1, w2}
    Export <- MCExport
    Works <- MCWorks
SPECIFICATION Spec
INVARIANTS
    NoSaleLost
    SqliteReconciles
PROPERTY
    ProcessesFinish
