CONSTANTS
    MaxSales = 2
    MaxVersion = 2
    MaxFaults = 1
    MaxSize = 2
    Reader = {r1, r2}
SPECIFICATION CacheSpec
INVARIANT DerivedNeverStale
PROPERTY
    AnswersCatchUp
