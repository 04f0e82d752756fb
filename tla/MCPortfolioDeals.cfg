SPECIFICATION Spec
CONSTANTS
    Sale <- MCSale
    NULL = NULL
    NonMarket <- MCNonMarket
    MultiParcel <- MCMultiParcel
    Foreclosure = "foreclosure"
    MinPrice = 2
    Area <- MCArea
    Hood <- MCHood
    Period <- MCPeriod
    Year = 3
    Owner <- MCOwner
    Canonical <- MCCanonical
    CalendarYear <- MCCalendarYear
    Span = 2
    MinBuys = 2
    MinNet = 1
    MaxOwners = 2
    MaxRelated = 1
    Limit = 1
    MinYearly = 2
    Today = 9
    Months = 5
    Dwelling <- MCDwelling
    PageSize = 2
    MaxHoldDays = 5
    MinProfitPct = 10
    MinAssessed = 30
    MaxRatioPct = 30
    MinUnsold = 4
    Active = {"p1", "p2"}
    Address <- MCAddress
    Name <- MCName
    TaxOwner <- MCTaxOwner
    Space = 0
    Digit = {1, 2}
    Direction <- MCDirection
    Suffix <- MCSuffix
    NameOrder <- MCNameOrder
    HitLimit = 1
    MinSales = 2
    MaxTrends = 1
    Miles <- MCMiles
    Radius = 1
    MinComps = 3
    SqftTolerance = 50
    YearTolerance = 20
    Weight <- MCWeight
    Mapped <- MCMapped
    Top16 = 50
    Top8 = 4
    Mantissa = 10
    HeaderText <- MCHeaderText
INVARIANT DealRowsExcluded
