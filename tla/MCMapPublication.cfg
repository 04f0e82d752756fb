CONSTANTS
    MaxSales = 2
    MaxVersion = 4
    MaxFaults = 2
    MaxEpoch = 1
    Client = {c1}
SPECIFICATION Spec
INVARIANTS
    ResolvedFileStays
    VersionNamesContent
PROPERTIES
    PublicationPrevails
    MapCatchesUp
