CONSTANTS
    p1 = p1  p2 = p2  p3 = p3  server = server  command = command
    Parcel = {p1, p2, p3}
    Export <- MCExport
    Geocoder = {server, command}
    Server = server
    BatchSize = 2
    NoRow = NoRow
SPECIFICATION Spec
PROPERTIES
    SourceStaysTrue
    CountyPrevails
    LoadSettlesActive
    BacklogCleared
