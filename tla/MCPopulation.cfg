CONSTANTS
    w1 = w1  w2 = w2  w3 = w3  w4 = w4
    FirstYear = 1
    LastYear = 2
    MaxRevision = 2
    Index <- MCIndex
    Archive = {w1, w2, w3}
    Kind <- MCKind
    RaggedExport <- MCRaggedExport
    MaxRestarts = 1
SPECIFICATION Spec
PROPERTY ExportsServed
