CONSTANTS
    k1 = k1  k2 = k2  k3 = k3  dwelling = dwelling  sketch = sketch  value = value  roll = roll
    Kind <- MCKind
    Parts <- MCParts
    Side <- MCSide
    Key = {k1, k2, k3}
    File <- MCFile
    Bad = Bad
    More = More
    None = None
    Guarded = {roll}
    ChunkSize = 2
    Tolerance = 3
SPECIFICATION Spec
INVARIANTS
    OneSnapshot
    GuardedPartsInsert
