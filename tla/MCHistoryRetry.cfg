SPECIFICATION StorageSpec
CONSTANTS
    Chunks = 2
    Data = {d1, d2}
    NoData = NoData
    MaxGeneration = 3
    none = none
    first = first
    second = second
    Standings <- MCStandings
    Empty = none
    MaxNum = 3
    MaxSeq = 6
    Readable = TRUE
INVARIANT
    RetryIsProvable
