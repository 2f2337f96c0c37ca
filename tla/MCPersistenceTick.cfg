SPECIFICATION PSpec
CONSTANTS
    none = none
    zero = zero
    played = played
    Standings <- AllStandings
    Empty <- none
    Zero <- zero
    MaxNum = 3
    MaxSeq = 6
    Readable = FALSE
    MaxFaults = 2
    TickFirst = FALSE
INVARIANTS FallbackOutranksSlot
