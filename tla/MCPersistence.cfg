SPECIFICATION FairSpec
CONSTANTS
    none = none
    zero = zero
    played = played
    Standings <- AllStandings
    Empty <- none
    Zero <- zero
    MaxNum = 2
    MaxSeq = 4
    Readable = FALSE
    MaxFaults = 2
    TickFirst = TRUE
INVARIANTS
    AckedSurvives
    CleanMeansSaved
    MediaAgree
PROPERTIES
    ArchivesKeepSessions
    DirtyEndsSaved
