SPECIFICATION NSpec
CONSTANTS
    factory = factory
    ann = ann
    bob = bob
    Value <- AllNames
    Default <- factory
    NoValue = NoValue
    NoName = NoName
    MaxGen = 4
    Readable = FALSE
    MaxFaults = 2
INVARIANTS
    ToldWhatRuns
