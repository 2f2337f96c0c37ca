SPECIFICATION FairNSpec
CONSTANTS
    factory = factory
    ann = ann
    bob = bob
    Value <- AllNames
    Default <- factory
    NoValue = NoValue
    NoName = NoName
    MaxGen = 4
    Readable = FALSE
    MaxFaults = 3
INVARIANTS
    OneNameEverywhere
    AcceptedSurvive
    CleanMirrors
PROPERTIES
    LegacyPreserved
    MirrorsEndClean
