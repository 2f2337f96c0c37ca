SPECIFICATION Spec
CONSTANTS
    factory = factory
    v1 = v1
    v2 = v2
    Value <- AllValues
    Default <- factory
    NoValue = NoValue
    MaxGen = 4
    Readable = TRUE
    MaxFaults = 4
INVARIANTS
    NoStaleSettings
