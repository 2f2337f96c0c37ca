CONSTANTS
    ann = ann
    bob = bob
    Identity = {ann, bob}
    NoOne = NoOne
    Nameless = Nameless
    MaxPlayers = 2
    Socket <- MCSocket
    Grace = 1
    Window = 2
    Word = 6
    LoopLag = 1
    CallbackLag = 1
    Period = 1
SPECIFICATION Spec
INVARIANTS
    StateAgrees
    NoStaleSeat
    RequiredAgrees
    WaitEnds
PROPERTIES
    KeptUnlessStale
VIEW AgesOnly
CONSTRAINT AllEvaluated
SYMMETRY Phones
