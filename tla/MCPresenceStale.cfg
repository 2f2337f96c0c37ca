CONSTANTS
    ann = ann
    bob = bob
    Identity = {ann, bob}
    NoOne = NoOne
    Nameless = Nameless
    MaxPlayers = 2
    Socket <- MCSocket
    Grace = 2
    Word = 5
    LoopLag = 1
    CallbackLag = 0
    Period = 1
    MaxPending = 1
SPECIFICATION Spec
PROPERTIES
    GraceKept
SYMMETRY Phones
