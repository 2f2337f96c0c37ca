CONSTANTS
    ann = ann
    bob = bob
    Identity = {ann}
    NoOne = NoOne
    Nameless = Nameless
    MaxPlayers = 1
    Socket <- MCSocket
    Grace = 2
    Window = 3
    Word = 6
    LoopLag = 1
    CallbackLag = 0
    Period = 1
SPECIFICATION Spec
PROPERTIES
    WindowKept
