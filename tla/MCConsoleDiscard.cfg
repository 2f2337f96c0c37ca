SPECIFICATION Spec
CONSTANTS
    none = none
    quiz = quiz
    sketch = sketch
    en = en
    pt = pt
    noLanguage = noLanguage
    Game <- MCGame
    Lobby = none
    SheetGame = sketch
    Language <- MCLanguage
    NoLanguage = noLanguage
    Fallback <- MCFallback
    Baked <- MCBaked
    PageJump = 2
    PageRows = 2
    MaxArchived = 3
    MaxChord = 2
PROPERTY
    DiscardPressedAgain
