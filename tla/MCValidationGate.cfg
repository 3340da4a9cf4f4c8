CONSTANTS
    Parts <- AllParts
    Fingerprinted <- Pinned
    Versions <- Two
    Broken <- SecondBad
SPECIFICATION Spec
INVARIANTS
    OkIsAboutItsPrint
    NothingBrokenIsMeasured
