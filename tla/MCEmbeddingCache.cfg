SPECIFICATION FairSpec
CONSTANTS
    bge = bge
    note = note
    book = book
    plain = plain
    short = short
    Nothing = Nothing
    Sessions = {s1, s2}
    Questions <- MCQuestions
    TooLarge = {book}
    TTL = 2
    Releases = 1
INVARIANTS
    CacheTypeOK
    HitFitsInput
PROPERTIES
    OnlyHostsFail
    StoreHoldsNobodyUp
    ReplacementShows
