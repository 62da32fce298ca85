\* Integer literals up to 9.
SPECIFICATION Spec
CONSTANTS
    Sources <- FrontSources
    NoToken = NoToken
    IntMax  = 9
INVARIANTS
    TypeOK
    LexedAsRead
    ErrorsReported
    ParsesBack
    NothingLost
