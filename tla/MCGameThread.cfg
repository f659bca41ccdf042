SPECIFICATION Spec
CONSTANTS
    Start <- MCStart
    Moves <- MCMoves
    MaxInbox = 1
INVARIANTS
    TypeOK
    ViewsCurrent
    VerdictIsReal
    VerdictAgreed
PROPERTIES
    NoWriteAfterClose
    ImplementsGame
    
    
