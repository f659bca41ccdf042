SPECIFICATION Spec
CONSTANTS
    Conn = {1, 2, 3}
    Name = {n1, n2}
    Fd = {3, 4, 5}
    NULL = NULL
    Faults = {"handler", "game", "garbage"}
SYMMETRY Symmetry
INVARIANTS
    TypeOK
    NamesExact
    OneOwner
    NoFdLeak
