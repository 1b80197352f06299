CONSTANTS
    first = p1
    Starting = {q1}
    Fresh = {c1, c2}
    Pages = {0, 1}
    STACK3 = 1
    Data = {0, 1}
    NFrames = 6
    NULL = NULL
SPECIFICATION Spec
INVARIANT SpacesDisjoint
PROPERTIES ForkCopies Isolation
