\* Three objects with one member each, and a text: chains, rings and leaves.
SPECIFICATION Spec
CONSTANTS
    Obj = {o1, o2, o3, text}
    Handle = {h1, h2}
    Slot = {s1}
    Acyclic = {text}
    Untraced = {}
    Threshold = 2
    NoObj = NoObj
SYMMETRY Symmetric
INVARIANTS NoUseAfterFree CountsExact
PROPERTIES CollectsAllGarbage ImplementsHeap EachWalkAdvances
CHECK_DEADLOCK FALSE
