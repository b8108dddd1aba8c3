SPECIFICATION Spec
CONSTANTS
    Children = {c1, c2, c3}
    Dicts = {d1, d2}
    Writable = {}
    Pages = 2
    Blocks = 2
    Copies = 2
SYMMETRY Symmetry
INVARIANT LookupReadsWords
CHECK_DEADLOCK FALSE
