CONSTANTS
    Entries = {dc, psp}
    Loose = {}
    SelfNested = {psp}
    Mishaps = 1
SPECIFICATION Spec
INVARIANTS NeverDeleted
