\* One battery file, one tree that moves by a rename and one that needs the hop; two mishaps
\* are a death and a second one, or a failure, in the run that repeats the first.
CONSTANTS
    Entries = {srm, dc, psp}
    Loose = {srm}
    SelfNested = {psp}
    Mishaps = 2
SPECIFICATION Spec
INVARIANTS TypeOK SavesSafe MovedIntoPlace
