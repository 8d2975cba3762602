\* "Manual only": the full sync against the game hosts, with lost requests,
\* app deaths and reinstalls.
CONSTANTS
    Saves = {srm, card}
    Cards = {card}
    Hooks = {}
    FullSync = FullSync
    Manifest = Manifest
    NoSave = NoSave
    Timing = "manual"
    MaxClock = 3
    MaxFails = 2
    MaxCrashes = 1
SPECIFICATION Spec
INVARIANTS TypeOK ManualHonest
PROPERTY KnownLosses
