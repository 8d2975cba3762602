\* "Every N minutes during play": uploads fired by the timer and at a session's
\* close, and the pre-launch pull, beside the full sync.
CONSTANTS
    Saves = {srm}
    Cards = {}
    Hooks = {h1}
    FullSync = FullSync
    Manifest = Manifest
    NoSave = NoSave
    Timing = "periodic"
    MaxClock = 2
    MaxFails = 1
    MaxCrashes = 0
SPECIFICATION FairSpec
INVARIANT ManifestBacked
PROPERTY UploadersEnd
