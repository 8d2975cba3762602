\* A recording, the host that makes it and another whose exit asks for a
\* sweep, a failing ffmpeg or side-car, a killed host or application.
CONSTANTS
    Recs = {r1}
    Hosts = {h1, h2}
    Sweep = Sweep
    App = App
    NoRec = NoRec
    NoHost = NoHost
    MaxFrames = 1
    MaxFails = 1
    MaxDeaths = 1
SPECIFICATION FairSpec
INVARIANTS TypeOK FootageSafe SavedIsComplete
PROPERTY WorkersEnd
CHECK_DEADLOCK FALSE
