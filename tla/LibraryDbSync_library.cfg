CONSTANTS
    MaxEdits = 3
    Mishaps = 2
    Reinstalls = 1
SPECIFICATION Spec
INVARIANTS TypeOK BackupHonest AdoptsOwn NoPingPong
PROPERTIES BackupGrows
