CONSTANTS
    MaxEdits = 1
    Mishaps = 0
    Reinstalls = 1
SPECIFICATION Spec
PROPERTIES BackupKept
