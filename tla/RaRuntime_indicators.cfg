\* Two achievements: one can be primed while the other triggers, is unlocked in softcore only,
\* or is measured. Seconds are counted down from Hold.
CONSTANTS
    Achievements = {boss, coins}
    Decoupled = FALSE
    None = None
SPECIFICATION FairSpec
INVARIANTS TypeOK IndicatorsRight ResetReachesRuntime NoLoadInHardcore
PROPERTIES PillExpires
