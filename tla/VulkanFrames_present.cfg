\* Three slots are enough for every slot state at once and for reuse; the fourth of the code
\* only lets one more frame go stale.
CONSTANTS
    Slots = {0, 1, 2}
    Sizes = {small, large}
    MaxFrames = 4
    MaxBehind = 1
    None = None
SPECIFICATION Spec
INVARIANTS TypeOK SemaphoresBalanced NoTornFrame SwapHoldsNothingUp 
PROPERTIES NewestShown EmulationNeverWaits
