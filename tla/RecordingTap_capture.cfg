\* Three buffers and six frames: the pool empties, buffers are reused.
CONSTANTS
    Buffers = {b1, b2, b3}
    NoBuffer = NoBuffer
    MaxFrames = 6
    SlowDisk = TRUE
SPECIFICATION FairSpec
INVARIANTS TypeOK BuffersSafe FramesKept
PROPERTIES LogKept StopEnds
CHECK_DEADLOCK FALSE
