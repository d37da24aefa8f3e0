SPECIFICATION MCSpec
CONSTANTS
    Loops = {pm}
    Streams <- MCStreams
    NoStream = NoStream
    MaxLimit = 1
INVARIANTS
    TypeOK
    ActiveLoopIsRegistered
    RegisteredLoopIsLive
    RunningHasLoop
    OneLateSolve
PROPERTIES
    LoopsEnd
CHECK_DEADLOCK FALSE
