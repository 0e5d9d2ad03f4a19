CONSTANTS
    Pool = 3
    Consumer = {"stdout"}
    Output <- MCOutput
    MaxChunks = 1
SPECIFICATION Spec
INVARIANTS
    ResultComplete
    StdoutIterated
PROPERTIES
    LoopsEnd
    Settles
CHECK_DEADLOCK FALSE
