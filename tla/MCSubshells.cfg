SPECIFICATION Spec
CONSTANTS
    Programs <- Parenthesised
    Var = {"x", "y", "z"}
    File = {"f", "g"}
    Missing = {"f"}
    MaxFd = 11
    MaxThread = 5
    PipeRoom = 1
    Lines <- FileLines
INVARIANT SubshellsIsolated
