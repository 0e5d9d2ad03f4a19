SPECIFICATION Spec
CONSTANTS
    Programs <- Sequential
    Var = {"x", "y", "z"}
    File = {"f", "g"}
    Missing = {"f"}
    MaxFd = 11
    MaxThread = 4
    PipeRoom = 1
    Lines <- FileLines
INVARIANTS Balanced ParamsBalanced EndsOwned Agrees
