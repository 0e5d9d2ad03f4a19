\* fg of a job whose process died while it was stopped.
CONSTANTS
    Pid = {p1, p2}
    PidOf = {p1, p2}
    Ctx = {c1, c2, c3}
    ExitCode = {"ok"}
    Ok = "ok"
    SpawnErr = "ok"
    Interactive = TRUE
    Shell = Shell
    MaxStages = 1
    MaxJobs = 2
SPECIFICATION JobSpec
SYMMETRY Symmetry
ACTION_CONSTRAINT NoBackground
INVARIANT FgReturns
CHECK_DEADLOCK FALSE
