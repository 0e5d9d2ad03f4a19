\* Two processes, two promises: every pipeline whose stages die is resolved.
CONSTANTS
    Pid = {p1, p2}
    Ctx = {c1, c2}
    ExitCode = {"ok"}
    Ok = "ok"
    SpawnErr = "ok"
    Interactive = TRUE
    Shell = Shell
    MaxStages = 2
SPECIFICATION FairSpec
ACTION_CONSTRAINT NoJobs
PROPERTY DeadPipelineResolves
CHECK_DEADLOCK FALSE
