\* Two processes, three promises, two jobs: all of job control.
CONSTANTS
    Pid = {p1, p2}
    PidOf = {p1, p2}
    Ctx = {c1, c2, c3}
    ExitCode = {"ok"}
    Ok = "ok"
    SpawnErr = "ok"
    Interactive = TRUE
    Shell = Shell
    MaxStages = 2
    MaxJobs = 2
SPECIFICATION JobSpec
SYMMETRY Symmetry
ACTION_CONSTRAINT ChildrenBetweenCalls
INVARIANTS
    PromptOwnsTerminal
    PidInOneJob
    TargetsInTable
    RunReturns
    CurrentNamesAJob
PROPERTY Spec
CHECK_DEADLOCK FALSE
