\* Two processes, two promises, pipelines of up to two stages, a terminal.
CONSTANTS
    Pid = {p1, p2}
    Ctx = {c1, c2}
    ExitCode = {"ok", "err"}
    Ok = "ok"
    SpawnErr = "err"
    Interactive = TRUE
    Shell = Shell
    MaxStages = 2
SPECIFICATION Spec
SYMMETRY Symmetry
ACTION_CONSTRAINT ChildrenBetweenCalls
INVARIANTS
    TypeOK
    NoDanglingCtx
    RefsExact
    TerminalReturned
    HeldStatusKept
    StatusFaithful
    NeverStuck
CHECK_DEADLOCK FALSE
