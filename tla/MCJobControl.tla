---------------------------- MODULE MCJobControl ----------------------------
(* JobControl on a few processes, promises and jobs. *)
EXTENDS JobControl, TLC

\* Processes and contexts are interchangeable.
Symmetry == Permutations(Pid) \cup Permutations(Ctx)

\* A step of a child commutes with the loops of spawnPipeline and
\* waitForPids and with stretches of the shell that read no process state.
ChildrenBetweenCalls ==
    at \in {"spawn", "wait"} \/ cmd \in {"report", "waitnext"} =>
        UNCHANGED <<code, news, sigchld>>

\* A job leaves the table at the prompt only when it is disowned.
NoDisown == /\ ChildrenBetweenCalls
            /\ cmd = "prompt" => DOMAIN jobs \subseteq DOMAIN jobs'

\* No background pipelines: every job is one that stopped in the foreground.
NoBackground == /\ NoDisown
                /\ \A c \in Ctx : ctxs'[c].mode # "background"

=============================================================================
