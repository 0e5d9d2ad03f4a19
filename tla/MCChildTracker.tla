--------------------------- MODULE MCChildTracker ---------------------------
(* ChildTracker on a few processes and promises. *)
EXTENDS ChildTracker, TLC

Symmetry == Permutations(Pid) \cup Permutations(Ctx)

\* A step of a child commutes with the steps of spawnPipeline's and
\* waitForPids' loops, which read no process state: it is enough to let
\* children run between calls, in onSigChld and in a blocking waitpid.
ChildrenBetweenCalls ==
    at \in {"spawn", "wait"} =>
        UNCHANGED <<code, news, sigchld>>

\* No background jobs and no fg: every promise is of the kinds the liveness
\* property speaks of.
NoJobs ==
    /\ ChildrenBetweenCalls
    /\ \A c \in Ctx : ctxs'[c].mode \in {"foreground", "capture", "mixed"}
    /\ lent' = Shell
=============================================================================
