----------------------------- MODULE MCRelease -----------------------------
(***************************************************************************)
(* A small instance of Release: two workflow runs, a developer, two arches *)
(* and a pull request whose head moves once.                               *)
(***************************************************************************)
EXTENDS Release

CONSTANTS amd64, arm64

BothArches == {amd64, arm64}

\* In a behaviour developers push and no command fails, or they only write
\* locks and a command may fail: both at once are too many states.
VARIABLE mode

MCInit == Init /\ mode \in {"pushes", "failures"}
MCNext ==
    /\ Next /\ UNCHANGED mode
    /\ mode = "pushes" => faults' = 0
    /\ mode = "failures" => job'[Dev].at = "idle" \/ job'[Dev].dry
MCFairSpec ==
    /\ MCInit /\ [][MCNext]_<<vars, mode>>
    /\ \A p \in Procs : WF_vars(StackPy(p))
    /\ \A r \in Runs : WF_vars(Workflow(r)) /\ SF_vars(Rerun(r))
=============================================================================
