------------------------------- MODULE MCShim -------------------------------
(***************************************************************************)
(* Small instances of Shim: a sandbox with its pause container and at most *)
(* one application container, and one or two RPC goroutines.               *)
(***************************************************************************)
EXTENDS Shim

CONSTANTS pause, app, t1, t2

PodContainers  == {pause, app}
OnlyPause      == {pause}
NoContainer    == {}
TwoThreads     == {t1, t2}
OneThread      == {t1}
AllCalls       == {"start", "restore", "delete", "kill", "state", "wait", "checkpoint"}
LiveCalls      == {"start", "restore", "checkpoint"}
PodCalls       == {"start", "delete", "state"}
OneCode        == {7}
=============================================================================
