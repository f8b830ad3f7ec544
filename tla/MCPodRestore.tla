---------------------------- MODULE MCPodRestore ----------------------------
(***************************************************************************)
(* A small instance of PodRestore: a pause container and three others.     *)
(***************************************************************************)
EXTENDS PodRestore

CONSTANTS pause, app, sidecar, logger

FourContainers == {pause, app, sidecar, logger}
=============================================================================
