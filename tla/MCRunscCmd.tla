----------------------------- MODULE MCRunscCmd -----------------------------
(***************************************************************************)
(* Small instances of RunscCmd: two goroutines that each hold two buffers  *)
(* at most.                                                                *)
(***************************************************************************)
EXTENDS RunscCmd, TLC

CONSTANTS g1, g2, b1, b2, b3, b4, app, pause

TwoGoroutines == {g1, g2}
FourBufs      == {b1, b2, b3, b4}

EachStyle == {[verb |-> v, id |-> app] : v \in {"wait", "kill", "update", "create"}}
TwoWaits  == {[verb |-> "wait", id |-> i] : i \in {app, pause}}

CmdSymmetry == Permutations(Goroutines) \cup Permutations(Bufs)
=============================================================================
