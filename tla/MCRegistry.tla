----------------------------- MODULE MCRegistry -----------------------------
(***************************************************************************)
(* A small instance of Registry: two ids of which one is used again, and a *)
(* goroutine that serves one call at a time.                               *)
(***************************************************************************)
EXTENDS Registry, TLC

CONSTANTS pause, app, t1

TwoIds      == {pause, app}
OneThread   == {t1}
BothClients == {"any", "event"}
CallsOf     ==
    [any   |-> {"start", "state", "delete"},
     event |-> {"start", "state", "delete", "pause", "resume"}]

RegistrySymmetry == Permutations(Ids)
=============================================================================
