-------------------------------- MODULE Lives --------------------------------
(***************************************************************************)
(* What becomes of tasks, each of which has a life of its own: it is       *)
(* created and perhaps started, dies, has its exit recorded and told, and  *)
(* is deleted.  A task can be lost: nobody can tell whether it lives.      *)
(* Registry implements it with tasks that share ids one after the other.   *)
(***************************************************************************)
CONSTANT Tasks

VARIABLES
    phase,      \* "none", "created", "running", "stopped" or "deleted"
    started,    \* tasks that were started
    live,       \* tasks with a process
    lost,       \* tasks that can neither be waited for nor killed
    recorded,   \* tasks whose exit was recorded
    told        \* tasks whose exit clients have been told

vars == <<phase, started, live, lost, recorded, told>>

Init ==
    /\ phase = [n \in Tasks |-> "none"]
    /\ started = {} /\ live = {} /\ lost = {} /\ recorded = {} /\ told = {}

Becomes(n, p) == phase' = [phase EXCEPT ![n] = p]

Create(n) ==
    /\ phase[n] = "none" /\ Becomes(n, "created") /\ live' = live \cup {n}
    /\ UNCHANGED <<started, lost, recorded, told>>

Start(n) ==
    /\ phase[n] = "created" /\ n \in live
    /\ Becomes(n, "running") /\ started' = started \cup {n}
    /\ UNCHANGED <<live, lost, recorded, told>>

FailStart(n) ==
    /\ phase[n] = "created" /\ Becomes(n, "stopped")
    /\ UNCHANGED <<started, live, lost, recorded, told>>

Die(n) ==
    /\ n \in live /\ live' = live \ {n}
    /\ UNCHANGED <<phase, started, lost, recorded, told>>

Lose(n) ==
    /\ n \in started \cap live /\ lost' = lost \cup {n}
    /\ UNCHANGED <<phase, started, live, recorded, told>>

\* A client asks for its state, or its exit is handled.
FindDead(n) ==
    /\ phase[n] \in {"created", "running"} /\ n \notin live /\ Becomes(n, "stopped")
    /\ UNCHANGED <<started, live, lost, recorded, told>>
Record(n) ==
    /\ phase[n] \in {"running", "stopped"} /\ n \in started \ (live \ lost)
    /\ Becomes(n, "stopped") /\ recorded' = recorded \cup {n}
    /\ UNCHANGED <<started, live, lost, told>>

Tell(n) ==
    /\ phase[n] = "stopped" /\ n \in recorded \ told
    /\ told' = told \cup {n}
    /\ UNCHANGED <<phase, started, live, lost, recorded>>

Delete(n) ==
    /\ phase[n] \in {"created", "stopped"}
    /\ Becomes(n, "deleted") /\ live' = live \ {n}
    /\ UNCHANGED <<started, lost, recorded, told>>

Next ==
    \E n \in Tasks : \/ Create(n) \/ Start(n) \/ FailStart(n) \/ Die(n)
                     \/ Lose(n) \/ FindDead(n) \/ Record(n) \/ Tell(n) \/ Delete(n)

Spec == Init /\ [][Next]_vars
=============================================================================
