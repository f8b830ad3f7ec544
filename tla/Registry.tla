------------------------------ MODULE Registry ------------------------------
(***************************************************************************)
(* The shim finds everything by container id: s.containers, the OOM poller *)
(* and runsc are maps from ids, and an exit carries only the id of its     *)
(* process (runsc_service.go).  This module tells the incarnations of an   *)
(* id apart, which the code cannot: each Create that gets as far as runsc  *)
(* makes a new one.  It also has the calls that Shim leaves out, Pause,    *)
(* Resume and Shutdown.                                                    *)
(*                                                                         *)
(* What happens inside Init is one step here (Shim has the detail).  The   *)
(* field inc of exits and of the handler, told and histVars are history    *)
(* the code does not have.                                                 *)
(***************************************************************************)
EXTENDS Naturals, Sequences, FiniteSets

CONSTANTS
    Ids,        \* container ids
    MaxInc,     \* bound on the number of incarnations
    Threads,    \* goroutines serving RPCs
    Clients,    \* what clients there are, see below
    Calls,      \* the calls each makes besides Create and Shutdown
    EventCap,   \* capacity of s.events (128)
    None

ASSUME ClientAssumption == Clients \subseteq {"any", "event"}
ASSUME RegistryAssumption ==
    /\ MaxInc \in Nat /\ EventCap \in Nat \ {0}
    /\ None \notin Ids /\ None \notin 1 .. MaxInc
    /\ Calls \in [Clients -> SUBSET {"start", "state", "delete", "pause", "resume"}]

Incs == 1 .. MaxInc

VARIABLES
    containers, \* s.containers: id -> incarnation
    oom,        \* the OOM poller's cgroups: id -> incarnation
    made,       \* number of incarnations so far
    idOf,       \* id of an incarnation
    state,      \* its init state
    exited,     \* incarnations whose exit was recorded
    rt,         \* it in runsc: "absent", "running", "paused" or "stopped"
    waiter,     \* the goroutine of Init.start: "none", "waiting" or "sent"
    ExitCh,     \* exits to be handled: [id, inc]
    h,          \* the exit handler: [pc, id, inc, found]
    events,     \* s.events: [type, id, inc]
    down,       \* "up", "granted" (Shutdown) or "closed" (s.events)
    told,       \* incarnations whose TaskExit was published
    pc, on, obj,\* RPC goroutines: step, id, Container
    client,     \* the client
    astray,     \* incarnations of a Create that failed in runsc, or that ran
                \* while a Delete of the id was about to remove it
    unpolled,   \* those whose cgroup the OOM poller was not given
    lost        \* those that could not be waited for and outlived the kill

mapVars  == <<containers, oom>>
incVars  == <<made, idOf, state, exited, waiter>>
exitVars == <<ExitCh, h>>
evVars   == <<events, down, told>>
rpcVars  == <<pc, on, obj>>
histVars == <<astray, unpolled, lost>>
vars == <<mapVars, incVars, rt, exitVars, evVars, rpcVars, client, histVars>>

Idle == [pc |-> "idle", id |-> None, inc |-> None, found |-> None]

Init ==
    /\ containers = [i \in Ids |-> None] /\ oom = [i \in Ids |-> None]
    /\ made = 0
    /\ idOf = [n \in Incs |-> None]
    /\ state = [n \in Incs |-> "none"]
    /\ exited = {}
    /\ rt = [n \in Incs |-> "absent"]
    /\ waiter = [n \in Incs |-> "none"]
    /\ ExitCh = << >> /\ h = Idle
    /\ events = << >> /\ down = "up" /\ told = {}
    /\ pc = [t \in Threads |-> "idle"]
    /\ on = [t \in Threads |-> None]
    /\ obj = [t \in Threads |-> None]
    /\ client \in Clients
    /\ astray = {} /\ unpolled = {} /\ lost = {}

-----------------------------------------------------------------------------
(* Helpers *)

\* The incarnations that exist in runsc under an id: at most one.
InRunsc(id) == {n \in Incs : idOf[n] = id /\ rt[n] # "absent"}

Alive(id)   == {n \in InRunsc(id) : rt[n] \in {"running", "paused"}}

\* runsc kill --all, runsc delete: they name an id, not an incarnation.
Killed(id) == [n \in Incs |-> IF n \in InRunsc(id) THEN "stopped" ELSE rt[n]]
Gone(id)   == [n \in Incs |-> IF n \in InRunsc(id) THEN "absent" ELSE rt[n]]

\* Init.killAllLocked ignores an error.
KillAll(id) == rt' \in {Killed(id), rt}

(***************************************************************************)
(* Clients.  One calls whatever and whenever it likes: "any".  An "event"  *)
(* client, as containerd's CRI plugin is, has one call besides State under *)
(* way for an id, starts a task only if the last Create of its id got it   *)
(* one, deletes a started task when it has received its TaskExit, and      *)
(* after a Shutdown, for which it waits until its calls have returned,     *)
(* makes no call.                                                          *)
(***************************************************************************)
Busy(id)    == \E t \in Threads : on[t] = id /\ pc[t] # "state"
Serving     == down = "up" \/ (client = "any" /\ down = "granted")
Free(id)    == Serving /\ (client = "any" \/ ~Busy(id))
Latest(id)  == \A n \in Incs : idOf[n] = id => n <= containers[id]

MayStart(id)  == Free(id) /\ (client = "any" \/ Latest(id))
MayDelete(id) ==
    /\ Free(id)
    /\ client = "any" \/ waiter[containers[id]] = "none" \/ containers[id] \in told
MayShutdown   == client = "any" \/ \A t \in Threads : pc[t] = "idle"

-----------------------------------------------------------------------------
(* Create runs under s.mu as a whole.  runsc refuses an id it knows; the   *)
(* map is not looked at, its entry is overwritten.  An error leaves the    *)
(* container in runsc or, once it is in the map, registered without an     *)
(* entry of its own in the OOM poller, as does a pid that is not positive. *)

Register(id, n) ==
    /\ containers' = [containers EXCEPT ![id] = n]
    /\ state' = [state EXCEPT ![n] = "created"]

Removing(id) == \E t \in Threads : pc[t] = "remove" /\ on[t] = id

Create(id) ==
    LET n == made + 1 IN
    /\ Free(id) /\ made < MaxInc /\ InRunsc(id) = {}
    /\ made' = n
    /\ idOf' = [idOf EXCEPT ![n] = id]
    /\ rt' = [rt EXCEPT ![n] = "running"]
    /\ \/ /\ Register(id, n) /\ oom' = [oom EXCEPT ![id] = n]
          /\ astray' = IF Removing(id) THEN astray \cup {n} ELSE astray
          /\ unpolled' = unpolled
       \/ /\ Register(id, n) /\ oom' = oom
          /\ astray' = IF Removing(id) THEN astray \cup {n} ELSE astray
          /\ unpolled' = unpolled \cup {n}
       \/ /\ astray' = astray \cup {n}
          /\ UNCHANGED <<containers, oom, state, unpolled>>
    /\ UNCHANGED <<exited, waiter, exitVars, evVars, rpcVars, client, lost>>

\* The other calls look the id up, under s.mu, and keep the Container.
getContainer(t, id, l) ==
    /\ l \in Calls[client] /\ Serving /\ pc[t] = "idle" /\ containers[id] # None
    /\ pc' = [pc EXCEPT ![t] = l]
    /\ on' = [on EXCEPT ![t] = id]
    /\ obj' = [obj EXCEPT ![t] = containers[id]]
    /\ UNCHANGED <<mapVars, incVars, rt, exitVars, evVars, client, histVars>>

Goto(t, l) == pc' = [pc EXCEPT ![t] = l] /\ UNCHANGED <<on, obj>>
Return(t) ==
    /\ pc' = [pc EXCEPT ![t] = "idle"]
    /\ on' = [on EXCEPT ![t] = None]
    /\ obj' = [obj EXCEPT ![t] = None]

CallStart(t, id)  == getContainer(t, id, "start") /\ MayStart(id)
CallState(t, id)  == getContainer(t, id, "state")
CallDelete(t, id) == getContainer(t, id, "delete") /\ MayDelete(id)
CallPause(t, id)  == getContainer(t, id, "pause") /\ Free(id)
CallResume(t, id) == getContainer(t, id, "resume") /\ Free(id)

\* Fault: the goroutine is spawned although runsc start failed.
MutStart(t) ==
    LET n == obj[t] IN
    /\ pc[t] = "start"
    /\ \/ /\ state[n] = "created" /\ Alive(on[t]) # {}
          /\ state' = [state EXCEPT ![n] = "running"]
          /\ waiter' = [waiter EXCEPT ![n] = "waiting"]
       \/ /\ state[n] = "created" /\ state' \in {state, [state EXCEPT ![n] = "stopped"]}
          /\ waiter' = [waiter EXCEPT ![n] = "waiting"]
    /\ Return(t)
    /\ UNCHANGED <<mapVars, made, idOf, exited, rt, exitVars, evVars, client, histVars>>
\* Init.Start spawns the goroutine that waits for the container.  A start that
\* fails leaves the task created or, that of a sub-container, stopped.
Start(t) ==
    LET n == obj[t] IN
    /\ pc[t] = "start"
    /\ \/ /\ state[n] = "created" /\ Alive(on[t]) # {}
          /\ state' = [state EXCEPT ![n] = "running"]
          /\ waiter' = [waiter EXCEPT ![n] = "waiting"]
       \/ /\ state[n] = "created" /\ state' = [state EXCEPT ![n] = "stopped"]
          /\ waiter' = waiter
       \/ UNCHANGED <<state, waiter>>
    /\ Return(t)
    /\ UNCHANGED <<mapVars, made, idOf, exited, rt, exitVars, evVars, client, histVars>>

\* Init.Status records a container that runsc finds dead.
State(t) ==
    /\ pc[t] = "state"
    /\ state' = [state EXCEPT ![obj[t]] =
          IF @ \in {"created", "running"} /\ Alive(on[t]) = {} THEN "stopped" ELSE @]
    /\ Return(t)
    /\ UNCHANGED <<mapVars, made, idOf, exited, waiter, rt, exitVars, evVars, client,
                   histVars>>

-----------------------------------------------------------------------------
(* Delete *)

\* Fault: the service removes the container although Container.Delete failed.
MutDeleteErr(t) ==
    /\ pc[t] = "delete" /\ state[obj[t]] \in {"created", "stopped"}
    /\ Goto(t, "remove")
    /\ UNCHANGED <<mapVars, incVars, rt, exitVars, evVars, client, histVars>>
\* Init.Delete refuses a running or deleted task.  If not it has killed what is
\* left, or not, when runsc delete fails, or the unmount after it.
DeleteErr(t) ==
    /\ pc[t] = "delete"
    /\ \/ rt' = rt
       \/ /\ state[obj[t]] \in {"created", "stopped"}
          /\ rt' \in {Killed(on[t]), Gone(on[t])}
    /\ Return(t)
    /\ UNCHANGED <<mapVars, incVars, exitVars, evVars, client, histVars>>

\* Init.Delete kills what is left and deletes the container in runsc.
InitDelete(t) ==
    /\ pc[t] = "delete" /\ state[obj[t]] \in {"created", "stopped"}
    /\ state' = [state EXCEPT ![obj[t]] = "deleted"]
    /\ rt' = Gone(on[t])
    /\ Goto(t, "remove")
    /\ UNCHANGED <<mapVars, made, idOf, exited, waiter, exitVars, evVars, client, histVars>>

\* Whatever the map has under the id is removed, under s.mu.
Remove(t) ==
    /\ pc[t] = "remove"
    /\ containers' = [containers EXCEPT ![on[t]] = None]
    /\ Return(t)
    /\ UNCHANGED <<oom, incVars, rt, exitVars, evVars, client, histVars>>

-----------------------------------------------------------------------------
(* Pause and Resume take no lock: the command, then, if it returned no     *)
(* error, the event.  It can return one and have had its effect.           *)

SwitchCmd(t, l, from, to, next) ==
    LET N == {n \in InRunsc(on[t]) : rt[n] = from}
        done == [n \in Incs |-> IF n \in N THEN to ELSE rt[n]]
    IN
    /\ pc[t] = l
    /\ \/ N # {} /\ rt' = done /\ Goto(t, next)
       \/ rt' \in {rt, done} /\ Return(t)
    /\ UNCHANGED <<mapVars, incVars, exitVars, evVars, client, histVars>>

Pause(t)  == SwitchCmd(t, "pause", "running", "paused", "sendpaused")
Resume(t) == SwitchCmd(t, "resume", "paused", "running", "sendresumed")

\* send blocks while the channel is full.
send(type, id, n) ==
    /\ Len(events) < EventCap
    /\ events' = Append(events, [type |-> type, id |-> id, inc |-> n])

SendEvent(t, l, type) ==
    /\ pc[t] = l /\ down # "closed"
    /\ send(type, on[t], obj[t])
    /\ Return(t)
    /\ UNCHANGED <<mapVars, incVars, rt, exitVars, down, told, client, histVars>>

SendPaused(t)  == SendEvent(t, "sendpaused", "paused")
SendResumed(t) == SendEvent(t, "sendresumed", "resumed")

\* Shutdown is refused while there are containers.
Shutdown ==
    /\ down = "up" /\ \A id \in Ids : containers[id] = None
    /\ MayShutdown
    /\ down' = "granted"
    /\ UNCHANGED <<mapVars, incVars, rt, exitVars, events, told, rpcVars, client, histVars>>

\* The shutdown service then runs the callback, which looks at nothing.
CloseEvents ==
    /\ down = "granted" /\ down' = "closed"
    /\ UNCHANGED <<mapVars, incVars, rt, exitVars, events, told, rpcVars, client, histVars>>

-----------------------------------------------------------------------------
(* Exits *)

Die(n) ==
    /\ rt[n] \in {"running", "paused"}
    /\ rt' = [rt EXCEPT ![n] = "stopped"]
    /\ UNCHANGED <<mapVars, incVars, exitVars, evVars, rpcVars, client, histVars>>

\* runsc wait returns: the container has stopped, or an error, which does not
\* say so and after which all processes of the id are killed.
SendExit(n) ==
    /\ waiter[n] = "waiting"
    /\ \/ rt[n] \in {"stopped", "absent"} /\ UNCHANGED <<rt, lost>>
       \/ /\ KillAll(idOf[n])
          /\ lost' = IF rt'[n] \in {"running", "paused"} THEN lost \cup {n} ELSE lost
    /\ waiter' = [waiter EXCEPT ![n] = "sent"]
    /\ ExitCh' = Append(ExitCh, [id |-> idOf[n], inc |-> n])
    /\ UNCHANGED <<mapVars, made, idOf, state, exited, h, evVars, rpcVars, client,
                   astray, unpolled>>

\* Fault: TaskExit goes out before the exit is recorded.
MutAfter(l) ==
    CASE l = "find" -> "exit" [] l = "exit" -> "killall"
      [] l = "killall" -> "setexited" [] l = "setexited" -> "oom"
      [] l = "oom" -> "idle"
\* The order of checkProcesses.
After(l) ==
    CASE l = "find" -> "killall" [] l = "killall" -> "setexited"
      [] l = "setexited" -> "oom" [] l = "oom" -> "exit" [] l = "exit" -> "idle"

HandlerGoto(l) ==
    h' = IF After(l) = "idle" THEN Idle ELSE [h EXCEPT !.pc = After(l)]

ReceiveExit ==
    /\ h.pc = "idle" /\ ExitCh # << >>
    /\ h' = [pc |-> "find", id |-> Head(ExitCh).id, inc |-> Head(ExitCh).inc,
             found |-> None]
    /\ ExitCh' = Tail(ExitCh)
    /\ UNCHANGED <<mapVars, incVars, rt, evVars, rpcVars, client, histVars>>

\* The process is found by its id, which is its container's.
FindProcess ==
    /\ h.pc = "find"
    /\ h' = IF containers[h.id] = None THEN Idle
            ELSE [h EXCEPT !.pc = After("find"), !.found = containers[h.id]]
    /\ UNCHANGED <<mapVars, incVars, rt, ExitCh, evVars, rpcVars, client, histVars>>

HandlerKillAll ==
    /\ h.pc = "killall" /\ KillAll(h.id)
    /\ HandlerGoto("killall")
    /\ UNCHANGED <<mapVars, incVars, ExitCh, evVars, rpcVars, client, histVars>>

SetExited ==
    /\ h.pc = "setexited"
    /\ IF state[h.found] = "deleted" THEN UNCHANGED <<state, exited>>
       ELSE /\ state' = [state EXCEPT ![h.found] = "stopped"]
            /\ exited' = exited \cup {h.found}
    /\ HandlerGoto("setexited")
    /\ UNCHANGED <<mapVars, made, idOf, waiter, rt, ExitCh, evVars, rpcVars, client, histVars>>

\* isOOM looks at the cgroup kept for the id and forgets it; TaskOOM goes out
\* if the cgroup has counted a kill.
IsOOM ==
    /\ h.pc = "oom"
    /\ \/ events' = events
       \/ oom[h.id] # None /\ down # "closed" /\ send("oom", h.id, oom[h.id])
    /\ oom' = [oom EXCEPT ![h.id] = None]
    /\ HandlerGoto("oom")
    /\ UNCHANGED <<containers, incVars, rt, ExitCh, down, told,
                   rpcVars, client, histVars>>

SendTaskExit ==
    /\ h.pc = "exit" /\ down # "closed"
    /\ send("exit", h.id, h.found)
    /\ HandlerGoto("exit")
    /\ UNCHANGED <<mapVars, incVars, rt, ExitCh, down, told, rpcVars, client, histVars>>

Forward ==
    /\ events # << >>
    /\ LET e == Head(events) IN
       told' = IF e.type = "exit" THEN told \cup {e.inc} ELSE told
    /\ events' = Tail(events)
    /\ UNCHANGED <<mapVars, incVars, rt, exitVars, down, rpcVars, client, histVars>>

-----------------------------------------------------------------------------

Call(t, id) == \/ CallStart(t, id) \/ CallState(t, id) \/ CallDelete(t, id)
               \/ CallPause(t, id) \/ CallResume(t, id)

Serve(t) == \/ Start(t) \/ State(t) \/ DeleteErr(t) \/ InitDelete(t)
            \/ Remove(t) \/ Pause(t) \/ Resume(t)
            \/ SendPaused(t) \/ SendResumed(t)

Handler == \/ ReceiveExit \/ FindProcess \/ HandlerKillAll \/ SetExited
           \/ IsOOM \/ SendTaskExit

Next ==
    \/ \E id \in Ids : Create(id) \/ \E t \in Threads : Call(t, id)
    \/ \E t \in Threads : Serve(t)
    \/ \E n \in Incs : Die(n) \/ SendExit(n)
    \/ Handler \/ Forward \/ Shutdown \/ CloseEvents

Spec == Init /\ [][Next]_vars

-----------------------------------------------------------------------------
(* Properties *)

\* checkProcesses, "Find the container whose process exited": with an "event"
\* client the exit of an incarnation is recorded on that incarnation, and neither
\* the processes of another one are killed nor its OOM cgroup is consumed by it,
\* unless a Create that failed or found no pid left an old cgroup in the poller.
ExitMeetsItsIncarnation ==
    client = "event" =>
        /\ h.pc \in {"killall", "setexited", "oom", "exit"} => h.found = h.inc
        /\ h.pc = "killall" => InRunsc(h.id) \subseteq {h.inc}
        /\ h.pc = "oom" => oom[h.id] \in {None, h.inc} \/ h.inc \in unpolled

\* Whatever clients do, what runsc has is in the map unless its Create failed or
\* ran between the two steps of a Delete of the id: Delete removes by id after
\* the locks are released, Create overwrites, and only there a container that
\* was created is forgotten.
NothingForgotten ==
    \A n \in Incs \ astray : rt[n] # "absent" => containers[idOf[n]] = n

\* With an "event" client s.events is closed only when nobody will send again,
\* although the callback looks at nothing and runs some time after Shutdown has
\* counted the containers: a send on the closed channel is a panic of the shim.
NoSendAfterClose ==
    client = "event" /\ down = "closed" =>
        /\ h.pc \notin {"oom", "exit"}
        /\ \A t \in Threads : pc[t] \notin {"sendpaused", "sendresumed"}

\* "Find the container whose process exited." (runsc_service.go:603)  Exits, the
\* map and runsc go by ids that are used again, and yet every step with an "event"
\* client is about one task: it is killed, recorded, told and deleted alone, its
\* exit is recorded when it was started and is dead, or could neither be waited
\* for nor killed, it is told once, after that, and before the task is deleted.
Own(now, first) == IF client = "event" THEN now ELSE first
OwnLife == INSTANCE Lives WITH
    Tasks    <- Incs,
    phase    <- Own(state, [n \in Incs |-> "none"]),
    started  <- Own({n \in Incs : waiter[n] # "none"}, {}),
    live     <- Own({n \in Incs : state[n] # "none" /\ rt[n] \in {"running", "paused"}}, {}),
    lost     <- Own(lost, {}),
    recorded <- Own(exited, {}),
    told     <- Own(told, {})
ImplementsLives == OwnLife!Spec
=============================================================================
