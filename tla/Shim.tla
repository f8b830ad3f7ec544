-------------------------------- MODULE Shim --------------------------------
(***************************************************************************)
(* The containerd shim's task lifecycle: runscService (runsc_service.go),  *)
(* Container (runsc_container.go) and the init process Init (proc_init.go) *)
(* with the goroutine that waits for a container, the single goroutine     *)
(* that handles exits and the single goroutine that forwards events.       *)
(*                                                                         *)
(* Every RPC runs in a goroutine of its own: a member of Threads serves    *)
(* one call at a time and pc[t] says how far it got.  s.mu is smu, and     *)
(* mu[c] is Init.mu of container c.  A step that takes a mutex, works and  *)
(* releases it with nothing slow in between is one action guarded by the   *)
(* mutex being free; where a runsc command runs under the mutex, taking it *)
(* and releasing it are separate steps.                                    *)
(*                                                                         *)
(* External, modelled from how the shim uses it: the runsc runtime (rt),   *)
(* the kernel's OOM killer, the OOM poller, and the table of init states   *)
(* (created, running, stopped, deleted).                                   *)
(***************************************************************************)
EXTENDS Integers, Sequences

CONSTANTS
    Containers,     \* container ids; containerd gives each task a fresh id
    Root,           \* the pause container: its process is the sandbox
    Annotated,      \* containers whose spec carries the restore annotation
    Threads,        \* goroutines serving RPCs
    Calls,          \* the RPCs clients make besides Create
    ExitCodes,      \* exit statuses a container's process can end with
    InternalError,  \* internalErrorCode
    KillAttempts,   \* attempts Init.kill fits into its one second
    EventCap,       \* capacity of runscService.events (128)
    None            \* no container, no lock holder

ASSUME RootAssumption == Root \in Containers /\ Annotated \subseteq Containers
ASSUME NoneAssumption ==
    None \notin Containers /\ None \notin Threads /\ None \notin Nat
ASSUME CallAssumption ==
    Calls \subseteq {"start", "restore", "delete", "kill", "state", "wait", "checkpoint"}
ASSUME CodeAssumption == ExitCodes \subseteq Nat /\ InternalError \in Nat
ASSUME BoundAssumption == KillAttempts \in Nat \ {0} /\ EventCap \in Nat \ {0}

VARIABLES
    \* runscService
    reg,        \* keys of s.containers
    smu,        \* holder of s.mu
    oomIds,     \* containers the OOM poller still has a cgroup for
    events,     \* the s.events channel
    published,  \* what forward has published, in order
    \* Init
    initState,  \* name of p.initState, "none" before Create
    mu,         \* holder of p.mu
    exited,     \* ~p.exited.IsZero(), which is when waitBlock is closed
    status,     \* p.status
    launched,   \* how the process was launched: "none", "cold" or "restore"
    \* goroutine of Init.start
    waiter,     \* "none", "waiting", "reaped" or "sent"
    wcode,      \* the status it got from runsc wait
    \* exit handling
    exitCh,     \* ExitCh, a sequence of <<id, status>>
    hpc,        \* step of the goroutine running processExits
    hc,         \* the container it is handling
    hstatus,    \* the exit status it is handling
    \* RPC goroutines
    pc, on, mode, tries,
    waitReply,  \* statuses that Wait calls have answered with
    \* runsc and the kernel
    rt,         \* the container in runsc: "absent", "created", ...
    oomed,      \* memory.events of the sandbox cgroup counts an OOM kill
    victims,    \* armed containers that were running when it happened
    outlived    \* the kills of its exit path that a container outlived

svcVars  == <<reg, smu, oomIds>>
evVars   == <<events, published>>
initVars == <<initState, exited, status, launched>>
waitVars == <<waiter, wcode>>
exitVars == <<exitCh, hpc, hc, hstatus>>
rpcVars  == <<pc, on, mode, tries, waitReply>>
endVars  == <<oomed, victims, outlived>>
vars == <<svcVars, evVars, initVars, mu, waitVars, exitVars, rpcVars, rt,
          endVars>>

InitStates == {"none", "created", "running", "stopped", "deleted"}
RtStates   == {"absent", "created", "running", "stopped"}
Statuses   == ExitCodes \cup {0, InternalError}
PCs == {"idle", "create", "start", "launch", "launched", "delete", "delkill",
        "delrun", "remove", "kill", "killing", "state", "wait", "waitread",
        "checkpoint"}

\* Where a call is while it holds the p.mu of the container it works on.
LockedPCs == {"launch", "launched", "delkill", "delrun", "killing"}

EventType == [type : {"oom", "exit"}, id : Containers, status : Statuses]

Init ==
    /\ reg = {} /\ smu = None /\ oomIds = {}
    /\ events = << >> /\ published = << >>
    /\ initState = [c \in Containers |-> "none"]
    /\ mu = [c \in Containers |-> None]
    /\ exited = [c \in Containers |-> FALSE]
    /\ status = [c \in Containers |-> 0]
    /\ launched = [c \in Containers |-> "none"]
    /\ waiter = [c \in Containers |-> "none"]
    /\ wcode = [c \in Containers |-> 0]
    /\ exitCh = << >> /\ hpc = "idle" /\ hc = None /\ hstatus = 0
    /\ pc = [t \in Threads |-> "idle"]
    /\ on = [t \in Threads |-> None]
    /\ mode = [t \in Threads |-> "none"]
    /\ tries = [t \in Threads |-> 0]
    /\ waitReply = [c \in Containers |-> {}]
    /\ rt = [c \in Containers |-> "absent"]
    /\ oomed = FALSE /\ victims = {}
    /\ outlived = [c \in Containers |-> {}]

-----------------------------------------------------------------------------
(* Helpers *)

Dead(c) == rt[c] \in {"stopped", "absent"}

\* The root container's process is the sandbox: every container dies with it.
Killed(c) == IF c = Root THEN Containers ELSE {c}

\* runsc can work on container c: a sub-container needs a live sandbox, in
\* one of the given states.
SandboxIn(c, S) == c = Root \/ rt[Root] \in S

\* runsc after the processes of container c were killed.
Stop(c) == [d \in Containers |-> IF d \in Killed(c) /\ rt[d] # "absent"
                                 THEN "stopped" ELSE rt[d]]

\* runsc create makes the container, in the sandbox for a sub-container.
runscCreate(c) ==
    /\ rt[c] = "absent" /\ SandboxIn(c, {"created", "running"})
    /\ rt' = [rt EXCEPT ![c] = "created"]

\* runsc start or runsc restore --detach gets a created container running.
runscStart(c) ==
    /\ rt[c] = "created" /\ SandboxIn(c, {"running"})
    /\ rt' = [rt EXCEPT ![c] = "running"]

\* runsc delete without --force refuses a running container; one that does
\* not exist is no error.
runscDelete(c) ==
    /\ rt[c] # "running"
    /\ rt' = [d \in Containers |-> IF d = c THEN "absent" ELSE Stop(c)[d]]

\* Init.killAllLocked: runsc kill --all SIGKILL.  An error is logged and taken
\* to mean that the container has already stopped, which it need not have.
killAllLocked(c) == rt' \in {Stop(c), rt}

\* The same kill on the way of an exit, by the goroutine that waits for the
\* container or by the exit handler, and whether the container outlives it.
killOnExit(c, by) ==
    /\ killAllLocked(c)
    /\ outlived' = [outlived EXCEPT ![c] =
                      IF rt'[c] \in {"stopped", "absent"} THEN @ ELSE @ \cup {by}]

\* Init.setExited: only the first call records anything.
setExited(c, s) ==
    /\ exited' = [exited EXCEPT ![c] = TRUE]
    /\ status' = [status EXCEPT ![c] = IF exited[c] THEN @ ELSE s]

\* The call of t returns to its client.
Return(t) ==
    /\ pc' = [pc EXCEPT ![t] = "idle"]
    /\ on' = [on EXCEPT ![t] = None]
    /\ mode' = [mode EXCEPT ![t] = "none"]
    /\ tries' = [tries EXCEPT ![t] = 0]

Goto(t, l) == pc' = [pc EXCEPT ![t] = l] /\ UNCHANGED <<on, mode, tries>>

Lock(t)   == mu[on[t]] = None /\ mu' = [mu EXCEPT ![on[t]] = t]
Unlock(t) == mu' = [mu EXCEPT ![on[t]] = None]

-----------------------------------------------------------------------------
(* Create: s.mu is held until it returns, across runsc create. *)

CreateLock(t, c) ==
    /\ pc[t] = "idle" /\ smu = None /\ initState[c] = "none"
    /\ smu' = t
    /\ pc' = [pc EXCEPT ![t] = "create"]
    /\ on' = [on EXCEPT ![t] = c]
    /\ UNCHANGED <<reg, oomIds, evVars, initVars, mu, waitVars, exitVars,
                   mode, tries, waitReply, rt, endVars>>

\* Init.Create fails: before or in runsc create (console socket, pipes), or
\* after it (stdin fifo, console, copies, pid file), when the container is
\* left in runsc for the shim's Cleanup.
InitCreateErr(c) == rt' = rt \/ runscCreate(c)

\* NewContainer fails, in Init.Create or earlier (options, mounts, spec).
\* Nothing is registered.
CreateFail(t) ==
    /\ pc[t] = "create"
    /\ smu' = None
    /\ InitCreateErr(on[t])
    /\ Return(t)
    /\ UNCHANGED <<reg, oomIds, evVars, initVars, mu, waitVars, exitVars,
                   waitReply, endVars>>

\* NewContainer succeeds and the container is registered.  Its cgroup joins
\* the OOM poller unless there is no pid or loading or adding it fails; the
\* call then fails but the container stays registered.
CreateOk(t) ==
    LET c == on[t] IN
    /\ pc[t] = "create"
    /\ runscCreate(c)
    /\ initState' = [initState EXCEPT ![c] = "created"]
    /\ reg' = reg \cup {c}
    /\ oomIds' \in {oomIds, oomIds \cup {c}}
    /\ smu' = None
    /\ Return(t)
    /\ UNCHANGED <<evVars, exited, status, launched, mu, waitVars, exitVars,
                   waitReply, endVars>>

-----------------------------------------------------------------------------
(* The other calls begin with getContainer, under s.mu. *)

Call(t, c, l, m) ==
    /\ l \in Calls \cap PCs
    /\ pc[t] = "idle" /\ smu = None /\ c \in reg
    /\ pc' = [pc EXCEPT ![t] = l]
    /\ on' = [on EXCEPT ![t] = c]
    /\ mode' = [mode EXCEPT ![t] = m]
    /\ UNCHANGED <<svcVars, evVars, initVars, mu, waitVars, exitVars, tries,
                   waitReply, rt, endVars>>

\* Start reads the spec: the annotation selects restore, and a spec that
\* cannot be read is logged and the container is started cold.
CallStart(t, c) ==
    \/ Call(t, c, "start", "cold")
    \/ c \in Annotated /\ Call(t, c, "start", "restore")

\* The Restore call names the image itself and is a Start from then on.
CallRestore(t, c)    == "restore" \in Calls /\ Call(t, c, "start", "restore")
CallDelete(t, c)     == Call(t, c, "delete", "none")
CallKill(t, c)       == Call(t, c, "kill", "none")
CallState(t, c)      == Call(t, c, "state", "none")
CallWait(t, c)       == Call(t, c, "wait", "none")

\* Fault: Checkpoint takes p.mu, as every other method of Init does.
MutCallCheckpoint(t, c) ==
    /\ pc[t] = "idle" /\ smu = None /\ c \in reg /\ mu[c] = None
    /\ pc' = [pc EXCEPT ![t] = "checkpoint"]
    /\ on' = [on EXCEPT ![t] = c]
    /\ mu' = [mu EXCEPT ![c] = t]
    /\ UNCHANGED <<svcVars, evVars, initVars, waitVars, exitVars, mode,
                   tries, waitReply, rt, endVars>>
CallCheckpoint(t, c) == Call(t, c, "checkpoint", "none")

-----------------------------------------------------------------------------
(* Start and Restore *)

\* Fault: p.mu is released once the state has been looked at.
MutStartLock(t) ==
    /\ pc[t] = "start" /\ mu[on[t]] = None
    /\ IF initState[on[t]] = "created" THEN Goto(t, "launch") ELSE Return(t)
    /\ UNCHANGED <<svcVars, evVars, initVars, mu, waitVars, exitVars,
                   waitReply, rt, endVars>>
\* Init.Start and Init.Restore take p.mu; only a created process may start.
StartLock(t) ==
    /\ pc[t] = "start" /\ mu[on[t]] = None
    /\ IF initState[on[t]] = "created"
       THEN Lock(t) /\ Goto(t, "launch")
       ELSE mu' = mu /\ Return(t)
    /\ UNCHANGED <<svcVars, evVars, initVars, waitVars, exitVars, waitReply,
                   rt, endVars>>

\* runsc start or runsc restore --detach succeeded and start has spawned the
\* goroutine that waits for the container; p.mu is still held.
Launch(t) ==
    LET c == on[t] IN
    /\ pc[t] = "launch"
    /\ runscStart(c)
    /\ launched' = [launched EXCEPT ![c] = mode[t]]
    /\ waiter' = [waiter EXCEPT ![c] = "waiting"]
    /\ Goto(t, "launched")
    /\ UNCHANGED <<svcVars, evVars, initState, exited, status, mu, wcode,
                   exitVars, waitReply, endVars>>

LaunchDone(t) ==
    LET c == on[t] IN
    /\ pc[t] = "launched"
    /\ initState' = [initState EXCEPT ![c] = "running"]
    /\ Unlock(t) /\ Return(t)
    /\ UNCHANGED <<svcVars, evVars, exited, status, launched, waitVars,
                   exitVars, waitReply, rt, endVars>>

\* Fault: the waiting goroutine is spawned before the error is looked at.
MutLaunchFail(t) ==
    LET c == on[t] IN
    /\ pc[t] = "launch"
    /\ IF c = Root
       THEN UNCHANGED <<initState, exited, status>>
       ELSE /\ setExited(c, InternalError)
            /\ initState' = [initState EXCEPT ![c] = "stopped"]
    /\ waiter' = [waiter EXCEPT ![c] = "waiting"]
    /\ Unlock(t) /\ Return(t)
    /\ UNCHANGED <<svcVars, evVars, launched, wcode, exitVars, waitReply,
                   rt, endVars>>
\* runsc start or restore returned an error, with or without having started
\* the container.  Nothing waits for it.  A sub-container counts as stopped
\* from then on, the sandbox container stays created.
LaunchFail(t) ==
    LET c == on[t] IN
    /\ pc[t] = "launch"
    /\ \/ UNCHANGED <<rt, launched>>
       \/ runscStart(c) /\ launched' = [launched EXCEPT ![c] = mode[t]]
    /\ IF c = Root
       THEN UNCHANGED <<initState, exited, status>>
       ELSE /\ setExited(c, InternalError)
            /\ initState' = [initState EXCEPT ![c] = "stopped"]
    /\ Unlock(t) /\ Return(t)
    /\ UNCHANGED <<svcVars, evVars, waitVars, exitVars, waitReply, endVars>>

-----------------------------------------------------------------------------
(* Delete *)

DeleteLock(t) ==
    /\ pc[t] = "delete" /\ mu[on[t]] = None
    /\ IF initState[on[t]] \in {"created", "stopped"}
       THEN Lock(t) /\ Goto(t, "delkill")
       ELSE mu' = mu /\ Return(t)
    /\ UNCHANGED <<svcVars, evVars, initVars, waitVars, exitVars, waitReply,
                   rt, endVars>>

DeleteKill(t) ==
    /\ pc[t] = "delkill"
    /\ killAllLocked(on[t])
    /\ Goto(t, "delrun")
    /\ UNCHANGED <<svcVars, evVars, initVars, mu, waitVars, exitVars,
                   waitReply, endVars>>

\* The I/O copies have drained; runsc delete succeeded or the container did
\* not exist any more, and the root file system is unmounted.
DeleteRun(t) ==
    LET c == on[t] IN
    /\ pc[t] = "delrun"
    /\ runscDelete(c)
    /\ initState' = [initState EXCEPT ![c] = "deleted"]
    /\ Unlock(t) /\ Goto(t, "remove")
    /\ UNCHANGED <<svcVars, evVars, exited, status, launched, waitVars,
                   exitVars, waitReply, endVars>>

\* Fault: the error of runsc delete is dropped and the task deleted.
MutDeleteErr(t) ==
    LET c == on[t] IN
    /\ pc[t] = "delrun"
    /\ rt' = rt \/ runscDelete(c)
    /\ initState' = [initState EXCEPT ![c] = "deleted"]
    /\ Unlock(t) /\ Goto(t, "remove")
    /\ UNCHANGED <<svcVars, evVars, exited, status, launched, waitVars,
                   exitVars, waitReply, endVars>>
\* runsc delete failed, as it does while the container runs, or it succeeded
\* and the unmount failed.  The task is neither deleted nor removed and the
\* call can be repeated.
DeleteErr(t) ==
    LET c == on[t] IN
    /\ pc[t] = "delrun"
    /\ rt' = rt \/ runscDelete(c)
    /\ Unlock(t) /\ Return(t)
    /\ UNCHANGED <<svcVars, evVars, initVars, waitVars, exitVars, waitReply,
                   endVars>>

\* Back in the service: the id leaves s.containers, under s.mu.
Remove(t) ==
    /\ pc[t] = "remove" /\ smu = None
    /\ reg' = reg \ {on[t]}
    /\ Return(t)
    /\ UNCHANGED <<smu, oomIds, evVars, initVars, mu, waitVars, exitVars,
                   waitReply, rt, endVars>>

-----------------------------------------------------------------------------
(* Kill: Init.kill retries with a growing pause, holding p.mu. *)

KillLock(t) ==
    /\ pc[t] = "kill" /\ mu[on[t]] = None
    /\ IF initState[on[t]] \in {"created", "running"}
       THEN Lock(t) /\ Goto(t, "killing")
       ELSE mu' = mu /\ Return(t)
    /\ UNCHANGED <<svcVars, evVars, initVars, waitVars, exitVars, waitReply,
                   rt, endVars>>

\* State says stopped, which is recorded: no such process.
KillStopped(t) ==
    /\ pc[t] = "killing" /\ Dead(on[t])
    /\ initState' = [initState EXCEPT ![on[t]] = "stopped"]
    /\ Unlock(t) /\ Return(t)
    /\ UNCHANGED <<svcVars, evVars, exited, status, launched, waitVars,
                   exitVars, waitReply, rt, endVars>>

\* runsc state failed: the call fails and nothing is recorded.
KillStateErr(t) ==
    /\ pc[t] = "killing"
    /\ Unlock(t) /\ Return(t)
    /\ UNCHANGED <<svcVars, evVars, initVars, waitVars, exitVars, waitReply,
                   rt, endVars>>

\* runsc kill succeeded: the signal ends the process or it does not.
KillOk(t) ==
    /\ pc[t] = "killing" /\ ~Dead(on[t])
    /\ rt' \in {rt, Stop(on[t])}
    /\ Unlock(t) /\ Return(t)
    /\ UNCHANGED <<svcVars, evVars, initVars, waitVars, exitVars, waitReply,
                   endVars>>

\* Fault: the attempt is made before the clock is looked at.
MutKillRetry(t) ==
    /\ pc[t] = "killing" /\ ~Dead(on[t])
    /\ IF tries[t] <= KillAttempts
       THEN /\ tries' = [tries EXCEPT ![t] = @ + 1]
            /\ UNCHANGED <<mu, pc, on, mode>>
       ELSE Unlock(t) /\ Return(t)
    /\ UNCHANGED <<svcVars, evVars, initVars, waitVars, exitVars, waitReply,
                   rt, endVars>>
\* runsc kill failed: another attempt unless the second is over.
KillRetry(t) ==
    /\ pc[t] = "killing" /\ ~Dead(on[t])
    /\ IF tries[t] + 1 < KillAttempts
       THEN /\ tries' = [tries EXCEPT ![t] = @ + 1]
            /\ UNCHANGED <<mu, pc, on, mode>>
       ELSE Unlock(t) /\ Return(t)
    /\ UNCHANGED <<svcVars, evVars, initVars, waitVars, exitVars, waitReply,
                   rt, endVars>>

-----------------------------------------------------------------------------
(* State, Wait and Checkpoint *)

\* Init.Status: runsc state under p.mu; a dead container becomes stopped,
\* possibly before its exit has been handled.  If the command fails nothing
\* is recorded.
StateRead(t) ==
    LET c == on[t] IN
    /\ pc[t] = "state" /\ mu[c] = None
    /\ \/ initState' = initState
       \/ /\ initState[c] \in {"created", "running"} /\ Dead(c)
          /\ initState' = [initState EXCEPT ![c] = "stopped"]
    /\ Return(t)
    /\ UNCHANGED <<svcVars, evVars, exited, status, launched, mu, waitVars,
                   exitVars, waitReply, rt, endVars>>

\* Fault: Wait returns as soon as the process counts as stopped.
MutWaitUnblock(t) ==
    /\ pc[t] = "wait" /\ initState[on[t]] \in {"stopped", "deleted"}
    /\ Goto(t, "waitread")
    /\ UNCHANGED <<svcVars, evVars, initVars, mu, waitVars, exitVars,
                   waitReply, rt, endVars>>
\* Init.Wait: waitBlock is closed.
WaitUnblock(t) ==
    /\ pc[t] = "wait" /\ exited[on[t]]
    /\ Goto(t, "waitread")
    /\ UNCHANGED <<svcVars, evVars, initVars, mu, waitVars, exitVars,
                   waitReply, rt, endVars>>

\* Wait answers with ExitStatus, read under p.mu.
WaitRead(t) ==
    /\ pc[t] = "waitread" /\ mu[on[t]] = None
    /\ waitReply' = [waitReply EXCEPT ![on[t]] = @ \cup {status[on[t]]}]
    /\ Return(t)
    /\ UNCHANGED <<svcVars, evVars, initVars, mu, waitVars, exitVars, rt,
                   endVars>>

\* runsc checkpoint --leave-running has ended.  p.mu was never taken.
CheckpointDone(t) ==
    /\ pc[t] = "checkpoint"
    /\ Return(t)
    /\ UNCHANGED <<svcVars, evVars, initVars, mu, waitVars, exitVars,
                   waitReply, rt, endVars>>

-----------------------------------------------------------------------------
(* The goroutine spawned by Init.start *)

Reap(c) ==
    /\ waiter[c] = "waiting" /\ rt[c] = "stopped"
    /\ waiter' = [waiter EXCEPT ![c] = "reaped"]
    /\ wcode' \in {[wcode EXCEPT ![c] = s] : s \in ExitCodes}
    /\ UNCHANGED <<svcVars, evVars, initVars, mu, exitVars, rpcVars, rt,
                   endVars>>

\* runsc wait failed, perhaps while the container runs: everything is killed,
\* without p.mu, and the exit is reported with internalErrorCode.
ReapErr(c) ==
    /\ waiter[c] = "waiting"
    /\ killOnExit(c, "wait")
    /\ waiter' = [waiter EXCEPT ![c] = "reaped"]
    /\ wcode' = [wcode EXCEPT ![c] = InternalError]
    /\ UNCHANGED <<svcVars, evVars, initVars, mu, exitVars, rpcVars, oomed,
                   victims>>

SendExit(c) ==
    /\ waiter[c] = "reaped"
    /\ waiter' = [waiter EXCEPT ![c] = "sent"]
    /\ exitCh' = Append(exitCh, <<c, wcode[c]>>)
    /\ wcode' = [wcode EXCEPT ![c] = 0]
    /\ UNCHANGED <<svcVars, evVars, initVars, mu, hpc, hc, hstatus, rpcVars,
                   rt, endVars>>

-----------------------------------------------------------------------------
(* processExits and checkProcesses: one goroutine for the whole shim *)

ReceiveExit ==
    /\ hpc = "idle" /\ exitCh # << >>
    /\ hpc' = "find" /\ hc' = Head(exitCh)[1] /\ hstatus' = Head(exitCh)[2]
    /\ exitCh' = Tail(exitCh)
    /\ UNCHANGED <<svcVars, evVars, initVars, mu, waitVars, rpcVars, rt,
                   endVars>>

HandlerIdle == hpc' = "idle" /\ hc' = None /\ hstatus' = 0

\* The lookup runs under s.mu; the exit of an unknown container is dropped.
FindProcess ==
    /\ hpc = "find" /\ smu = None
    /\ IF hc \in reg THEN hpc' = "killall" /\ UNCHANGED <<hc, hstatus>>
                     ELSE HandlerIdle
    /\ UNCHANGED <<svcVars, evVars, initVars, mu, waitVars, exitCh, rpcVars,
                   rt, endVars>>

\* Fault: a container whose exit has been reported is not killed again.
MutHandlerKillAll ==
    /\ hpc = "killall" /\ mu[hc] = None
    /\ hpc' = "setexited"
    /\ UNCHANGED <<svcVars, evVars, initVars, mu, waitVars, exitCh, hc,
                   hstatus, rpcVars, rt, endVars>>
HandlerKillAll ==
    /\ hpc = "killall" /\ mu[hc] = None
    /\ killOnExit(hc, "handler")
    /\ hpc' = "setexited"
    /\ UNCHANGED <<svcVars, evVars, initVars, mu, waitVars, exitCh, hc,
                   hstatus, rpcVars, oomed, victims>>

\* Fault: a process that State has already found stopped ignores its exit.
MutRecordExit ==
    IF initState[hc] \in {"stopped", "deleted"}
    THEN UNCHANGED <<initState, exited, status>>
    ELSE /\ setExited(hc, hstatus)
         /\ initState' = [initState EXCEPT ![hc] = "stopped"]
\* What every live init state does with an exit; deleted ignores it.
RecordExit ==
    IF initState[hc] = "deleted"
    THEN UNCHANGED <<initState, exited, status>>
    ELSE /\ setExited(hc, hstatus)
         /\ initState' = [initState EXCEPT ![hc] = "stopped"]

\* Init.SetExited on the process found.
SetExited ==
    /\ hpc = "setexited" /\ mu[hc] = None
    /\ RecordExit
    /\ hpc' = "oom"
    /\ UNCHANGED <<svcVars, evVars, launched, mu, waitVars, exitCh, hc,
                   hstatus, rpcVars, rt, endVars>>

Event(type, s) == [type |-> type, id |-> hc, status |-> s]

\* send blocks while the channel is full.
send(e) == Len(events) < EventCap /\ events' = Append(events, e)

\* Fault: OOM kills are left to the asynchronous notification.
MutHandleOOM ==
    /\ hpc = "oom"
    /\ hpc' = "exit"
    /\ UNCHANGED <<svcVars, evVars, initVars, mu, waitVars, exitCh, hc,
                   hstatus, rpcVars, rt, endVars>>
\* isOOM reads the cgroup once per container; TaskOOM goes out first.
HandleOOM ==
    /\ hpc = "oom"
    /\ IF hc \in oomIds /\ oomed THEN send(Event("oom", 0))
                                 ELSE events' = events
    /\ oomIds' = oomIds \ {hc}
    /\ hpc' = "exit"
    /\ UNCHANGED <<reg, smu, published, initVars, mu, waitVars, exitCh, hc,
                   hstatus, rpcVars, rt, endVars>>

SendTaskExit ==
    /\ hpc = "exit"
    /\ send(Event("exit", hstatus))
    /\ HandlerIdle
    /\ UNCHANGED <<svcVars, published, initVars, mu, waitVars, exitCh,
                   rpcVars, rt, endVars>>

Handler == \/ ReceiveExit \/ FindProcess \/ HandlerKillAll \/ SetExited
           \/ HandleOOM \/ SendTaskExit

\* forward publishes the channel in order.
Forward ==
    /\ events # << >>
    /\ published' = Append(published, Head(events))
    /\ events' = Tail(events)
    /\ UNCHANGED <<svcVars, initVars, mu, waitVars, exitVars, rpcVars, rt,
                   endVars>>

-----------------------------------------------------------------------------
(* The runtime and the kernel *)

\* The process of container c ends; with the root's, the whole sandbox.
ProcessExit(c) ==
    /\ rt[c] = "running"
    /\ rt' = Stop(c)
    /\ UNCHANGED <<svcVars, evVars, initVars, mu, waitVars, exitVars,
                   rpcVars, endVars>>

\* The kernel OOM-kills the sandbox, whose cgroup all containers share.
OOMKill ==
    /\ ~oomed /\ rt[Root] = "running"
    /\ oomed' = TRUE
    /\ victims' = {c \in oomIds : rt[c] = "running"}
    /\ rt' = Stop(Root)
    /\ UNCHANGED <<svcVars, evVars, initVars, mu, waitVars, exitVars, rpcVars,
                   outlived>>

-----------------------------------------------------------------------------

\* Steps of a call that returns once the runsc command it runs has returned.
Serve(t) ==
    \/ CreateFail(t) \/ CreateOk(t)
    \/ Launch(t) \/ LaunchDone(t) \/ LaunchFail(t)
    \/ DeleteKill(t) \/ DeleteRun(t) \/ DeleteErr(t)
    \/ KillStopped(t) \/ KillStateErr(t) \/ KillOk(t) \/ KillRetry(t)

\* Steps of a call that wait for a mutex or for the process to exit.
Acquire(t) ==
    \/ StartLock(t) \/ DeleteLock(t) \/ KillLock(t) \/ StateRead(t)
    \/ Remove(t) \/ WaitUnblock(t) \/ WaitRead(t)

Begin(t, c) ==
    \/ CreateLock(t, c) \/ CallStart(t, c) \/ CallRestore(t, c)
    \/ CallDelete(t, c) \/ CallKill(t, c) \/ CallState(t, c)
    \/ CallWait(t, c) \/ CallCheckpoint(t, c)

Waiter(c) == Reap(c) \/ ReapErr(c) \/ SendExit(c)

Next ==
    \/ \E t \in Threads : \/ \E c \in Containers : Begin(t, c)
                          \/ Serve(t) \/ Acquire(t) \/ CheckpointDone(t)
    \/ \E c \in Containers : Waiter(c) \/ ProcessExit(c)
    \/ Handler \/ Forward \/ OOMKill

Spec == Init /\ [][Next]_vars

(***************************************************************************)
(* Fairness.  runsc commands other than checkpoint return (WF on Serve and *)
(* Waiter), a Delete goes on once the I/O copies of its container have     *)
(* drained, which they do when it is dead (Drained), Go mutexes do not     *)
(* starve a waiter that keeps asking (SF on Acquire and Handler) and the   *)
(* publisher accepts events.  Nothing makes clients call, processes exit   *)
(* or a checkpoint end.                                                    *)
(***************************************************************************)
Drained(t) == pc[t] = "delrun" => Dead(on[t])

Fairness ==
    /\ \A t \in Threads : /\ WF_vars(Serve(t) /\ Drained(t))
                          /\ SF_vars(Acquire(t))
    /\ \A c \in Containers : WF_vars(Waiter(c))
    /\ SF_vars(Handler)
    /\ WF_vars(Forward)

FairSpec == Spec /\ Fairness

-----------------------------------------------------------------------------
(* Properties *)

\* Every variable has its type; a kill never makes more than KillAttempts
\* attempts and the events channel never holds more than its capacity.
TypeOK ==
    /\ reg \subseteq Containers
    /\ smu \in Threads \cup {None}
    /\ oomIds \subseteq Containers
    /\ events \in Seq(EventType) /\ Len(events) <= EventCap
    /\ published \in Seq(EventType)
    /\ initState \in [Containers -> InitStates]
    /\ mu \in [Containers -> Threads \cup {None}]
    /\ exited \in [Containers -> BOOLEAN]
    /\ status \in [Containers -> Statuses]
    /\ launched \in [Containers -> {"none", "cold", "restore"}]
    /\ waiter \in [Containers -> {"none", "waiting", "reaped", "sent"}]
    /\ wcode \in [Containers -> Statuses]
    /\ exitCh \in Seq(Containers \X Statuses)
    /\ hpc \in {"idle", "find", "killall", "setexited", "oom", "exit"}
    /\ hc \in Containers \cup {None} /\ (hc = None <=> hpc = "idle")
    /\ hstatus \in Statuses
    /\ pc \in [Threads -> PCs]
    /\ on \in [Threads -> Containers \cup {None}]
    /\ \A t \in Threads : on[t] = None <=> pc[t] = "idle"
    /\ mode \in [Threads -> {"none", "cold", "restore"}]
    /\ tries \in [Threads -> 0 .. KillAttempts - 1]
    /\ waitReply \in [Containers -> SUBSET Statuses]
    /\ rt \in [Containers -> RtStates]
    /\ oomed \in BOOLEAN
    /\ victims \subseteq Containers
    /\ outlived \in [Containers -> SUBSET {"wait", "handler"}]

\* p.mu orders Start and SetExited (proc_init.go, comment on Init.mu): once
\* an exit has been recorded the process is never again created or running,
\* although the goroutine that delivers the exit is spawned before Start has
\* moved the process to running.
StartExitedOrder ==
    \A c \in Containers : exited[c] => initState[c] \in {"stopped", "deleted"}

Stream == published \o events

ExitIn(s, c) == {i \in DOMAIN s : s[i].type = "exit" /\ s[i].id = c}

\* When a TaskExit event is told of a container that still runs, everything
\* the exit path does to prevent it went wrong: runsc wait failed, the kill of
\* the waiting goroutine failed, the kill of checkProcesses failed too, and
\* the event says internalErrorCode.  In every other case, also when runsc
\* wait alone fails while the container runs, the container is dead.
ExitMeansDead ==
    \A i \in DOMAIN Stream : Stream[i].type = "exit" =>
        \/ Dead(Stream[i].id)
        \/ /\ outlived[Stream[i].id] = {"wait", "handler"}
           /\ Stream[i].status = InternalError

\* Everyone is told the same end: at most one TaskExit per container, and its
\* status, the recorded status and every answer of Wait agree.
OneExitStory ==
    \A c \in Containers :
        /\ \A i, j \in ExitIn(Stream, c) : i = j
        /\ \A i \in ExitIn(Stream, c) :
              exited[c] => Stream[i].status = status[c]
        /\ waitReply[c] \subseteq {status[c]}
        /\ waitReply[c] # {} => exited[c]

\* A container that was OOM-killed while the poller watched it gets TaskOOM
\* before TaskExit, so that kubelet reports OOMKilled (checkProcesses).
OOMBeforeExit ==
    \A c \in victims : \A i \in ExitIn(Stream, c) :
        \E j \in 1 .. i - 1 : Stream[j].type = "oom" /\ Stream[j].id = c

\* The shim forgets a container only when runsc has: what still exists in
\* runsc is registered, unless Create failed on it and left it to Cleanup.
NoOrphan ==
    \A c \in Containers :
        rt[c] # "absent" => c \in reg \/ initState[c] = "none"

\* An exit reaches containerd: once the process of a started container has
\* ended TaskExit is published, unless the task has been deleted by then.
\* Holds with a checkpoint in flight that never ends.
ExitReported ==
    \A c \in Containers :
        (waiter[c] = "waiting" /\ rt[c] = "stopped")
            ~> (ExitIn(published, c) # {} \/ initState[c] = "deleted")

\* Wait returns once its process has ended, unless the task has been deleted.
WaitReturns ==
    \A t \in Threads, c \in Containers :
        (pc[t] = "wait" /\ on[t] = c /\ waiter[c] = "waiting"
            /\ rt[c] = "stopped")
            ~> (pc[t] # "wait" \/ initState[c] = "deleted")

(***************************************************************************)
(* Shim implements Task.                                                   *)
(***************************************************************************)

AbstractTask == INSTANCE Task WITH
    Codes    <- Statuses,
    NoCode   <- None,
    LostCode <- InternalError,
    phase    <- initState,
    live     <- {c \in Containers : rt[c] = "running"},
    code     <- [c \in Containers |-> IF exited[c] THEN status[c] ELSE None],
    stream   <- Stream,
    answers  <- waitReply

\* The shim keeps what Task promises, whatever RPCs run side by side with the
\* exit handling: one launch, one recorded status, one TaskExit that agrees
\* with it and with every Wait, a status other than internalErrorCode only for
\* a process that has ended, and no task deleted while its process runs.
ImplementsTask == AbstractTask!TaskSpec

\* Start's comment on an unreadable spec, and VERIFICATION.md: a container
\* annotated for restore is not started cold.
AnnotatedNeverCold == \A c \in Annotated : launched[c] # "cold"
=============================================================================
