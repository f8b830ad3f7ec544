------------------------------ MODULE ExecProcs -----------------------------
(***************************************************************************)
(* Processes that Exec adds to a container: runscService.Exec, Start,      *)
(* Delete with an exec id, Container's map of processes, and the part of   *)
(* checkProcesses that finds the process whose exit was reported.          *)
(*                                                                         *)
(* An execProcess object is a number; 0 is nil.  A client of containerd    *)
(* waits for one answer before it makes its next call.  Clients run        *)
(* concurrently and Uses says which processes, pairs of a container and an *)
(* exec id, each of them works with.  External: execProcess itself         *)
(* (exec.go), whose exits arrive on ExitCh with the exec id alone.         *)
(***************************************************************************)
EXTENDS Integers, Sequences

CONSTANTS
    Containers, ExecIds, Clients,
    Uses,       \* Uses[k] is the set of <<container, exec id>> client k uses
    MaxProcs    \* bound on the objects created

ASSUME UsesAssumption == Uses \in [Clients -> SUBSET (Containers \X ExecIds)]
ASSUME ProcsAssumption == MaxProcs \in Nat

VARIABLES
    processes,  \* Container.processes of every container
    owner,      \* owner[p] is the <<container, exec id>> p was created for
    pstate,     \* state of the execProcess
    pc,         \* where each client's call is
    arg,        \* the process its call is about
    exitCh,     \* ExitCh: [id, proc], of which the shim sees only id
    handling,   \* what checkProcesses found: {} or one [id, proc, c, found]
    stream      \* events sent, in order

vars == <<processes, owner, pstate, pc, arg, exitCh, handling, stream>>

Procs == 1 .. MaxProcs
Keys  == Containers \X ExecIds
NoArg == [key |-> << >>, proc |-> 0]

Init ==
    /\ processes = [k \in Keys |-> 0]
    /\ owner = << >>
    /\ pstate = << >>
    /\ pc = [k \in Clients |-> "idle"]
    /\ arg = [k \in Clients |-> NoArg]
    /\ exitCh = << >>
    /\ handling = {}
    /\ stream = << >>

\* Fault: the call loses its request on the way.
MutCall(k, key, p, l) ==
    /\ pc' = [pc EXCEPT ![k] = l]
    /\ arg' = [arg EXCEPT ![k] = NoArg]
Call(k, key, p, l) ==
    /\ pc' = [pc EXCEPT ![k] = l]
    /\ arg' = [arg EXCEPT ![k] = [key |-> key, proc |-> p]]

Return(k) ==
    /\ pc' = [pc EXCEPT ![k] = "idle"]
    /\ arg' = [arg EXCEPT ![k] = NoArg]

-----------------------------------------------------------------------------
(* Exec: look the id up, create the process, add it, announce it.  No lock *)
(* is held from one of these to the next.                                  *)

\* Fault: an id in use is not refused.
MutExecCheck(k, key) ==
    /\ pc[k] = "idle"
    /\ Call(k, key, 0, "add")
    /\ UNCHANGED <<processes, owner, pstate, exitCh, handling, stream>>
\* The id must not be in use in the container.
ExecCheck(k, key) ==
    /\ pc[k] = "idle" /\ processes[key] = 0
    /\ Call(k, key, 0, "add")
    /\ UNCHANGED <<processes, owner, pstate, exitCh, handling, stream>>

\* Init.exec makes the object; ProcessAdd stores it under its id.
ProcessAdd(k) ==
    LET p == Len(pstate) + 1 IN
    /\ pc[k] = "add" /\ p \in Procs
    /\ pstate' = Append(pstate, "created")
    /\ owner' = Append(owner, arg[k].key)
    /\ processes' = [processes EXCEPT ![arg[k].key] = p]
    /\ Call(k, arg[k].key, p, "announce")
    /\ UNCHANGED <<exitCh, handling, stream>>

\* TaskExecAdded is sent before Exec returns.
ExecAdded(k) ==
    /\ pc[k] = "announce"
    /\ stream' = Append(stream, [type |-> "added", c |-> arg[k].key[1],
                                 proc |-> arg[k].proc, by |-> arg[k].proc])
    /\ Return(k)
    /\ UNCHANGED <<processes, owner, pstate, exitCh, handling>>

\* Start with an exec id: only a created process starts.
StartExec(k, key) ==
    LET p == processes[key] IN
    /\ pc[k] = "idle" /\ p # 0 /\ pstate[p] = "created"
    /\ pstate' = [pstate EXCEPT ![p] = "running"]
    /\ UNCHANGED <<processes, owner, pc, arg, exitCh, handling, stream>>

-----------------------------------------------------------------------------
(* Delete with an exec id: delete the process, then drop the id. *)

\* Fault: a running process may be deleted.
MutDeleteExec(k, key) ==
    LET p == processes[key] IN
    /\ pc[k] = "idle" /\ p # 0 /\ pstate[p] # "deleted"
    /\ pstate' = [pstate EXCEPT ![p] = "deleted"]
    /\ Call(k, key, p, "remove")
    /\ UNCHANGED <<processes, owner, exitCh, handling, stream>>
DeleteExec(k, key) ==
    LET p == processes[key] IN
    /\ pc[k] = "idle" /\ p # 0 /\ pstate[p] \in {"created", "stopped"}
    /\ pstate' = [pstate EXCEPT ![p] = "deleted"]
    /\ Call(k, key, p, "remove")
    /\ UNCHANGED <<processes, owner, exitCh, handling, stream>>

\* ProcessRemove goes by id.
ProcessRemove(k) ==
    /\ pc[k] = "remove"
    /\ processes' = [processes EXCEPT ![arg[k].key] = 0]
    /\ Return(k)
    /\ UNCHANGED <<owner, pstate, exitCh, handling, stream>>

-----------------------------------------------------------------------------
(* Exits *)

\* A running process ends in the sandbox; its exit carries the exec id.
ExecExit(p) ==
    /\ pstate[p] = "running"
    /\ pstate' = [pstate EXCEPT ![p] = "ended"]
    /\ exitCh' = Append(exitCh, [id |-> owner[p][2], proc |-> p])
    /\ UNCHANGED <<processes, owner, pc, arg, handling, stream>>

\* checkProcesses: the first process found with that id, in the order in
\* which Go happens to iterate over the maps; none found, nothing done.
FindExited ==
    LET e == Head(exitCh)
        hits == {key \in Keys : processes[key] # 0 /\ key[2] = e.id}
    IN
    /\ handling = {} /\ exitCh # << >>
    /\ exitCh' = Tail(exitCh)
    /\ \/ hits = {} /\ handling' = {}
       \/ \E key \in hits :
             handling' = {[e |-> e, c |-> key[1], found |-> processes[key]]}
    /\ UNCHANGED <<processes, owner, pstate, pc, arg, stream>>

\* SetExited on what was found, then TaskExit.
ReportExit ==
    \E h \in handling :
        /\ pstate' = [pstate EXCEPT ![h.found] =
                        IF @ = "deleted" THEN @ ELSE "stopped"]
        /\ stream' = Append(stream, [type |-> "exit", c |-> h.c,
                                     proc |-> h.found, by |-> h.e.proc])
        /\ handling' = {}
        /\ UNCHANGED <<processes, owner, pc, arg, exitCh>>

-----------------------------------------------------------------------------

Service(k) == ProcessAdd(k) \/ ExecAdded(k) \/ ProcessRemove(k)
Exits      == FindExited \/ ReportExit

Next ==
    \/ \E k \in Clients :
          \/ Service(k)
          \/ \E key \in Uses[k] :
                ExecCheck(k, key) \/ StartExec(k, key) \/ DeleteExec(k, key)
    \/ \E p \in DOMAIN pstate : ExecExit(p)
    \/ Exits

Spec == Init /\ [][Next]_vars

\* Calls that were begun and the exit handler go on.
FairSpec == Spec /\ (\A k \in Clients : WF_vars(Service(k))) /\ WF_vars(Exits)

-----------------------------------------------------------------------------
(* Properties *)

\* Every variable has its type, and calls are about keys their client uses.
TypeOK ==
    /\ processes \in [Keys -> 0 .. MaxProcs]
    /\ owner \in Seq(Keys) /\ Len(owner) = Len(pstate)
    /\ pstate \in Seq({"created", "running", "ended", "stopped", "deleted"})
    /\ Len(pstate) <= MaxProcs
    /\ pc \in [Clients -> {"idle", "add", "announce", "remove"}]
    /\ \A k \in Clients : pc[k] # "idle" => arg[k].key \in Uses[k]

\* Exec refuses an id that exists in the container, so a process that was
\* added can be found, signalled and deleted through its id until it has been
\* deleted.
Reachable ==
    \A p \in DOMAIN pstate : pstate[p] # "deleted" => processes[owner[p]] = p

\* checkProcesses finds the container whose process exited: the process that
\* is marked exited and named in TaskExit is the one that ended.
ExitReachesItsProcess ==
    \A i \in DOMAIN stream :
        stream[i].type = "exit" => /\ stream[i].proc = stream[i].by
                                   /\ stream[i].c = owner[stream[i].by][1]

\* No exit of an exec'd process is lost: it is reported although clients keep
\* adding and deleting other processes.
ExecExitReported ==
    \A p \in Procs :
        (p \in DOMAIN pstate /\ pstate[p] = "ended")
            ~> (\E i \in DOMAIN stream :
                   stream[i].type = "exit" /\ stream[i].by = p)
=============================================================================
