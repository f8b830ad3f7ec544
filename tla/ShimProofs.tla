------------------------------ MODULE ShimProofs ----------------------------
(***************************************************************************)
(* Proofs about Shim, for every set of containers and of RPC goroutines,   *)
(* every channel capacity and every number of kill attempts: its safety    *)
(* invariant; what clients are told about the end of a container; and, on  *)
(* both, that every step of the shim is a step of Task or leaves it alone. *)
(***************************************************************************)
EXTENDS Shim, TLAPS

USE RootAssumption, NoneAssumption, CallAssumption, CodeAssumption,
    BoundAssumption

-----------------------------------------------------------------------------
(* Type correctness *)

\* The part of TypeOK that is about the RPC goroutines.
RpcType ==
    /\ pc \in [Threads -> PCs]
    /\ on \in [Threads -> Containers \cup {None}]
    /\ \A t \in Threads : on[t] = None <=> pc[t] = "idle"
    /\ mode \in [Threads -> {"none", "cold", "restore"}]
    /\ tries \in [Threads -> 0 .. KillAttempts - 1]

\* A call that returns leaves the RPC variables well typed.
LEMMA ReturnType ==
    ASSUME TypeOK, NEW t \in Threads, Return(t)
    PROVE  RpcType'
BY DEF TypeOK, RpcType, Return, PCs

\* So does a call that moves on within its work.
LEMMA GotoType ==
    ASSUME TypeOK, NEW t \in Threads, NEW l \in PCs \ {"idle"},
           pc[t] # "idle", Goto(t, l)
    PROVE  RpcType'
BY DEF TypeOK, RpcType, Goto

\* Killing the processes of a container leaves runsc's states well typed.
LEMMA StopType ==
    ASSUME TypeOK, NEW c \in Containers
    PROVE  Stop(c) \in [Containers -> RtStates]
BY DEF TypeOK, Stop, RtStates

\* So does deleting the container.
LEMMA DeleteType ==
    ASSUME TypeOK, NEW c \in Containers, runscDelete(c)
    PROVE  rt' \in [Containers -> RtStates]
<1>1. Stop(c) \in [Containers -> RtStates]
  BY StopType
<1> QED
  BY <1>1 DEF runscDelete, RtStates

\* The kills of the exit path keep the types.
LEMMA OnExitType ==
    ASSUME TypeOK, NEW c \in Containers, NEW by \in {"wait", "handler"}, killOnExit(c, by)
    PROVE  /\ rt' \in [Containers -> RtStates]
           /\ outlived' \in [Containers -> SUBSET {"wait", "handler"}]
<1>1. rt' \in [Containers -> RtStates]
  BY StopType DEF killOnExit, killAllLocked, TypeOK
<1>2. outlived \in [Containers -> SUBSET {"wait", "handler"}]
  BY DEF TypeOK
<1>3. outlived' = [outlived EXCEPT ![c] = IF rt'[c] \in {"stopped", "absent"} THEN outlived[c]
                                          ELSE outlived[c] \cup {by}]
  BY DEF killOnExit
<1>4. outlived[c] \cup {by} \in SUBSET {"wait", "handler"}
  BY <1>2
<1> QED
  BY <1>1, <1>2, <1>3, <1>4

\* Recording an exit keeps the types of what it records.
LEMMA SetExitedType ==
    ASSUME TypeOK, NEW c \in Containers, NEW s \in Statuses, setExited(c, s)
    PROVE  /\ exited' \in [Containers -> BOOLEAN]
           /\ status' \in [Containers -> Statuses]
BY DEF TypeOK, setExited

\* A send does not overfill the channel.
LEMMA SendType ==
    ASSUME TypeOK, NEW e \in EventType, send(e)
    PROVE  events' \in Seq(EventType) /\ Len(events') <= EventCap
BY DEF TypeOK, send

\* A call that begins keeps the types.
LEMMA BeginType ==
    ASSUME TypeOK, NEW t \in Threads, NEW c \in Containers, Begin(t, c)
    PROVE  TypeOK'
<1>1. CASE CreateLock(t, c)
  BY <1>1 DEF CreateLock, TypeOK, svcVars, evVars, initVars, waitVars,
     exitVars, endVars, PCs
<1>2. ASSUME NEW l, NEW m \in {"none", "cold", "restore"}, Call(t, c, l, m)
      PROVE  TypeOK'
  BY <1>2 DEF Call, TypeOK, svcVars, evVars, initVars, waitVars,
     exitVars, endVars, PCs
<1> QED
  BY <1>1, <1>2 DEF Begin, CallStart, CallRestore, CallDelete, CallKill,
     CallState, CallWait, CallCheckpoint

\* A call that runs a command keeps the types.
LEMMA ServeType ==
    ASSUME TypeOK, NEW t \in Threads, Serve(t)
    PROVE  TypeOK'
<1> on[t] \in Containers \/ pc[t] = "idle"
  BY DEF TypeOK
<1>1. CASE CreateFail(t)
  <2>1. RpcType'
    BY <1>1, ReturnType DEF CreateFail
  <2>2. CASE rt' = rt
    BY <1>1, <2>1, <2>2 DEF CreateFail, TypeOK, RpcType, svcVars, evVars,
       initVars, waitVars, exitVars, rpcVars, endVars
  <2>3. CASE rt' = [rt EXCEPT ![on[t]] = "created"]
    <3>1. rt' \in [Containers -> RtStates]
      BY <2>3 DEF TypeOK, RtStates
    <3> QED
      BY <1>1, <2>1, <3>1 DEF CreateFail, TypeOK, RpcType, svcVars, evVars,
         initVars, waitVars, exitVars, rpcVars, endVars
  <2> QED
    BY <1>1, <2>2, <2>3 DEF CreateFail, InitCreateErr, runscCreate
<1>2. CASE CreateOk(t)
  <2>1. RpcType'
    BY <1>2, ReturnType DEF CreateOk
  <2>2. rt' \in [Containers -> RtStates]
    BY <1>2 DEF CreateOk, runscCreate, RtStates, TypeOK
  <2>3. /\ initState' \in [Containers -> InitStates]
        /\ reg' \subseteq Containers /\ oomIds' \subseteq Containers
        /\ smu' = None
    BY <1>2 DEF CreateOk, TypeOK, InitStates
  <2>4. UNCHANGED <<events, published, exited, status, launched, mu, waiter, wcode, exitCh, hpc, hc,
                    hstatus, waitReply, oomed, victims, outlived>>
    BY <1>2 DEF CreateOk, evVars, waitVars, exitVars, endVars
  <2> QED
    BY <2>1, <2>2, <2>3, <2>4 DEF TypeOK, RpcType
<1>3. CASE Launch(t)
  <2>1. RpcType'
    BY <1>3, GotoType DEF Launch, PCs
  <2>2. rt' \in [Containers -> RtStates]
    BY <1>3 DEF Launch, runscStart, RtStates, TypeOK
  <2> QED
    BY <1>3, <2>1, <2>2 DEF Launch, TypeOK, RpcType, svcVars, evVars,
       initVars, waitVars, exitVars, rpcVars, endVars
<1>4. CASE LaunchDone(t)
  <2>1. RpcType'
    BY <1>4, ReturnType DEF LaunchDone
  <2> QED
    BY <1>4, <2>1 DEF LaunchDone, TypeOK, Unlock, InitStates, RpcType,
       svcVars, evVars, initVars, waitVars, exitVars, rpcVars, endVars
<1>5. CASE LaunchFail(t)
  <2>1. RpcType'
    BY <1>5, ReturnType DEF LaunchFail
  <2>2. mu' \in [Containers -> Threads \cup {None}]
    BY <1>5 DEF LaunchFail, TypeOK, Unlock
  <2>r. /\ rt' \in [Containers -> RtStates]
        /\ launched' \in [Containers -> {"none", "cold", "restore"}]
    <3>1. \/ UNCHANGED <<rt, launched>>
          \/ /\ rt' = [rt EXCEPT ![on[t]] = "running"]
             /\ launched' = [launched EXCEPT ![on[t]] = mode[t]]
      BY <1>5 DEF LaunchFail, runscStart
    <3>2. mode[t] \in {"none", "cold", "restore"} /\ "running" \in RtStates
      BY DEF TypeOK, RtStates
    <3>3. /\ rt \in [Containers -> RtStates]
          /\ launched \in [Containers -> {"none", "cold", "restore"}]
      BY DEF TypeOK
    <3> QED
      BY <3>1, <3>2, <3>3
  <2>3. CASE on[t] = Root
    BY <1>5, <2>1, <2>2, <2>r, <2>3 DEF LaunchFail, TypeOK, RpcType, svcVars,
       evVars, waitVars, exitVars, rpcVars, endVars
  <2>4. CASE on[t] # Root
    <3>1. /\ initState' \in [Containers -> InitStates]
          /\ exited' \in [Containers -> BOOLEAN]
          /\ status' \in [Containers -> Statuses]
      BY <1>5, <2>4, SetExitedType DEF LaunchFail, TypeOK, InitStates,
         Statuses
    <3> QED
      BY <1>5, <2>1, <2>2, <2>r, <3>1 DEF LaunchFail, TypeOK, RpcType, svcVars,
         evVars, waitVars, exitVars, rpcVars, endVars
  <2> QED
    BY <2>3, <2>4
<1>6. CASE DeleteKill(t)
  <2>1. RpcType'
    BY <1>6, GotoType DEF DeleteKill, PCs
  <2>2. rt' \in [Containers -> RtStates]
    BY <1>6, StopType DEF DeleteKill, killAllLocked, TypeOK
  <2> QED
    BY <1>6, <2>1, <2>2 DEF DeleteKill, TypeOK, RpcType, svcVars, evVars,
       initVars, waitVars, exitVars, rpcVars, endVars
<1>7. CASE DeleteRun(t)
  <2>1. RpcType'
    BY <1>7, GotoType DEF DeleteRun, PCs
  <2>2. rt' \in [Containers -> RtStates]
    BY <1>7, DeleteType DEF DeleteRun
  <2> QED
    BY <1>7, <2>1, <2>2 DEF DeleteRun, TypeOK, Unlock, InitStates, RpcType,
       svcVars, evVars, initVars, waitVars, exitVars, rpcVars, endVars
<1>8. CASE DeleteErr(t)
  <2>1. RpcType'
    BY <1>8, ReturnType DEF DeleteErr
  <2>2. rt' \in [Containers -> RtStates]
    BY <1>8, DeleteType DEF DeleteErr, TypeOK
  <2> QED
    BY <1>8, <2>1, <2>2 DEF DeleteErr, TypeOK, Unlock, RpcType, svcVars,
       evVars, initVars, waitVars, exitVars, rpcVars, endVars
<1>9. CASE KillStopped(t)
  <2>1. RpcType'
    BY <1>9, ReturnType DEF KillStopped
  <2> QED
    BY <1>9, <2>1 DEF KillStopped, TypeOK, Unlock, InitStates, RpcType,
       svcVars, evVars, initVars, waitVars, exitVars, rpcVars, endVars
<1>10. CASE KillOk(t)
  <2>1. RpcType'
    BY <1>10, ReturnType DEF KillOk
  <2>2. rt' \in [Containers -> RtStates]
    BY <1>10, StopType DEF KillOk, TypeOK
  <2> QED
    BY <1>10, <2>1, <2>2 DEF KillOk, TypeOK, Unlock, RpcType, svcVars, evVars,
       initVars, waitVars, exitVars, rpcVars, endVars
<1>11. CASE KillRetry(t)
  <2>1. CASE tries[t] + 1 < KillAttempts
    <3>1. tries' \in [Threads -> 0 .. KillAttempts - 1]
      <4>1. tries \in [Threads -> 0 .. KillAttempts - 1]
        BY DEF TypeOK
      <4>2. tries' = [tries EXCEPT ![t] = tries[t] + 1]
        BY <1>11, <2>1 DEF KillRetry
      <4> QED
        BY <2>1, <4>1, <4>2
    <3> QED
      BY <1>11, <2>1, <3>1 DEF KillRetry, TypeOK, svcVars, evVars, initVars,
         waitVars, exitVars, rpcVars, endVars
  <2>2. CASE ~(tries[t] + 1 < KillAttempts)
    <3>1. RpcType'
      BY <1>11, <2>2, ReturnType DEF KillRetry
    <3> QED
      BY <1>11, <2>2, <3>1 DEF KillRetry, TypeOK, Unlock, RpcType, svcVars,
         evVars, initVars, waitVars, exitVars, rpcVars, endVars
  <2> QED
    BY <2>1, <2>2
<1>12. CASE KillStateErr(t)
  <2>1. RpcType'
    BY <1>12, ReturnType DEF KillStateErr
  <2> QED
    BY <1>12, <2>1 DEF KillStateErr, TypeOK, Unlock, RpcType, svcVars,
       evVars, initVars, waitVars, exitVars, rpcVars, endVars
<1> QED
  BY <1>1, <1>2, <1>3, <1>4, <1>5, <1>6, <1>7, <1>8, <1>9, <1>10, <1>11,
     <1>12 DEF Serve

\* A call that waits for a mutex or an exit keeps the types.
LEMMA AcquireType ==
    ASSUME TypeOK, NEW t \in Threads, Acquire(t)
    PROVE  TypeOK'
<1> on[t] \in Containers \/ pc[t] = "idle"
  BY DEF TypeOK
<1>1. CASE StartLock(t)
  <2>1. RpcType'
    BY <1>1, ReturnType, GotoType DEF StartLock, PCs
  <2>2. CASE mu' = mu
    BY <1>1, <2>1, <2>2 DEF StartLock, TypeOK, RpcType, svcVars, evVars,
       initVars, waitVars, exitVars, rpcVars, endVars
  <2>3. CASE mu' = [mu EXCEPT ![on[t]] = t]
    <3>1. mu' \in [Containers -> Threads \cup {None}]
      BY <2>3 DEF TypeOK
    <3> QED
      BY <1>1, <2>1, <3>1 DEF StartLock, TypeOK, RpcType, svcVars, evVars,
         initVars, waitVars, exitVars, rpcVars, endVars
  <2> QED
    BY <1>1, <2>2, <2>3 DEF StartLock, Lock
<1>2. CASE DeleteLock(t)
  <2>1. RpcType'
    BY <1>2, ReturnType, GotoType DEF DeleteLock, PCs
  <2>2. CASE mu' = mu
    BY <1>2, <2>1, <2>2 DEF DeleteLock, TypeOK, RpcType, svcVars, evVars,
       initVars, waitVars, exitVars, rpcVars, endVars
  <2>3. CASE mu' = [mu EXCEPT ![on[t]] = t]
    <3>1. mu' \in [Containers -> Threads \cup {None}]
      BY <2>3 DEF TypeOK
    <3> QED
      BY <1>2, <2>1, <3>1 DEF DeleteLock, TypeOK, RpcType, svcVars, evVars,
         initVars, waitVars, exitVars, rpcVars, endVars
  <2> QED
    BY <1>2, <2>2, <2>3 DEF DeleteLock, Lock
<1>3. CASE KillLock(t)
  <2>1. RpcType'
    BY <1>3, ReturnType, GotoType DEF KillLock, PCs
  <2>2. CASE mu' = mu
    BY <1>3, <2>1, <2>2 DEF KillLock, TypeOK, RpcType, svcVars, evVars,
       initVars, waitVars, exitVars, rpcVars, endVars
  <2>3. CASE mu' = [mu EXCEPT ![on[t]] = t]
    <3>1. mu' \in [Containers -> Threads \cup {None}]
      BY <2>3 DEF TypeOK
    <3> QED
      BY <1>3, <2>1, <3>1 DEF KillLock, TypeOK, RpcType, svcVars, evVars,
         initVars, waitVars, exitVars, rpcVars, endVars
  <2> QED
    BY <1>3, <2>2, <2>3 DEF KillLock, Lock
<1>4. CASE StateRead(t)
  <2>1. RpcType'
    BY <1>4, ReturnType DEF StateRead
  <2>2. initState' \in [Containers -> InitStates]
    <3>1. initState \in [Containers -> InitStates]
      BY DEF TypeOK
    <3>2. \/ initState' = initState
          \/ initState' = [initState EXCEPT ![on[t]] = "stopped"]
      BY <1>4 DEF StateRead
    <3> QED
      BY <3>1, <3>2 DEF InitStates
  <2> QED
    BY <1>4, <2>1, <2>2 DEF StateRead, TypeOK, RpcType, svcVars, evVars,
       initVars, waitVars, exitVars, rpcVars, endVars
<1>5. CASE Remove(t)
  <2>1. RpcType'
    BY <1>5, ReturnType DEF Remove
  <2> QED
    BY <1>5, <2>1 DEF Remove, TypeOK, RpcType, svcVars, evVars, initVars,
       waitVars, exitVars, rpcVars, endVars
<1>6. CASE WaitUnblock(t)
  <2>1. RpcType'
    BY <1>6, GotoType DEF WaitUnblock, PCs
  <2> QED
    BY <1>6, <2>1 DEF WaitUnblock, TypeOK, RpcType, svcVars, evVars, initVars,
       waitVars, exitVars, rpcVars, endVars
<1>7. CASE WaitRead(t)
  <2>1. RpcType'
    BY <1>7, ReturnType DEF WaitRead
  <2> QED
    BY <1>7, <2>1 DEF WaitRead, TypeOK, RpcType, svcVars, evVars, initVars,
       waitVars, exitVars, rpcVars, endVars
<1> QED
  BY <1>1, <1>2, <1>3, <1>4, <1>5, <1>6, <1>7 DEF Acquire

\* The goroutine that waits for a container keeps the types.
LEMMA WaiterType ==
    ASSUME TypeOK, NEW c \in Containers, Waiter(c)
    PROVE  TypeOK'
<1>1. CASE Reap(c)
  <2>1. wcode' \in [Containers -> Statuses]
    BY <1>1 DEF Reap, TypeOK, Statuses
  <2> QED
    BY <1>1, <2>1 DEF Reap, TypeOK, svcVars, evVars, initVars, waitVars,
       exitVars, rpcVars, endVars
<1>2. CASE ReapErr(c)
  <2>1. /\ rt' \in [Containers -> RtStates]
        /\ outlived' \in [Containers -> SUBSET {"wait", "handler"}]
    BY <1>2, OnExitType DEF ReapErr
  <2> QED
    BY <1>2, <2>1 DEF ReapErr, TypeOK, Statuses, svcVars, evVars, initVars,
       waitVars, exitVars, rpcVars, endVars
<1>3. CASE SendExit(c)
  <2> QED
    BY <1>3 DEF SendExit, TypeOK, Statuses, svcVars, evVars, initVars,
       waitVars, exitVars, rpcVars, endVars
<1> QED
  BY <1>1, <1>2, <1>3 DEF Waiter

\* The exit handler keeps the types.
LEMMA HandlerType ==
    ASSUME TypeOK, Handler
    PROVE  TypeOK'
<1>1. CASE ReceiveExit
  <2> QED
    BY <1>1 DEF ReceiveExit, TypeOK, Statuses, svcVars, evVars, initVars,
       waitVars, exitVars, rpcVars, endVars
<1>2. CASE FindProcess
  <2> QED
    BY <1>2 DEF FindProcess, TypeOK, HandlerIdle, Statuses, svcVars, evVars,
       initVars, waitVars, exitVars, rpcVars, endVars
<1>3. CASE HandlerKillAll
  <2>0. hc \in Containers
    BY <1>3 DEF HandlerKillAll, TypeOK
  <2>1. /\ rt' \in [Containers -> RtStates]
        /\ outlived' \in [Containers -> SUBSET {"wait", "handler"}]
    BY <1>3, <2>0, OnExitType DEF HandlerKillAll
  <2> QED
    BY <1>3, <2>1 DEF HandlerKillAll, TypeOK, svcVars, evVars, initVars,
       waitVars, exitVars, rpcVars, endVars
<1>4. CASE SetExited
  <2>1. CASE initState[hc] = "deleted"
    BY <1>4, <2>1 DEF SetExited, RecordExit, TypeOK, svcVars, evVars,
       waitVars, exitVars, rpcVars, endVars
  <2>2. CASE initState[hc] # "deleted"
    <3>1. hc \in Containers
      BY <1>4 DEF SetExited, TypeOK
    <3>2. /\ setExited(hc, hstatus)
          /\ initState' = [initState EXCEPT ![hc] = "stopped"]
      BY <1>4, <2>2 DEF SetExited, RecordExit
    <3>3. /\ initState' \in [Containers -> InitStates]
          /\ exited' \in [Containers -> BOOLEAN]
          /\ status' \in [Containers -> Statuses]
      BY <3>1, <3>2, SetExitedType DEF TypeOK, InitStates
    <3> QED
      BY <1>4, <3>3 DEF SetExited, TypeOK, svcVars, evVars, waitVars,
         exitVars, rpcVars, endVars
  <2> QED
    BY <2>1, <2>2
<1>5. CASE HandleOOM
  <2>1. hc \in Containers
    BY <1>5 DEF HandleOOM, TypeOK
  <2>2. events' \in Seq(EventType) /\ Len(events') <= EventCap
    <3>1. CASE hc \in oomIds /\ oomed
      <4>1. send(Event("oom", 0))
        BY <1>5, <3>1 DEF HandleOOM
      <4> QED
        BY <2>1, <4>1, SendType DEF Event, EventType, Statuses
    <3>2. CASE ~(hc \in oomIds /\ oomed)
      BY <1>5, <3>2 DEF HandleOOM, TypeOK
    <3> QED
      BY <3>1, <3>2
  <2> QED
    BY <1>5, <2>1, <2>2 DEF HandleOOM, TypeOK, svcVars, evVars, initVars,
       waitVars, exitVars, rpcVars, endVars
<1>6. CASE SendTaskExit
  <2> QED
    BY <1>6 DEF SendTaskExit, TypeOK, Event, send, HandlerIdle, EventType,
       Statuses, svcVars, evVars, initVars, waitVars, exitVars, rpcVars,
       endVars
<1> QED
  BY <1>1, <1>2, <1>3, <1>4, <1>5, <1>6 DEF Handler

\* Every step keeps the types.
LEMMA StepType == TypeOK /\ [Next]_vars => TypeOK'
<1> SUFFICES ASSUME TypeOK, [Next]_vars PROVE TypeOK'
  OBVIOUS
<1>1. ASSUME NEW t \in Threads, CheckpointDone(t) PROVE TypeOK'
  <2>1. RpcType'
    BY <1>1, ReturnType DEF CheckpointDone
  <2> QED
    BY <1>1, <2>1 DEF CheckpointDone, TypeOK, RpcType, svcVars, evVars,
       initVars, waitVars, exitVars, endVars
<1>2. ASSUME NEW c \in Containers, ProcessExit(c) PROVE TypeOK'
  BY <1>2, StopType DEF ProcessExit, TypeOK, svcVars, evVars, initVars,
     waitVars, exitVars, rpcVars, endVars
<1>3. CASE Forward
  BY <1>3 DEF Forward, TypeOK, svcVars, initVars, waitVars, exitVars,
     rpcVars, endVars
<1>4. CASE OOMKill
  BY <1>4, StopType DEF OOMKill, TypeOK, svcVars, evVars, initVars,
     waitVars, exitVars, rpcVars
<1>5. CASE UNCHANGED vars
  BY <1>5 DEF vars, TypeOK, svcVars, evVars, initVars, waitVars, exitVars,
     rpcVars, endVars
<1> QED
  BY <1>1, <1>2, <1>3, <1>4, <1>5, BeginType, ServeType, AcquireType,
     WaiterType, HandlerType DEF Next

\* The shim starts well typed.
LEMMA InitType == Init => TypeOK
<1> SUFFICES ASSUME Init PROVE TypeOK
  OBVIOUS
<1>1. tries \in [Threads -> 0 .. KillAttempts - 1]
  BY DEF Init
<1>2. events \in Seq(EventType) /\ published \in Seq(EventType)
      /\ Len(events) <= EventCap /\ exitCh \in Seq(Containers \X Statuses)
  BY DEF Init
<1> QED
  BY <1>1, <1>2 DEF Init, TypeOK, InitStates, Statuses, RtStates, PCs

\* Every state of the shim is well typed: no kill exceeds its attempts, no
\* send overfills the events channel, and a call or the exit handler that is
\* busy always has a container it works on.
THEOREM TypeCorrect == Spec => []TypeOK
  BY InitType, StepType, PTL DEF Spec


-----------------------------------------------------------------------------
(* The safety invariant *)

\* A call between its lock and its unlock holds p.mu of its container, and a
\* Create in progress holds s.mu.
LockInv ==
    \A t \in Threads : /\ pc[t] \in LockedPCs => mu[on[t]] = t
                       /\ pc[t] = "create" => smu = t

\* While p.mu is held nobody else moves the init state: a Start still finds
\* the process created when it is about to declare it running.
PhaseInv ==
    \A t \in Threads :
        /\ pc[t] = "create" => initState[on[t]] = "none"
        /\ pc[t] \in {"launch", "launched"} => initState[on[t]] = "created"
        /\ pc[t] \in {"delkill", "delrun"} =>
              initState[on[t]] \in {"created", "stopped"}
        /\ pc[t] = "killing" => initState[on[t]] \in {"created", "running"}
        /\ pc[t] = "remove" => initState[on[t]] = "deleted"

\* What runsc knows agrees with the shim: a deleted container is gone, one that
\* is waited for has been launched, and nothing runs without its sandbox.
RuntimeInv ==
    \A c \in Containers :
        /\ initState[c] = "deleted" => rt[c] = "absent"
        /\ waiter[c] # "none" => initState[c] # "none"
        /\ waiter[c] # "none" => rt[c] # "created"
        /\ rt[c] = "running" => rt[Root] = "running"

\* An exit under way was sent by the goroutine that waited for the container.
SentInv ==
    /\ \A i \in DOMAIN exitCh : waiter[exitCh[i][1]] = "sent"
    /\ hc # None => waiter[hc] = "sent"
    /\ \A i \in DOMAIN events : waiter[events[i].id] = "sent"
    /\ \A i \in DOMAIN published : waiter[published[i].id] = "sent"

\* The inductive invariant that carries StartExitedOrder and NoOrphan through
\* every step of the shim.
SafetyInv ==
    /\ TypeOK /\ LockInv /\ PhaseInv /\ RuntimeInv /\ SentInv
    /\ StartExitedOrder /\ NoOrphan

\* What the proofs below use of TypeOK.
CoreType ==
    /\ initState \in [Containers -> InitStates]
    /\ mu \in [Containers -> Threads \cup {None}]
    /\ exited \in [Containers -> BOOLEAN]
    /\ waiter \in [Containers -> {"none", "waiting", "reaped", "sent"}]
    /\ rt \in [Containers -> RtStates]
    /\ pc \in [Threads -> PCs]
    /\ on \in [Threads -> Containers \cup {None}]
    /\ \A t \in Threads : pc[t] # "idle" => on[t] \in Containers

\* The part of TypeOK that the steps below use, small enough for the provers.
LEMMA TypeCore == TypeOK => CoreType
BY DEF TypeOK, CoreType

\* Killing a container's processes brings nothing back to life.
LEMMA StopFacts ==
    ASSUME CoreType, NEW c \in Containers
    PROVE  /\ Stop(c) \in [Containers -> RtStates]
           /\ Stop(c)[c] \in {"stopped", "absent"}
           /\ \A d \in Containers :
                 /\ rt[d] = "absent" <=> Stop(c)[d] = "absent"
                 /\ rt[d] = "stopped" => Stop(c)[d] = "stopped"
                 /\ Stop(c)[d] \in {rt[d], "stopped"}
                 /\ c = Root => Stop(c)[d] # "running"
                 /\ d # c /\ c # Root => Stop(c)[d] = rt[d]
BY DEF CoreType, Stop, Killed, RtStates

\* The parts of SafetyInv that are not about types.
Rest == LockInv /\ PhaseInv /\ RuntimeInv /\ SentInv /\ StartExitedOrder
        /\ NoOrphan

\* A call that runs a runsc command preserves the invariant: it holds p.mu
\* (or s.mu, for Create) and the phase it is in fixes the init state.
LEMMA ServeSafe ==
    ASSUME CoreType, Rest, NEW t \in Threads, Serve(t)
    PROVE  Rest'
<1> USE DEF CoreType, Rest, LockInv, PhaseInv, RuntimeInv, SentInv,
        StartExitedOrder, NoOrphan, Dead, LockedPCs, svcVars, evVars,
        initVars, waitVars, exitVars, rpcVars, Return, Goto, Lock, Unlock
<1>1. CASE CreateFail(t)
  BY <1>1 DEF CreateFail, InitCreateErr, runscCreate
<1>2. CASE CreateOk(t)
  BY <1>2 DEF CreateOk, runscCreate
<1>3. CASE Launch(t)
  BY <1>3 DEF Launch, runscStart, SandboxIn
<1>4. CASE LaunchDone(t)
  BY <1>4 DEF LaunchDone
<1>5. CASE LaunchFail(t)
  BY <1>5 DEF LaunchFail, setExited, runscStart, SandboxIn
<1>6. CASE DeleteKill(t)
  BY <1>6, StopFacts DEF DeleteKill, killAllLocked
<1>7. CASE DeleteRun(t)
  BY <1>7, StopFacts DEF DeleteRun, runscDelete
<1>8. CASE DeleteErr(t)
  BY <1>8, StopFacts DEF DeleteErr, runscDelete
<1>9. CASE KillStopped(t)
  BY <1>9 DEF KillStopped
<1>10. CASE KillOk(t)
  BY <1>10, StopFacts DEF KillOk
<1>11. CASE KillRetry(t)
  BY <1>11 DEF KillRetry
<1>12. CASE KillStateErr(t)
  BY <1>12 DEF KillStateErr
<1> QED
  BY <1>1, <1>2, <1>3, <1>4, <1>5, <1>6, <1>7, <1>8, <1>9, <1>10, <1>11,
     <1>12 DEF Serve

\* A call that takes or waits for a mutex preserves the invariant: it decides
\* on the init state in the step that takes p.mu.
LEMMA AcquireSafe ==
    ASSUME CoreType, Rest, NEW t \in Threads, Acquire(t)
    PROVE  Rest'
<1> USE DEF CoreType, Rest, LockInv, PhaseInv, RuntimeInv, SentInv,
        StartExitedOrder, NoOrphan, Dead, LockedPCs, svcVars, evVars,
        initVars, waitVars, exitVars, rpcVars, Return, Goto, Lock, Unlock
<1>1. CASE StartLock(t)
  BY <1>1 DEF StartLock
<1>2. CASE DeleteLock(t)
  BY <1>2 DEF DeleteLock
<1>3. CASE KillLock(t)
  BY <1>3 DEF KillLock
<1>4. CASE StateRead(t)
  BY <1>4 DEF StateRead
<1>5. CASE Remove(t)
  BY <1>5 DEF Remove
<1>6. CASE WaitUnblock(t)
  BY <1>6 DEF WaitUnblock
<1>7. CASE WaitRead(t)
  BY <1>7 DEF WaitRead
<1> QED
  BY <1>1, <1>2, <1>3, <1>4, <1>5, <1>6, <1>7 DEF Acquire

\* A call that begins preserves the invariant; it holds no p.mu yet.
LEMMA BeginSafe ==
    ASSUME CoreType, Rest, NEW t \in Threads, NEW c \in Containers, Begin(t, c)
    PROVE  Rest'
<1> USE DEF CoreType, Rest, LockInv, PhaseInv, RuntimeInv, SentInv,
        StartExitedOrder, NoOrphan, Dead, LockedPCs, svcVars, evVars,
        initVars, waitVars, exitVars, rpcVars, Return, Goto, Lock, Unlock
<1>1. CASE CreateLock(t, c)
  BY <1>1 DEF CreateLock
<1>2. ASSUME NEW l, NEW m, Call(t, c, l, m)
      PROVE  Rest'
  BY <1>2 DEF Call
<1> QED
  BY <1>1, <1>2 DEF Begin, CallStart, CallRestore, CallDelete, CallKill,
     CallState, CallWait, CallCheckpoint

\* The goroutine of Init.start preserves the invariant.
LEMMA WaiterSafe ==
    ASSUME TypeOK, CoreType, Rest, NEW c \in Containers, Waiter(c)
    PROVE  Rest'
<1> USE DEF CoreType, Rest, LockInv, PhaseInv, RuntimeInv, SentInv,
        StartExitedOrder, NoOrphan, Dead, LockedPCs, svcVars, evVars,
        initVars, waitVars, exitVars, rpcVars, Return, Goto, Lock, Unlock
<1>1. CASE Reap(c)
  BY <1>1 DEF Reap
<1>2. CASE ReapErr(c)
  BY <1>2, StopFacts DEF ReapErr, killOnExit, killAllLocked
<1>3. CASE SendExit(c)
  BY <1>3 DEF SendExit, TypeOK
<1> QED
  BY <1>1, <1>2, <1>3 DEF Waiter

\* Sending an event about a container whose exit was sent.
LEMMA AppendSent ==
    ASSUME TypeOK, NEW e \in EventType, waiter[e.id] = "sent",
           \A i \in DOMAIN events : waiter[events[i].id] = "sent"
    PROVE  \A i \in DOMAIN Append(events, e) :
              waiter[Append(events, e)[i].id] = "sent"
BY DEF TypeOK

\* The exit handler preserves the invariant: SetExited waits for p.mu, so no
\* Start is between its command and its transition to running.
LEMMA HandlerSafe ==
    ASSUME TypeOK, CoreType, Rest, Handler
    PROVE  Rest'
<1> USE DEF CoreType, Rest, LockInv, PhaseInv, RuntimeInv, SentInv,
        StartExitedOrder, NoOrphan, Dead, LockedPCs, svcVars, evVars,
        initVars, waitVars, exitVars, rpcVars, Return, Goto, Lock, Unlock
<1>1. CASE ReceiveExit
  BY <1>1 DEF ReceiveExit, TypeOK
<1>2. CASE FindProcess
  BY <1>2 DEF FindProcess, HandlerIdle
<1>3. CASE HandlerKillAll
  BY <1>3, StopFacts DEF HandlerKillAll, killOnExit, killAllLocked, TypeOK
<1>4. CASE SetExited
  <2>1. hc \in Containers /\ mu[hc] = None /\ initState[hc] # "none"
    BY <1>4 DEF SetExited, TypeOK
  <2>2. CASE initState[hc] = "deleted"
    BY <1>4, <2>2 DEF SetExited, RecordExit
  <2>3. CASE initState[hc] # "deleted"
    <3>1. /\ exited' = [exited EXCEPT ![hc] = TRUE]
          /\ initState' = [initState EXCEPT ![hc] = "stopped"]
      BY <1>4, <2>3 DEF SetExited, RecordExit, setExited
    <3>2. PhaseInv'
      BY <1>4, <2>1, <2>3, <3>1 DEF SetExited
    <3>3. StartExitedOrder'
      BY <1>4, <2>1, <3>1 DEF SetExited
    <3> QED
      BY <1>4, <2>1, <2>3, <3>1, <3>2, <3>3 DEF SetExited
  <2> QED
    BY <2>2, <2>3
<1>5. CASE HandleOOM
  <2>1. hc \in Containers /\ waiter[hc] = "sent" /\ waiter' = waiter
    BY <1>5 DEF HandleOOM, TypeOK
  <2>2. SentInv'
    <3>1. CASE hc \in oomIds /\ oomed
      BY <1>5, <2>1, <3>1, AppendSent DEF HandleOOM, send, Event
    <3>2. CASE ~(hc \in oomIds /\ oomed)
      BY <1>5, <3>2 DEF HandleOOM
    <3> QED
      BY <3>1, <3>2
  <2> QED
    BY <1>5, <2>2 DEF HandleOOM
<1>6. CASE SendTaskExit
  BY <1>6 DEF SendTaskExit, send, Event, HandlerIdle, TypeOK
<1> QED
  BY <1>1, <1>2, <1>3, <1>4, <1>5, <1>6 DEF Handler

\* Publishing an event moves it within the stream and changes nothing else.
LEMMA ForwardSafe ==
    ASSUME TypeOK, SentInv, Forward
    PROVE  SentInv'
<1>1. /\ events \in Seq(EventType) /\ published \in Seq(EventType)
      /\ events # << >>
      /\ events' = Tail(events) /\ published' = Append(published, Head(events))
      /\ UNCHANGED <<exitCh, hc, waiter>>
  BY DEF Forward, TypeOK, exitVars, waitVars
<1>2. \A i \in DOMAIN events' : waiter'[events'[i].id] = "sent"
  BY <1>1 DEF SentInv
<1>3. \A i \in DOMAIN published' : waiter'[published'[i].id] = "sent"
  BY <1>1 DEF SentInv
<1> QED
  BY <1>1, <1>2, <1>3 DEF SentInv

\* The remaining steps.
LEMMA OtherSafe ==
    ASSUME TypeOK, CoreType, Rest,
           \/ \E t \in Threads : CheckpointDone(t)
           \/ \E c \in Containers : ProcessExit(c)
           \/ Forward \/ OOMKill \/ UNCHANGED vars
    PROVE  Rest'
<1> USE DEF CoreType, Rest, LockInv, PhaseInv, RuntimeInv, SentInv,
        StartExitedOrder, NoOrphan, Dead, LockedPCs, svcVars, evVars,
        initVars, waitVars, exitVars, rpcVars, Return, Goto, Lock, Unlock
<1>1. ASSUME NEW t \in Threads, CheckpointDone(t) PROVE Rest'
  BY <1>1 DEF CheckpointDone
<1>2. ASSUME NEW c \in Containers, ProcessExit(c) PROVE Rest'
  BY <1>2, StopFacts DEF ProcessExit
<1>3. CASE Forward
  <2>1. SentInv'
    BY <1>3, ForwardSafe
  <2> QED
    BY <1>3, <2>1 DEF Forward
<1>4. CASE OOMKill
  BY <1>4, StopFacts DEF OOMKill
<1>5. CASE UNCHANGED vars
  BY <1>5 DEF vars
<1> QED
  BY <1>1, <1>2, <1>3, <1>4, <1>5

\* SafetyInv is inductive: every step of the shim preserves it.
LEMMA StepSafe == SafetyInv /\ [Next]_vars => SafetyInv'
<1> SUFFICES ASSUME SafetyInv, [Next]_vars PROVE SafetyInv'
  OBVIOUS
<1>1. TypeOK /\ CoreType /\ Rest
  BY TypeCore DEF SafetyInv, Rest
<1>2. TypeOK'
  BY <1>1, StepType
<1>3. Rest'
  BY <1>1, BeginSafe, ServeSafe, AcquireSafe, WaiterSafe, HandlerSafe,
     OtherSafe DEF Next
<1> QED
  BY <1>2, <1>3 DEF SafetyInv, Rest

\* SafetyInv holds when the shim starts.
LEMMA InitSafe == Init => SafetyInv
<1> SUFFICES ASSUME Init PROVE SafetyInv
  OBVIOUS
<1>1. TypeOK
  BY InitType
<1> QED
  BY <1>1 DEF Init, SafetyInv, LockInv, PhaseInv, RuntimeInv, SentInv,
     StartExitedOrder, NoOrphan, LockedPCs

\* The order of Start and SetExited (proc_init.go, comment on Init.mu), for any
\* number of containers and of concurrent calls.
THEOREM StartExitedCorrect == Spec => []StartExitedOrder
<1>1. SafetyInv => StartExitedOrder
  BY DEF SafetyInv
<1> QED
  BY <1>1, InitSafe, StepSafe, PTL DEF Spec

\* A container that exists in runsc is never forgotten by a Delete.
THEOREM NoOrphanCorrect == Spec => []NoOrphan
<1>1. SafetyInv => NoOrphan
  BY DEF SafetyInv
<1> QED
  BY <1>1, InitSafe, StepSafe, PTL DEF Spec

-----------------------------------------------------------------------------
(* What clients are told about the end of a container *)

\* At most one exit of a container is on its way or told: in ExitCh, in the
\* hands of checkProcesses, or in the stream of events.
TokenInv ==
    /\ \A i, j \in DOMAIN exitCh : exitCh[i][1] = exitCh[j][1] => i = j
    /\ \A i \in DOMAIN exitCh :
          /\ exitCh[i][1] # hc
          /\ \A k \in DOMAIN Stream : Stream[k].type = "exit" => Stream[k].id # exitCh[i][1]
    /\ \A k \in DOMAIN Stream : Stream[k].type = "exit" => Stream[k].id # hc
    /\ \A j, k \in DOMAIN Stream :
          Stream[j].type = "exit" /\ Stream[k].type = "exit" /\ Stream[j].id = Stream[k].id => j = k

\* Everything in the stream is about a container whose exit was sent.
StreamSent == \A k \in DOMAIN Stream : waiter[Stream[k].id] = "sent"

\* A container that counts as created while its goroutine waits is inside the
\* Start that spawned it, which holds p.mu.
LaunchInv ==
    \A c \in Containers :
        initState[c] = "created" /\ waiter[c] # "none" =>
            mu[c] \in Threads /\ pc[mu[c]] = "launched" /\ on[mu[c]] = c

\* The exit of a container that was launched is recorded by checkProcesses
\* only, and from then on what it tells is what was recorded.
StatusInv ==
    /\ \A c \in Containers :
          exited[c] /\ waiter[c] # "none" =>
              /\ waiter[c] = "sent" /\ (hc = c => hpc \in {"oom", "exit"})
              /\ \A i \in DOMAIN exitCh : exitCh[i][1] # c
    /\ hpc \in {"oom", "exit"} /\ exited[hc] => status[hc] = hstatus
    /\ \A k \in DOMAIN Stream :
          Stream[k].type = "exit" /\ exited[Stream[k].id] => status[Stream[k].id] = Stream[k].status

\* Wait reads a status that was recorded.
WaitInv ==
    /\ \A t \in Threads : pc[t] = "waitread" => exited[on[t]]
    /\ \A c \in Containers : waitReply[c] \subseteq {status[c]} /\ (waitReply[c] # {} => exited[c])

\* A container is dropped by the OOM poller before its exit is told, and a
\* victim is told about before it is dropped.
OOMTold(c) == \E j \in DOMAIN Stream : Stream[j].type = "oom" /\ Stream[j].id = c
OOMInv ==
    /\ \A c \in victims : oomed /\ (c \in oomIds \/ OOMTold(c))
    /\ hpc = "exit" => hc \notin oomIds
    /\ \A k \in DOMAIN Stream : Stream[k].type = "exit" => Stream[k].id \notin oomIds
    /\ OOMBeforeExit


-----------------------------------------------------------------------------
(* The stream of events *)

LEMMA StreamType ==
    ASSUME TypeOK
    PROVE  /\ Stream \in Seq(EventType) /\ Len(Stream) \in Nat /\ DOMAIN Stream = 1 .. Len(Stream)
           /\ \A k \in DOMAIN Stream : Stream[k] \in EventType /\ Stream[k].id \in Containers
<1>1. Stream \in Seq(EventType)
  BY DEF TypeOK, Stream
<1>2. \A k \in DOMAIN Stream : Stream[k] \in EventType
  BY <1>1
<1>3. \A e \in EventType : e.id \in Containers
  BY DEF EventType
<1> QED
  BY <1>1, <1>2, <1>3

LEMMA StreamIsSent == SafetyInv => StreamSent
<1> SUFFICES ASSUME SafetyInv, NEW k \in DOMAIN Stream
             PROVE  waiter[Stream[k].id] = "sent"
  BY DEF StreamSent
<1>1. events \in Seq(EventType) /\ published \in Seq(EventType)
  BY DEF SafetyInv, TypeOK
<1>2. \/ \E j \in DOMAIN events : Stream[k] = events[j]
      \/ \E j \in DOMAIN published : Stream[k] = published[j]
  <2>1. CASE k <= Len(published)
    BY <1>1, <2>1 DEF Stream
  <2>2. CASE k > Len(published)
    <3>1. k - Len(published) \in DOMAIN events
      BY <1>1, <2>2 DEF Stream
    <3> QED
      BY <1>1, <2>2, <3>1 DEF Stream
  <2> QED
    BY <1>1, <2>1, <2>2 DEF Stream
<1> QED
  BY <1>2 DEF SafetyInv, SentInv

\* A send appends to it.
LEMMA SendStream ==
    ASSUME TypeOK, NEW e \in EventType, send(e), published' = published
    PROVE  /\ Len(Stream') = Len(Stream) + 1 /\ DOMAIN Stream' = 1 .. Len(Stream) + 1
           /\ \A k \in DOMAIN Stream : Stream'[k] = Stream[k]
           /\ Stream'[Len(Stream) + 1] = e
<1>1. events \in Seq(EventType) /\ published \in Seq(EventType) /\ events' = Append(events, e)
  BY DEF TypeOK, send
<1> QED
  BY <1>1 DEF Stream

\* Publishing leaves it as it is.
LEMMA ForwardStream ==
    ASSUME TypeOK, Forward
    PROVE  Stream' = Stream
<1>1. /\ events \in Seq(EventType) /\ published \in Seq(EventType) /\ events # << >>
      /\ published' = Append(published, Head(events)) /\ events' = Tail(events)
  BY DEF TypeOK, Forward
<1>2. Stream \in Seq(EventType) /\ Stream' \in Seq(EventType)
  BY <1>1 DEF Stream
<1>3. Len(Stream') = Len(Stream)
  BY <1>1 DEF Stream
<1>4. \A i \in 1 .. Len(Stream) : Stream'[i] = Stream[i]
  BY <1>1 DEF Stream
<1> QED
  BY <1>2, <1>3, <1>4

-----------------------------------------------------------------------------
(* Steps that neither move an exit nor send an event *)

Calm ==
    \/ \E t \in Threads : \/ \E c \in Containers : Begin(t, c)
                          \/ Serve(t) \/ Acquire(t) \/ CheckpointDone(t)
    \/ \E c \in Containers : Reap(c) \/ ReapErr(c) \/ ProcessExit(c)
    \/ OOMKill \/ UNCHANGED vars

LEMMA CalmFrame ==
    ASSUME Calm
    PROVE  UNCHANGED <<exitCh, hpc, hc, hstatus, published>> /\ Stream' = Stream
<1> USE DEF exitVars, evVars
<1>1. ASSUME NEW t \in Threads, NEW c \in Containers, Begin(t, c)
      PROVE  UNCHANGED <<exitVars, evVars>>
  BY <1>1 DEF Begin, CreateLock, CallStart, CallRestore, CallDelete, CallKill, CallState,
     CallWait, CallCheckpoint, Call
<1>2. ASSUME NEW t \in Threads, Serve(t)
      PROVE  UNCHANGED <<exitVars, evVars>>
  BY <1>2 DEF Serve, CreateFail, CreateOk, Launch, LaunchDone, LaunchFail, DeleteKill, DeleteRun,
     DeleteErr, KillStopped, KillStateErr, KillOk, KillRetry
<1>3. ASSUME NEW t \in Threads, Acquire(t) \/ CheckpointDone(t)
      PROVE  UNCHANGED <<exitVars, evVars>>
  BY <1>3 DEF Acquire, StartLock, DeleteLock, KillLock, StateRead, Remove, WaitUnblock, WaitRead,
     CheckpointDone
<1>4. ASSUME NEW c \in Containers, Reap(c) \/ ReapErr(c) \/ ProcessExit(c)
      PROVE  UNCHANGED <<exitVars, evVars>>
  BY <1>4 DEF Reap, ReapErr, ProcessExit
<1>5. ASSUME OOMKill \/ UNCHANGED vars
      PROVE  UNCHANGED <<exitVars, evVars>>
  BY <1>5 DEF OOMKill, vars
<1> QED
  BY <1>1, <1>2, <1>3, <1>4, <1>5 DEF Calm, Stream

\* What calm steps do to the recorded exits: only a launch that failed records
\* one, of a container that has no waiting goroutine.
LEMMA CalmExited ==
    ASSUME CoreType, Rest, LaunchInv, Calm
    PROVE  \/ UNCHANGED <<exited, status>>
           \/ \E c \in Containers :
                 waiter[c] = "none" /\ waiter' = waiter /\ setExited(c, InternalError)
<1> USE DEF initVars
<1>1. ASSUME NEW t \in Threads, NEW c \in Containers, Begin(t, c)
      PROVE  UNCHANGED <<exited, status>>
  BY <1>1 DEF Begin, CreateLock, CallStart, CallRestore, CallDelete, CallKill, CallState,
     CallWait, CallCheckpoint, Call
<1>2. ASSUME NEW t \in Threads, Serve(t), ~LaunchFail(t)
      PROVE  UNCHANGED <<exited, status>>
  BY <1>2 DEF Serve, CreateFail, CreateOk, Launch, LaunchDone, DeleteKill, DeleteRun,
     DeleteErr, KillStopped, KillStateErr, KillOk, KillRetry
<1>3. ASSUME NEW t \in Threads, Acquire(t) \/ CheckpointDone(t)
      PROVE  UNCHANGED <<exited, status>>
  BY <1>3 DEF Acquire, StartLock, DeleteLock, KillLock, StateRead, Remove, WaitUnblock, WaitRead,
     CheckpointDone
<1>4. ASSUME NEW c \in Containers, Reap(c) \/ ReapErr(c) \/ ProcessExit(c)
      PROVE  UNCHANGED <<exited, status>>
  BY <1>4 DEF Reap, ReapErr, ProcessExit
<1>5. CASE OOMKill \/ UNCHANGED vars
  BY <1>5 DEF OOMKill, vars
<1>6. ASSUME NEW t \in Threads, LaunchFail(t)
      PROVE  \/ UNCHANGED <<exited, status>>
             \/ \E c \in Containers :
                   waiter[c] = "none" /\ waiter' = waiter /\ setExited(c, InternalError)
  <2>1. pc[t] = "launch" /\ on[t] \in Containers /\ waiter' = waiter
    BY <1>6 DEF LaunchFail, CoreType, waitVars
  <2>2. mu[on[t]] = t /\ initState[on[t]] = "created"
    BY <2>1 DEF Rest, LockInv, PhaseInv, LockedPCs
  <2>3. waiter[on[t]] = "none"
    BY <2>1, <2>2 DEF LaunchInv
  <2> QED
    BY <1>6, <2>1, <2>3 DEF LaunchFail
<1> QED
  BY <1>1, <1>2, <1>3, <1>4, <1>5, <1>6 DEF Calm

\* And to the goroutines of Init.start: one moves while nothing is recorded.
LEMMA CalmWaiter ==
    ASSUME CoreType, Rest, StatusInv, Calm, NEW c \in Containers
    PROVE  \/ waiter'[c] = waiter[c]
           \/ waiter[c] # "sent" /\ waiter'[c] # "none" /\ ~exited[c]
<1> USE DEF waitVars
<1>1. ASSUME NEW t \in Threads, NEW d \in Containers, Begin(t, d)
      PROVE  waiter' = waiter
  BY <1>1 DEF Begin, CreateLock, CallStart, CallRestore, CallDelete, CallKill, CallState,
     CallWait, CallCheckpoint, Call
<1>2. ASSUME NEW t \in Threads, Serve(t), ~Launch(t)
      PROVE  waiter' = waiter
  BY <1>2 DEF Serve, CreateFail, CreateOk, LaunchDone, LaunchFail, DeleteKill, DeleteRun,
     DeleteErr, KillStopped, KillStateErr, KillOk, KillRetry
<1>3. ASSUME NEW t \in Threads, Acquire(t) \/ CheckpointDone(t)
      PROVE  waiter' = waiter
  BY <1>3 DEF Acquire, StartLock, DeleteLock, KillLock, StateRead, Remove, WaitUnblock, WaitRead,
     CheckpointDone
<1>4. ASSUME NEW d \in Containers, Reap(d) \/ ReapErr(d)
      PROVE  \/ waiter'[c] = waiter[c]
             \/ waiter[c] # "sent" /\ waiter'[c] # "none" /\ ~exited[c]
  BY <1>4 DEF Reap, ReapErr, CoreType, StatusInv
<1>5. ASSUME NEW t \in Threads, Launch(t)
      PROVE  \/ waiter'[c] = waiter[c]
             \/ waiter[c] # "sent" /\ waiter'[c] # "none" /\ ~exited[c]
  <2>1. pc[t] = "launch" /\ on[t] \in Containers /\ waiter' = [waiter EXCEPT ![on[t]] = "waiting"]
    BY <1>5 DEF Launch, CoreType
  <2>2. initState[on[t]] = "created" /\ ~exited[on[t]]
    BY <2>1 DEF Rest, PhaseInv, StartExitedOrder
  <2>3. rt[on[t]] = "created"
    BY <1>5 DEF Launch, runscStart
  <2>4. waiter[on[t]] # "sent"
    BY <2>1, <2>3 DEF Rest, RuntimeInv, Dead
  <2> QED
    BY <2>1, <2>2, <2>4 DEF CoreType
<1>6. ASSUME NEW d \in Containers, ProcessExit(d)
      PROVE  waiter' = waiter
  BY <1>6 DEF ProcessExit
<1>7. CASE OOMKill \/ UNCHANGED vars
  BY <1>7 DEF OOMKill, vars
<1> QED
  BY <1>1, <1>2, <1>3, <1>4, <1>5, <1>6, <1>7 DEF Calm

-----------------------------------------------------------------------------
(* One exit *)

\* The exit handler and the publisher leave the goroutines that wait alone,
\* and calls too.
LEMMA HandlerFrame ==
    ASSUME Handler \/ Forward
    PROVE  UNCHANGED <<mu, waiter, pc, on, waitReply, oomed, victims>>
BY DEF Handler, ReceiveExit, FindProcess, HandlerKillAll, SetExited, HandleOOM, SendTaskExit,
   Forward, waitVars, rpcVars, endVars

LEMMA TokenStep ==
    ASSUME SafetyInv, TokenInv, [Next]_vars
    PROVE  TokenInv'
<1>0. TypeOK /\ StreamSent /\ SentInv
  BY StreamIsSent DEF SafetyInv
<1>1. CASE Calm
  BY <1>1, CalmFrame DEF TokenInv
<1>2. ASSUME NEW c \in Containers, SendExit(c)
      PROVE  TokenInv'
  <2>1. /\ waiter[c] = "reaped" /\ exitCh' = Append(exitCh, <<c, wcode[c]>>)
        /\ hc' = hc /\ Stream' = Stream
    BY <1>2 DEF SendExit, evVars, Stream
  <2>2. exitCh \in Seq(Containers \X Statuses)
    BY <1>0 DEF TypeOK
  <2>3. /\ \A i \in DOMAIN exitCh : exitCh[i][1] # c
        /\ hc # c
        /\ \A k \in DOMAIN Stream : Stream[k].id # c
    BY <1>0, <2>1 DEF SentInv, StreamSent, TypeOK
  <2> DEFINE n == Len(exitCh) + 1
  <2>4. /\ Len(exitCh) \in Nat /\ DOMAIN exitCh = 1 .. Len(exitCh) /\ DOMAIN exitCh' = 1 .. n
        /\ \A i \in 1 .. Len(exitCh) : exitCh'[i] = exitCh[i]
        /\ exitCh'[n][1] = c
    BY <2>1, <2>2
  <2> HIDE DEF n
  <2>5. \A i \in DOMAIN exitCh' : i = n \/ (i \in DOMAIN exitCh /\ exitCh'[i] = exitCh[i])
    BY <2>4 DEF n
  <2> QED
    BY <2>1, <2>3, <2>4, <2>5 DEF TokenInv
<1>3. CASE ReceiveExit
  <2>1. /\ exitCh # << >> /\ hc' = Head(exitCh)[1] /\ exitCh' = Tail(exitCh)
        /\ exitCh \in Seq(Containers \X Statuses) /\ Stream' = Stream
    BY <1>0, <1>3 DEF ReceiveExit, TypeOK, evVars, Stream
  <2>2. /\ hc' = exitCh[1][1] /\ 1 \in DOMAIN exitCh
        /\ \A i \in DOMAIN exitCh' : i + 1 \in DOMAIN exitCh /\ exitCh'[i] = exitCh[i + 1] /\ i + 1 # 1
        /\ \A i, j \in DOMAIN exitCh' : i + 1 = j + 1 => i = j
    BY <2>1
  <2> QED
    BY <2>1, <2>2 DEF TokenInv
<1>4. CASE FindProcess \/ HandlerKillAll \/ SetExited \/ Forward
  <2>1. exitCh' = exitCh /\ hc' \in {hc, None} /\ Stream' = Stream
    BY <1>0, <1>4, ForwardStream
    DEF FindProcess, HandlerIdle, HandlerKillAll, SetExited, Forward, exitVars, evVars, Stream
  <2>2. /\ \A i \in DOMAIN exitCh : exitCh[i][1] # None
        /\ \A k \in DOMAIN Stream : Stream[k].id # None
    <3>1. exitCh \in Seq(Containers \X Statuses)
      BY <1>0 DEF TypeOK
    <3> QED
      BY <1>0, <3>1, StreamType
  <2> QED
    BY <2>1, <2>2 DEF TokenInv
<1>5. CASE HandleOOM
  <2>1. hc \in Containers /\ UNCHANGED <<exitCh, hc, published>>
    BY <1>0, <1>5 DEF HandleOOM, TypeOK
  <2>2. CASE events' = events
    BY <2>1, <2>2 DEF TokenInv, Stream
  <2>3. CASE send(Event("oom", 0))
    <3>1. Event("oom", 0) \in EventType /\ Event("oom", 0).type = "oom"
      BY <2>1 DEF Event, EventType, Statuses
    <3> QED
      BY <1>0, <2>1, <2>3, <3>1, SendStream, StreamType DEF TokenInv
  <2> QED
    BY <1>5, <2>2, <2>3 DEF HandleOOM
<1>6. CASE SendTaskExit
  <2>1. hc \in Containers /\ hc' = None /\ UNCHANGED <<exitCh, published>> /\ hstatus \in Statuses
    BY <1>0, <1>6 DEF SendTaskExit, HandlerIdle, TypeOK
  <2>2. /\ Event("exit", hstatus) \in EventType /\ send(Event("exit", hstatus))
        /\ Event("exit", hstatus).id = hc
    BY <1>6, <2>1 DEF SendTaskExit, Event, EventType
  <2>3. /\ \A i \in DOMAIN exitCh : exitCh[i][1] # None
        /\ \A k \in DOMAIN Stream : Stream[k].id # None
    <3>1. exitCh \in Seq(Containers \X Statuses)
      BY <1>0 DEF TypeOK
    <3> QED
      BY <1>0, <3>1, StreamType
  <2>4. /\ DOMAIN Stream' = 1 .. Len(Stream) + 1 /\ DOMAIN Stream = 1 .. Len(Stream) /\ Len(Stream) \in Nat
        /\ \A k \in DOMAIN Stream : Stream'[k] = Stream[k]
        /\ Stream'[Len(Stream) + 1].id = hc
    BY <1>0, <2>1, <2>2, SendStream, StreamType
  <2>5. \A k \in DOMAIN Stream' : k = Len(Stream) + 1 \/ (k \in DOMAIN Stream /\ Stream'[k] = Stream[k])
    BY <2>4
  <2>6. hc # None
    BY <2>1
  <2> QED
    BY <2>1, <2>3, <2>4, <2>5, <2>6 DEF TokenInv
<1> QED
  BY <1>1, <1>2, <1>3, <1>4, <1>5, <1>6 DEF Next, Calm, Waiter, Handler

-----------------------------------------------------------------------------
(* How the container ended whose exit is told *)

\* The container is dead, or it outlived the kills K of its exit path and the
\* status on its way is internalErrorCode.
Ended(c, s, K) == Dead(c) \/ (K \subseteq outlived[c] /\ s = InternalError)
BothKills      == {"wait", "handler"}

\* On its way an exit has met the kill of the goroutine that waited and, from
\* SetExited on, the kill of checkProcesses.
WaiterEnd ==
    \A c \in Containers : waiter[c] = "reaped" => Ended(c, wcode[c], {"wait"})
QueueEnd ==
    \A i \in DOMAIN exitCh : Ended(exitCh[i][1], exitCh[i][2], {"wait"})
HandlerEnd ==
    /\ hc # None => Ended(hc, hstatus, {"wait"})
    /\ hpc \in {"setexited", "oom", "exit"} => Ended(hc, hstatus, BothKills)
StreamEnd ==
    \A k \in DOMAIN Stream : Stream[k].type = "exit" =>
        Ended(Stream[k].id, Stream[k].status, BothKills)
EndInv == WaiterEnd /\ QueueEnd /\ HandlerEnd /\ StreamEnd

\* The kill on the way of an exit leaves the container dead, or it outlived it.
LEMMA OnExitEnds ==
    ASSUME TypeOK, NEW c \in Containers, NEW by, killOnExit(c, by)
    PROVE  /\ rt'[c] \in {"stopped", "absent"} \/ by \in outlived'[c]
           /\ \A d \in Containers : outlived[d] \subseteq outlived'[d]
BY DEF TypeOK, killOnExit

\* A launched container that is dead stays so, and what it outlived is kept.
LEMMA EndKept ==
    ASSUME TypeOK, CoreType, Rest, [Next]_vars, NEW c \in Containers, waiter[c] # "none"
    PROVE  (Dead(c) => Dead(c)') /\ outlived[c] \subseteq outlived'[c]
<1> USE DEF CoreType, Dead, endVars
<1>0. initState[c] # "none"
  BY DEF Rest, RuntimeInv
<1>1. ASSUME NEW t \in Threads, NEW d \in Containers, Begin(t, d)
      PROVE  UNCHANGED <<rt, outlived>>
  BY <1>1 DEF Begin, CreateLock, CallStart, CallRestore, CallDelete, CallKill, CallState,
     CallWait, CallCheckpoint, Call
<1>2. ASSUME NEW t \in Threads, CreateFail(t) \/ CreateOk(t)
      PROVE  outlived' = outlived /\ (Dead(c) => Dead(c)')
  <2>1. /\ pc[t] = "create" /\ on[t] \in Containers /\ outlived' = outlived
        /\ rt' = rt \/ rt' = [rt EXCEPT ![on[t]] = "created"]
    BY <1>2 DEF CreateFail, CreateOk, InitCreateErr, runscCreate
  <2>2. on[t] # c
    BY <1>0, <2>1 DEF Rest, PhaseInv
  <2> QED
    BY <2>1, <2>2
<1>3. ASSUME NEW t \in Threads, Launch(t) \/ LaunchFail(t)
      PROVE  outlived' = outlived /\ (Dead(c) => Dead(c)')
  BY <1>3 DEF Launch, LaunchFail, runscStart
<1>4. ASSUME NEW t \in Threads, \/ LaunchDone(t) \/ KillStopped(t) \/ KillStateErr(t)
                               \/ KillRetry(t) \/ Acquire(t) \/ CheckpointDone(t)
      PROVE  UNCHANGED <<rt, outlived>>
  BY <1>4 DEF LaunchDone, KillStopped, KillStateErr, KillRetry, Acquire, StartLock, DeleteLock,
     KillLock, StateRead, Remove, WaitUnblock, WaitRead, CheckpointDone
<1>5. ASSUME NEW t \in Threads, DeleteKill(t) \/ KillOk(t)
      PROVE  outlived' = outlived /\ (Dead(c) => Dead(c)')
  <2>1. on[t] \in Containers /\ outlived' = outlived /\ (rt' = rt \/ rt' = Stop(on[t]))
    BY <1>5 DEF DeleteKill, KillOk, killAllLocked
  <2> QED
    BY <2>1, StopFacts
<1>6. ASSUME NEW t \in Threads, DeleteRun(t) \/ DeleteErr(t)
      PROVE  outlived' = outlived /\ (Dead(c) => Dead(c)')
  <2>1. on[t] \in Containers /\ outlived' = outlived /\ (rt' = rt \/ runscDelete(on[t]))
    BY <1>6 DEF DeleteRun, DeleteErr
  <2> QED
    BY <2>1, StopFacts DEF runscDelete
<1>7. ASSUME NEW d \in Containers, Waiter(d) \/ ProcessExit(d)
      PROVE  outlived[c] \subseteq outlived'[c] /\ (Dead(c) => Dead(c)')
  <2>1. CASE ReapErr(d)
    BY <2>1, StopFacts, OnExitEnds DEF ReapErr, killOnExit, killAllLocked
  <2>2. CASE ~ReapErr(d)
    BY <1>7, <2>2, StopFacts DEF Waiter, Reap, SendExit, ProcessExit
  <2> QED
    BY <2>1, <2>2
<1>8. CASE HandlerKillAll
  <2>1. hc \in Containers
    BY <1>8 DEF HandlerKillAll, TypeOK
  <2> QED
    BY <1>8, <2>1, StopFacts, OnExitEnds DEF HandlerKillAll, killOnExit, killAllLocked
<1>9. CASE (Handler /\ ~HandlerKillAll) \/ Forward \/ UNCHANGED vars
  BY <1>9 DEF Handler, ReceiveExit, FindProcess, SetExited, HandleOOM, SendTaskExit, Forward, vars
<1>10. CASE OOMKill
  BY <1>10, StopFacts, RootAssumption DEF OOMKill
<1> QED
  BY <1>1, <1>2, <1>3, <1>4, <1>5, <1>6, <1>7, <1>8, <1>9, <1>10 DEF Next, Serve

LEMMA EndStep ==
    ASSUME SafetyInv, EndInv, [Next]_vars
    PROVE  EndInv'
<1>0. TypeOK /\ CoreType /\ Rest /\ StreamSent /\ SentInv
  BY TypeCore, StreamIsSent DEF SafetyInv, Rest
<1>1. \A c \in Containers : waiter[c] # "none" =>
         /\ rt[c] \in {"stopped", "absent"} => rt'[c] \in {"stopped", "absent"}
         /\ outlived[c] \subseteq outlived'[c]
  BY <1>0, EndKept DEF Dead
<1>2. /\ \A i \in DOMAIN exitCh : exitCh[i][1] \in Containers
      /\ hc # None => hc \in Containers
      /\ \A k \in DOMAIN Stream : Stream[k].id \in Containers
      /\ exitCh \in Seq(Containers \X Statuses)
  <2>1. exitCh \in Seq(Containers \X Statuses)
    BY <1>0 DEF TypeOK
  <2> QED
    BY <1>0, <2>1, StreamType DEF TypeOK
<1> USE DEF Ended, Dead, BothKills
\* Where a container and its exit are left alone.
<1>3. ASSUME exitCh' = exitCh
      PROVE  QueueEnd'
  BY <1>0, <1>1, <1>2, <1>3 DEF EndInv, QueueEnd, SentInv
<1>4. ASSUME hc' = hc, hstatus' = hstatus, hpc' = hpc
      PROVE  HandlerEnd'
  <2>1. hc # None => hc \in Containers /\ waiter[hc] # "none"
    BY <1>0, <1>2 DEF SentInv
  <2>2. hpc \in {"setexited", "oom", "exit"} => hc # None
    BY <1>0 DEF TypeOK
  <2>3. hc # None => Ended(hc, hstatus, {"wait"})'
    BY <1>1, <1>4, <2>1 DEF EndInv, HandlerEnd
  <2>4. hpc \in {"setexited", "oom", "exit"} => Ended(hc, hstatus, BothKills)'
    BY <1>1, <1>4, <2>1, <2>2 DEF EndInv, HandlerEnd
  <2> QED
    BY <1>4, <2>3, <2>4 DEF HandlerEnd
<1>5. ASSUME Stream' = Stream
      PROVE  StreamEnd'
  BY <1>0, <1>1, <1>2, <1>5 DEF EndInv, StreamEnd, StreamSent
<1>6. ASSUME \A c \in Containers : waiter'[c] = "reaped" => waiter[c] = "reaped" /\ wcode'[c] = wcode[c]
      PROVE  WaiterEnd'
  BY <1>1, <1>6 DEF EndInv, WaiterEnd
<1>7. CASE Calm
  <2>1. QueueEnd' /\ HandlerEnd' /\ StreamEnd'
    BY <1>3, <1>4, <1>5, <1>7, CalmFrame
  <2>2. ASSUME NEW c \in Containers, Reap(c)
        PROVE  WaiterEnd'
    <3>1. /\ waiter' = [waiter EXCEPT ![c] = "reaped"] /\ rt[c] = "stopped" /\ rt' = rt
          /\ outlived' = outlived /\ waiter \in [Containers -> {"none", "waiting", "reaped", "sent"}]
      BY <1>0, <2>2 DEF Reap, CoreType, endVars
    <3>2. \A d \in Containers \ {c} : wcode'[d] = wcode[d]
      BY <1>0, <2>2 DEF Reap, TypeOK
    <3> QED
      BY <3>1, <3>2 DEF EndInv, WaiterEnd
  <2>3. ASSUME NEW c \in Containers, ReapErr(c)
        PROVE  WaiterEnd'
    <3>1. /\ waiter' = [waiter EXCEPT ![c] = "reaped"] /\ wcode' = [wcode EXCEPT ![c] = InternalError]
          /\ waiter \in [Containers -> {"none", "waiting", "reaped", "sent"}]
          /\ wcode \in [Containers -> Statuses]
      BY <1>0, <2>3 DEF ReapErr, TypeOK
    <3>2. rt'[c] \in {"stopped", "absent"} \/ "wait" \in outlived'[c]
      BY <1>0, <2>3, OnExitEnds DEF ReapErr
    <3> QED
      BY <1>1, <3>1, <3>2 DEF EndInv, WaiterEnd
  <2>4. CASE ~\E c \in Containers : Reap(c) \/ ReapErr(c)
    <3>1. wcode' = wcode
      BY <1>7, <2>4 DEF Calm, Begin, CreateLock, CallStart, CallRestore, CallDelete, CallKill,
         CallState, CallWait, CallCheckpoint, Call, Serve, CreateFail, CreateOk, Launch, LaunchDone,
         LaunchFail, DeleteKill, DeleteRun, DeleteErr, KillStopped, KillStateErr, KillOk, KillRetry,
         Acquire, StartLock, DeleteLock, KillLock, StateRead, Remove, WaitUnblock, WaitRead,
         CheckpointDone, ProcessExit, OOMKill, vars, waitVars
    <3>2. \A c \in Containers : waiter'[c] = "reaped" => waiter[c] = "reaped"
      <4>1. CASE waiter' = waiter
        BY <4>1
      <4>2. ASSUME NEW t \in Threads, Launch(t)
            PROVE  \A c \in Containers : waiter'[c] = "reaped" => waiter[c] = "reaped"
        BY <1>0, <4>2 DEF Launch, CoreType
      <4>3. waiter' = waiter \/ \E t \in Threads : Launch(t)
        BY <1>7, <2>4 DEF Calm, Begin, CreateLock, CallStart, CallRestore, CallDelete, CallKill,
           CallState, CallWait, CallCheckpoint, Call, Serve, CreateFail, CreateOk, LaunchDone,
           LaunchFail, DeleteKill, DeleteRun, DeleteErr, KillStopped, KillStateErr, KillOk, KillRetry,
           Acquire, StartLock, DeleteLock, KillLock, StateRead, Remove, WaitUnblock, WaitRead,
           CheckpointDone, ProcessExit, OOMKill, vars, waitVars
      <4> QED
        BY <4>1, <4>2, <4>3
    <3> QED
      BY <1>6, <2>1, <3>1, <3>2 DEF EndInv
  <2> QED
    BY <2>1, <2>2, <2>3, <2>4 DEF EndInv
<1>8. ASSUME NEW c \in Containers, SendExit(c)
      PROVE  EndInv'
  <2>1. /\ waiter[c] = "reaped" /\ exitCh' = Append(exitCh, <<c, wcode[c]>>)
        /\ waiter' = [waiter EXCEPT ![c] = "sent"] /\ wcode' = [wcode EXCEPT ![c] = 0]
        /\ waiter \in [Containers -> {"none", "waiting", "reaped", "sent"}]
        /\ wcode \in [Containers -> Statuses]
        /\ UNCHANGED <<rt, outlived, hc, hpc, hstatus>> /\ Stream' = Stream
    BY <1>0, <1>8 DEF SendExit, TypeOK, evVars, endVars, Stream
  <2>2. WaiterEnd'
    BY <1>6, <2>1
  <2>3. \A i \in DOMAIN exitCh' : \/ exitCh'[i] = <<c, wcode[c]>>
                                  \/ (i \in DOMAIN exitCh /\ exitCh'[i] = exitCh[i])
    BY <1>2, <2>1
  <2>4. QueueEnd'
    BY <2>1, <2>3 DEF EndInv, QueueEnd, WaiterEnd
  <2> QED
    BY <1>4, <1>5, <2>1, <2>2, <2>4 DEF EndInv
<1>9. CASE ReceiveExit
  <2>1. /\ exitCh # << >> /\ hc' = Head(exitCh)[1] /\ hstatus' = Head(exitCh)[2]
        /\ exitCh' = Tail(exitCh) /\ hpc' = "find"
        /\ UNCHANGED <<rt, outlived, waiter, wcode>> /\ Stream' = Stream
    BY <1>9 DEF ReceiveExit, evVars, waitVars, endVars, Stream
  <2>2. /\ hc' = exitCh[1][1] /\ hstatus' = exitCh[1][2] /\ 1 \in DOMAIN exitCh
        /\ \A i \in DOMAIN exitCh' : i + 1 \in DOMAIN exitCh /\ exitCh'[i] = exitCh[i + 1]
    BY <1>2, <2>1
  <2>3. QueueEnd' /\ HandlerEnd'
    BY <2>1, <2>2 DEF EndInv, QueueEnd, HandlerEnd
  <2> QED
    BY <1>5, <1>6, <2>1, <2>3 DEF EndInv
<1>10. CASE HandlerKillAll
  <2>1. /\ hc \in Containers /\ hc' = hc /\ hstatus' = hstatus /\ hpc' = "setexited"
        /\ UNCHANGED <<exitCh, waiter, wcode>> /\ Stream' = Stream /\ killOnExit(hc, "handler")
    BY <1>0, <1>10 DEF HandlerKillAll, TypeOK, evVars, waitVars, Stream
  <2>2. rt'[hc] \in {"stopped", "absent"} \/ "handler" \in outlived'[hc]
    BY <1>0, <2>1, OnExitEnds
  <2>3. HandlerEnd'
    BY <1>0, <1>1, <2>1, <2>2 DEF EndInv, HandlerEnd, SentInv
  <2> QED
    BY <1>3, <1>5, <1>6, <2>1, <2>3 DEF EndInv
<1>11. CASE FindProcess \/ SetExited
  <2>1. /\ UNCHANGED <<rt, outlived, exitCh, waiter, wcode>> /\ Stream' = Stream
        /\ \/ hc' = None /\ hpc' = "idle"
           \/ hc' = hc /\ hstatus' = hstatus /\ hpc' = "killall"
           \/ hc' = hc /\ hstatus' = hstatus /\ hpc = "setexited" /\ hpc' = "oom"
    BY <1>11 DEF FindProcess, SetExited, HandlerIdle, evVars, waitVars, endVars, Stream
  <2>2. HandlerEnd'
    BY <2>1 DEF EndInv, HandlerEnd
  <2> QED
    BY <1>3, <1>5, <1>6, <2>1, <2>2 DEF EndInv
<1>12. CASE HandleOOM
  <2>1. /\ hc \in Containers /\ hc' = hc /\ hstatus' = hstatus /\ hpc = "oom" /\ hpc' = "exit"
        /\ UNCHANGED <<rt, outlived, exitCh, waiter, wcode, published>>
    BY <1>0, <1>12 DEF HandleOOM, TypeOK, waitVars, endVars
  <2>2. HandlerEnd'
    BY <2>1 DEF EndInv, HandlerEnd
  <2>3. StreamEnd'
    <3>1. CASE events' = events
      BY <1>5, <2>1, <3>1 DEF Stream
    <3>2. CASE send(Event("oom", 0))
      <4>1. Event("oom", 0) \in EventType /\ Event("oom", 0).type = "oom"
        BY <2>1 DEF Event, EventType, Statuses
      <4>2. /\ DOMAIN Stream' = 1 .. Len(Stream) + 1 /\ DOMAIN Stream = 1 .. Len(Stream) /\ Len(Stream) \in Nat
            /\ \A k \in DOMAIN Stream : Stream'[k] = Stream[k]
            /\ Stream'[Len(Stream) + 1].type = "oom"
        BY <1>0, <2>1, <3>2, <4>1, SendStream, StreamType
      <4>3. \A k \in DOMAIN Stream' : k = Len(Stream) + 1 \/ (k \in DOMAIN Stream /\ Stream'[k] = Stream[k])
        BY <4>2
      <4> QED
        BY <2>1, <4>2, <4>3 DEF EndInv, StreamEnd
    <3> QED
      BY <1>12, <3>1, <3>2 DEF HandleOOM
  <2> QED
    BY <1>3, <1>6, <2>1, <2>2, <2>3 DEF EndInv
<1>13. CASE SendTaskExit
  <2>1. /\ hc \in Containers /\ hc' = None /\ hpc = "exit" /\ hpc' = "idle" /\ hstatus \in Statuses
        /\ UNCHANGED <<rt, outlived, exitCh, waiter, wcode, published>>
    BY <1>0, <1>13 DEF SendTaskExit, HandlerIdle, TypeOK, waitVars, endVars
  <2>2. /\ Event("exit", hstatus) \in EventType /\ send(Event("exit", hstatus))
        /\ Event("exit", hstatus).id = hc /\ Event("exit", hstatus).status = hstatus
    BY <1>13, <2>1 DEF SendTaskExit, Event, EventType
  <2>3. /\ DOMAIN Stream' = 1 .. Len(Stream) + 1 /\ DOMAIN Stream = 1 .. Len(Stream) /\ Len(Stream) \in Nat
        /\ \A k \in DOMAIN Stream : Stream'[k] = Stream[k]
        /\ Stream'[Len(Stream) + 1].id = hc /\ Stream'[Len(Stream) + 1].status = hstatus
    BY <1>0, <2>1, <2>2, SendStream, StreamType
  <2>4. \A k \in DOMAIN Stream' : k = Len(Stream) + 1 \/ (k \in DOMAIN Stream /\ Stream'[k] = Stream[k])
    BY <2>3
  <2>5. StreamEnd'
    BY <2>1, <2>3, <2>4 DEF EndInv, StreamEnd, HandlerEnd
  <2>6. HandlerEnd'
    BY <2>1 DEF HandlerEnd
  <2> QED
    BY <1>3, <1>6, <2>1, <2>5, <2>6 DEF EndInv
<1>14. CASE Forward
  <2>1. UNCHANGED <<exitCh, hc, hstatus, hpc, waiter, wcode>>
    BY <1>14 DEF Forward, exitVars, waitVars
  <2> QED
    BY <1>0, <1>3, <1>4, <1>5, <1>6, <1>14, <2>1, ForwardStream DEF EndInv
<1> QED
  BY <1>7, <1>8, <1>9, <1>10, <1>11, <1>12, <1>13, <1>14 DEF Next, Calm, Waiter, Handler

-----------------------------------------------------------------------------
(* Start holds p.mu over its launch *)

LEMMA LaunchStep ==
    ASSUME CoreType, Rest, LaunchInv, [Next]_vars
    PROVE  LaunchInv'
<1> USE DEF CoreType, Rest, LockInv, PhaseInv, RuntimeInv, LaunchInv, Dead, LockedPCs,
        svcVars, evVars, initVars, waitVars, exitVars, rpcVars, Return, Goto, Lock, Unlock
<1>1. ASSUME NEW t \in Threads, CreateFail(t) \/ CreateOk(t)
      PROVE  LaunchInv'
  BY <1>1 DEF CreateFail, CreateOk
<1>2. ASSUME NEW t \in Threads, Launch(t)
      PROVE  LaunchInv'
  BY <1>2 DEF Launch
<1>3. ASSUME NEW t \in Threads, LaunchDone(t)
      PROVE  LaunchInv'
  BY <1>3 DEF LaunchDone
<1>4. ASSUME NEW t \in Threads, LaunchFail(t)
      PROVE  LaunchInv'
  BY <1>4 DEF LaunchFail
<1>5. ASSUME NEW t \in Threads, DeleteKill(t) \/ DeleteRun(t) \/ DeleteErr(t)
      PROVE  LaunchInv'
  BY <1>5 DEF DeleteKill, DeleteRun, DeleteErr
<1>6. ASSUME NEW t \in Threads, KillStopped(t) \/ KillStateErr(t) \/ KillOk(t) \/ KillRetry(t)
      PROVE  LaunchInv'
  BY <1>6 DEF KillStopped, KillStateErr, KillOk, KillRetry
<1>7. ASSUME NEW t \in Threads, StartLock(t) \/ DeleteLock(t) \/ KillLock(t)
      PROVE  LaunchInv'
  <2>1. CASE StartLock(t)
    BY <2>1 DEF StartLock
  <2>2. CASE DeleteLock(t)
    BY <2>2 DEF DeleteLock
  <2>3. CASE KillLock(t)
    BY <2>3 DEF KillLock
  <2> QED
    BY <1>7, <2>1, <2>2, <2>3
<1>8. ASSUME NEW t \in Threads, \/ StateRead(t) \/ Remove(t) \/ WaitUnblock(t) \/ WaitRead(t)
                               \/ CheckpointDone(t)
      PROVE  LaunchInv'
  BY <1>8 DEF StateRead, Remove, WaitUnblock, WaitRead, CheckpointDone
<1>9. ASSUME NEW t \in Threads, NEW c \in Containers, Begin(t, c)
      PROVE  LaunchInv'
  <2>1. CASE CreateLock(t, c)
    BY <2>1 DEF CreateLock
  <2>2. ASSUME NEW l, NEW m, Call(t, c, l, m)
        PROVE  LaunchInv'
    BY <2>2 DEF Call
  <2> QED
    BY <1>9, <2>1, <2>2 DEF Begin, CallStart, CallRestore, CallDelete, CallKill, CallState,
       CallWait, CallCheckpoint
<1>10. ASSUME NEW c \in Containers, Waiter(c) \/ ProcessExit(c)
       PROVE  LaunchInv'
  BY <1>10 DEF Waiter, Reap, ReapErr, SendExit, ProcessExit
<1>11. CASE Handler \/ Forward
  <2>1. initState' = initState \/ (hpc = "setexited" /\ initState' = [initState EXCEPT ![hc] = "stopped"])
    BY <1>11 DEF Handler, ReceiveExit, FindProcess, HandlerKillAll, SetExited, RecordExit, HandleOOM,
       SendTaskExit, Forward
  <2> QED
    BY <1>11, <2>1, HandlerFrame
<1>12. CASE OOMKill \/ UNCHANGED vars
  BY <1>12 DEF OOMKill, vars
<1> QED
  BY <1>1, <1>2, <1>3, <1>4, <1>5, <1>6, <1>7, <1>8, <1>9, <1>10, <1>11, <1>12 DEF Next, Serve, Acquire

-----------------------------------------------------------------------------
(* One status *)

\* Calm steps record nothing about a container that was launched.
LEMMA StatusCalm ==
    ASSUME SafetyInv, LaunchInv, StatusInv, Calm
    PROVE  StatusInv'
<1>0. CoreType /\ Rest /\ StreamSent /\ SentInv /\ TypeOK
  BY TypeCore, StreamIsSent DEF SafetyInv, Rest
<1>1. UNCHANGED <<exitCh, hpc, hc, hstatus>> /\ Stream' = Stream
  BY CalmFrame
<1>2. \A c \in Containers : \/ waiter'[c] = waiter[c]
                            \/ waiter[c] # "sent" /\ waiter'[c] # "none" /\ ~exited[c]
  BY <1>0, CalmWaiter
<1>3. CASE UNCHANGED <<exited, status>>
  BY <1>1, <1>2, <1>3 DEF StatusInv
<1>4. ASSUME NEW c \in Containers, waiter[c] = "none", waiter' = waiter, setExited(c, InternalError)
      PROVE  StatusInv'
  <2>1. /\ exited' = [exited EXCEPT ![c] = TRUE] /\ exited \in [Containers -> BOOLEAN]
        /\ \A d \in Containers \ {c} : status'[d] = status[d]
    BY <1>0, <1>4 DEF setExited, TypeOK
  <2>2. hc # c /\ \A k \in DOMAIN Stream : Stream[k].id \in Containers \ {c}
    BY <1>0, <1>4, StreamType DEF SentInv, StreamSent
  <2>3. hpc \in {"oom", "exit"} => hc \in Containers
    BY <1>0 DEF TypeOK
  <2> QED
    BY <1>1, <1>4, <2>1, <2>2, <2>3 DEF StatusInv
<1> QED
  BY <1>0, <1>3, <1>4, CalmExited

LEMMA StatusStep ==
    ASSUME SafetyInv, TokenInv, LaunchInv, StatusInv, [Next]_vars
    PROVE  StatusInv'
<1>0. CoreType /\ Rest /\ StreamSent /\ SentInv /\ TypeOK
  BY TypeCore, StreamIsSent DEF SafetyInv, Rest
<1>s. \A k \in DOMAIN Stream : Stream[k].id \in Containers
  BY <1>0, StreamType
<1>1. CASE Calm
  BY <1>1, StatusCalm
<1>2. ASSUME NEW c \in Containers, SendExit(c)
      PROVE  StatusInv'
  <2>1. /\ waiter[c] = "reaped" /\ exitCh' = Append(exitCh, <<c, wcode[c]>>)
        /\ waiter' = [waiter EXCEPT ![c] = "sent"]
        /\ UNCHANGED <<hc, hpc, hstatus, exited, status>> /\ Stream' = Stream
    BY <1>2 DEF SendExit, evVars, initVars, Stream
  <2>2. exitCh \in Seq(Containers \X Statuses) /\ ~exited[c]
    BY <1>0, <2>1 DEF TypeOK, StatusInv
  <2>3. \A i \in DOMAIN exitCh' : exitCh'[i][1] = c \/ (i \in DOMAIN exitCh /\ exitCh'[i] = exitCh[i])
    BY <2>1, <2>2
  <2> QED
    BY <1>0, <2>1, <2>2, <2>3 DEF StatusInv, CoreType
<1>3. CASE ReceiveExit
  <2>1. /\ exitCh # << >> /\ hc' = Head(exitCh)[1] /\ hpc' = "find" /\ exitCh' = Tail(exitCh)
        /\ exitCh \in Seq(Containers \X Statuses)
        /\ UNCHANGED <<exited, status, waiter>> /\ Stream' = Stream
    BY <1>0, <1>3 DEF ReceiveExit, TypeOK, evVars, initVars, waitVars, Stream
  <2>2. /\ hc' = exitCh[1][1] /\ 1 \in DOMAIN exitCh
        /\ \A i \in DOMAIN exitCh' : i + 1 \in DOMAIN exitCh /\ exitCh'[i] = exitCh[i + 1]
    BY <2>1
  <2> QED
    BY <2>1, <2>2 DEF StatusInv
<1>4. CASE FindProcess \/ HandlerKillAll \/ Forward
  <2>1. /\ UNCHANGED <<exitCh, exited, status, waiter>> /\ Stream' = Stream
        /\ \/ UNCHANGED <<hpc, hc, hstatus>>
           \/ hpc \in {"find", "killall"} /\ hpc' \notin {"oom", "exit"} /\ hc' \in {hc, None}
    BY <1>0, <1>4, ForwardStream
    DEF FindProcess, HandlerIdle, HandlerKillAll, Forward, exitVars, evVars, initVars, waitVars, Stream
  <2> QED
    BY <2>1 DEF StatusInv
<1>5. CASE SetExited
  <2>1. /\ hc \in Containers /\ hpc = "setexited" /\ hpc' = "oom"
        /\ UNCHANGED <<exitCh, hc, hstatus, waiter>> /\ Stream' = Stream
    BY <1>0, <1>5 DEF SetExited, TypeOK, evVars, waitVars, Stream
  <2>2. ~exited[hc] /\ waiter[hc] = "sent"
    BY <1>0, <2>1 DEF StatusInv, SentInv
  <2>3. CASE UNCHANGED <<exited, status>>
    BY <2>1, <2>2, <2>3 DEF StatusInv
  <2>4. CASE setExited(hc, hstatus)
    <3>1. /\ exited' = [exited EXCEPT ![hc] = TRUE] /\ status' = [status EXCEPT ![hc] = hstatus]
          /\ exited \in [Containers -> BOOLEAN] /\ status \in [Containers -> Statuses]
      BY <1>0, <2>2, <2>4 DEF setExited, TypeOK
    <3> QED
      BY <1>s, <2>1, <2>2, <3>1 DEF StatusInv, TokenInv
  <2> QED
    BY <1>5, <2>3, <2>4 DEF SetExited, RecordExit
<1>6. CASE HandleOOM
  <2>1. /\ hc \in Containers /\ hpc = "oom" /\ hpc' = "exit"
        /\ UNCHANGED <<exitCh, hc, hstatus, published, exited, status, waiter>>
    BY <1>0, <1>6 DEF HandleOOM, TypeOK, initVars, waitVars
  <2>2. CASE events' = events
    BY <2>1, <2>2 DEF StatusInv, Stream
  <2>3. CASE send(Event("oom", 0))
    <3>1. Event("oom", 0) \in EventType /\ Event("oom", 0).type = "oom"
      BY <2>1 DEF Event, EventType, Statuses
    <3> QED
      BY <1>0, <2>1, <2>3, <3>1, SendStream, StreamType DEF StatusInv
  <2> QED
    BY <1>6, <2>2, <2>3 DEF HandleOOM
<1>7. CASE SendTaskExit
  <2>1. /\ hc \in Containers /\ hpc = "exit" /\ hc' = None /\ hpc' = "idle" /\ hstatus \in Statuses
        /\ UNCHANGED <<exitCh, published, exited, status, waiter>>
    BY <1>0, <1>7 DEF SendTaskExit, HandlerIdle, TypeOK, initVars, waitVars
  <2>2. /\ Event("exit", hstatus) \in EventType /\ send(Event("exit", hstatus))
        /\ Event("exit", hstatus).id = hc /\ Event("exit", hstatus).status = hstatus
    BY <1>7, <2>1 DEF SendTaskExit, Event, EventType
  <2>3. /\ DOMAIN Stream' = 1 .. Len(Stream) + 1 /\ DOMAIN Stream = 1 .. Len(Stream) /\ Len(Stream) \in Nat
        /\ \A k \in DOMAIN Stream : Stream'[k] = Stream[k]
        /\ Stream'[Len(Stream) + 1].id = hc /\ Stream'[Len(Stream) + 1].status = hstatus
    BY <1>0, <2>1, <2>2, SendStream, StreamType
  <2>4. \A k \in DOMAIN Stream' : k = Len(Stream) + 1 \/ (k \in DOMAIN Stream /\ Stream'[k] = Stream[k])
    BY <2>3
  <2> QED
    BY <2>1, <2>3, <2>4 DEF StatusInv
<1> QED
  BY <1>1, <1>2, <1>3, <1>4, <1>5, <1>6, <1>7 DEF Next, Calm, Waiter, Handler

\* Once a status is recorded it stays.
LEMMA StatusKept ==
    ASSUME SafetyInv, LaunchInv, [Next]_vars, NEW c \in Containers, exited[c]
    PROVE  exited'[c] /\ status'[c] = status[c]
<1>0. CoreType /\ Rest /\ TypeOK
  BY TypeCore DEF SafetyInv, Rest
<1>1. \/ UNCHANGED <<exited, status>>
      \/ \E d \in Containers, v \in Statuses : setExited(d, v)
  <2>1. CASE Calm
    <3>1. InternalError \in Statuses
      BY DEF Statuses
    <3> QED
      BY <1>0, <2>1, <3>1, CalmExited
  <2>2. CASE SetExited
    BY <1>0, <2>2 DEF SetExited, RecordExit, TypeOK
  <2>3. CASE (\E d \in Containers : SendExit(d)) \/ Forward \/ (Handler /\ ~SetExited)
    BY <2>3 DEF SendExit, Forward, Handler, ReceiveExit, FindProcess, HandlerKillAll, HandleOOM,
       SendTaskExit, initVars
  <2> QED
    BY <2>1, <2>2, <2>3 DEF Next, Calm, Waiter
<1> QED
  BY <1>0, <1>1 DEF setExited, TypeOK

LEMMA WaitStep ==
    ASSUME SafetyInv, LaunchInv, WaitInv, [Next]_vars
    PROVE  WaitInv'
<1>0. CoreType /\ TypeOK
  BY TypeCore DEF SafetyInv
<1>1. \A c \in Containers : exited[c] => exited'[c] /\ status'[c] = status[c]
  BY StatusKept
<1>2. \A c \in Containers :
        waitReply'[c] \subseteq {status'[c]} /\ (waitReply'[c] # {} => exited'[c])
  <2>1. CASE waitReply' = waitReply
    BY <1>1, <2>1 DEF WaitInv
  <2>2. ASSUME NEW t \in Threads, WaitRead(t)
        PROVE  \A c \in Containers :
                 waitReply'[c] \subseteq {status'[c]} /\ (waitReply'[c] # {} => exited'[c])
    <3>1. /\ waitReply' = [waitReply EXCEPT ![on[t]] = @ \cup {status[on[t]]}] /\ on[t] \in Containers
          /\ waitReply \in [Containers -> SUBSET Statuses]
      BY <1>0, <2>2 DEF WaitRead, CoreType, TypeOK
    <3>2. exited[on[t]]
      BY <2>2 DEF WaitRead, WaitInv
    <3> QED
      BY <1>1, <3>1, <3>2 DEF WaitInv
  <2>3. waitReply' = waitReply \/ \E t \in Threads : WaitRead(t)
    <3>1. ASSUME NEW t \in Threads, NEW c \in Containers, Begin(t, c)
          PROVE  waitReply' = waitReply
      BY <3>1 DEF Begin, CreateLock, CallStart, CallRestore, CallDelete, CallKill, CallState,
         CallWait, CallCheckpoint, Call
    <3>2. ASSUME NEW t \in Threads, Serve(t)
          PROVE  waitReply' = waitReply
      BY <3>2 DEF Serve, CreateFail, CreateOk, Launch, LaunchDone, LaunchFail, DeleteKill, DeleteRun,
         DeleteErr, KillStopped, KillStateErr, KillOk, KillRetry
    <3>3. ASSUME NEW t \in Threads, (Acquire(t) /\ ~WaitRead(t)) \/ CheckpointDone(t)
          PROVE  waitReply' = waitReply
      BY <3>3 DEF Acquire, StartLock, DeleteLock, KillLock, StateRead, Remove, WaitUnblock,
         CheckpointDone
    <3>4. ASSUME NEW c \in Containers, Waiter(c) \/ ProcessExit(c)
          PROVE  waitReply' = waitReply
      BY <3>4 DEF Waiter, Reap, ReapErr, SendExit, ProcessExit, rpcVars
    <3>5. CASE OOMKill \/ UNCHANGED vars
      BY <3>5 DEF OOMKill, vars, rpcVars
    <3> QED
      BY <3>1, <3>2, <3>3, <3>4, <3>5, HandlerFrame DEF Next
  <2> QED
    BY <2>1, <2>2, <2>3
<1>3. ASSUME NEW t \in Threads, pc'[t] = "waitread"
      PROVE  exited'[on'[t]]
  <2> USE DEF CoreType, rpcVars, Return, Goto
  <2>1. (pc[t] = "waitread" \/ (pc[t] = "wait" /\ exited[on[t]])) /\ on'[t] = on[t]
    <3>1. ASSUME NEW u \in Threads, NEW c \in Containers, Begin(u, c)
          PROVE  pc'[t] = pc[t] /\ on'[t] = on[t]
      <4>1. CASE CreateLock(u, c)
        BY <1>0, <1>3, <4>1 DEF CreateLock
      <4>2. ASSUME NEW l \in Calls, NEW m, Call(u, c, l, m)
            PROVE  pc'[t] = pc[t] /\ on'[t] = on[t]
        BY <1>0, <1>3, <4>2 DEF Call
      <4>3. CreateLock(u, c) \/ \E l \in Calls : \E m : Call(u, c, l, m)
        BY <3>1 DEF Begin, CallStart, CallRestore, CallDelete, CallKill, CallState,
           CallWait, CallCheckpoint, Call
      <4> QED
        BY <4>1, <4>2, <4>3
    <3>2. ASSUME NEW u \in Threads, Serve(u)
          PROVE  pc'[t] = pc[t] /\ on'[t] = on[t]
      BY <1>0, <1>3, <3>2 DEF Serve, CreateFail, CreateOk, Launch, LaunchDone, LaunchFail, DeleteKill,
         DeleteRun, DeleteErr, KillStopped, KillStateErr, KillOk, KillRetry
    <3>3. ASSUME NEW u \in Threads, (Acquire(u) /\ ~WaitUnblock(u)) \/ CheckpointDone(u)
          PROVE  pc'[t] = pc[t] /\ on'[t] = on[t]
      BY <1>0, <1>3, <3>3 DEF Acquire, StartLock, DeleteLock, KillLock, StateRead, Remove, WaitRead,
         CheckpointDone
    <3>4. ASSUME NEW u \in Threads, WaitUnblock(u)
          PROVE  (pc[t] = "waitread" \/ (pc[t] = "wait" /\ exited[on[t]])) /\ on'[t] = on[t]
      BY <1>0, <1>3, <3>4 DEF WaitUnblock
    <3>5. ASSUME NEW c \in Containers, Waiter(c) \/ ProcessExit(c)
          PROVE  UNCHANGED <<pc, on>>
      BY <3>5 DEF Waiter, Reap, ReapErr, SendExit, ProcessExit
    <3>6. CASE OOMKill \/ UNCHANGED vars
      BY <1>3, <3>6 DEF OOMKill, vars
    <3> QED
      BY <1>3, <3>1, <3>2, <3>3, <3>4, <3>5, <3>6, HandlerFrame DEF Next
  <2>2. on[t] \in Containers /\ exited[on[t]]
    BY <1>0, <2>1 DEF WaitInv
  <2> QED
    BY <1>1, <2>1, <2>2
<1> QED
  BY <1>2, <1>3 DEF WaitInv

-----------------------------------------------------------------------------
(* TaskOOM comes first *)

\* A container joins the OOM poller when it is created, before it can exit,
\* and the kernel's victims are containers the poller still watches.
LEMMA CalmOOM ==
    ASSUME CoreType, Rest, Calm
    PROVE  /\ \A c \in oomIds' : c \in oomIds \/ (c \in Containers /\ waiter[c] = "none")
           /\ oomIds \subseteq oomIds'
           /\ \/ UNCHANGED <<oomed, victims>>
              \/ oomed' /\ victims' \subseteq oomIds
<1> USE DEF svcVars, endVars
<1>1. ASSUME NEW t \in Threads, NEW c \in Containers, Begin(t, c)
      PROVE  UNCHANGED <<oomIds, oomed, victims>>
  BY <1>1 DEF Begin, CreateLock, CallStart, CallRestore, CallDelete, CallKill, CallState,
     CallWait, CallCheckpoint, Call
<1>2. ASSUME NEW t \in Threads, Serve(t), ~CreateOk(t)
      PROVE  UNCHANGED <<oomIds, oomed, victims>>
  BY <1>2 DEF Serve, CreateFail, Launch, LaunchDone, LaunchFail, DeleteKill, DeleteRun,
     DeleteErr, KillStopped, KillStateErr, KillOk, KillRetry
<1>3. ASSUME NEW t \in Threads, CreateOk(t)
      PROVE  /\ oomIds' \in {oomIds, oomIds \cup {on[t]}} /\ UNCHANGED <<oomed, victims>>
             /\ on[t] \in Containers /\ waiter[on[t]] = "none"
  BY <1>3 DEF CreateOk, CoreType, Rest, PhaseInv, RuntimeInv
<1>4. ASSUME NEW t \in Threads, Acquire(t) \/ CheckpointDone(t)
      PROVE  UNCHANGED <<oomIds, oomed, victims>>
  BY <1>4 DEF Acquire, StartLock, DeleteLock, KillLock, StateRead, Remove, WaitUnblock, WaitRead,
     CheckpointDone
<1>5. ASSUME NEW c \in Containers, Reap(c) \/ ReapErr(c) \/ ProcessExit(c)
      PROVE  UNCHANGED <<oomIds, oomed, victims>>
  BY <1>5 DEF Reap, ReapErr, ProcessExit
<1>6. CASE OOMKill
  BY <1>6 DEF OOMKill
<1>7. CASE UNCHANGED vars
  BY <1>7 DEF vars
<1> QED
  BY <1>1, <1>2, <1>3, <1>4, <1>5, <1>6, <1>7 DEF Calm

LEMMA OOMStep ==
    ASSUME SafetyInv, OOMInv, [Next]_vars
    PROVE  OOMInv'
<1>0. CoreType /\ Rest /\ StreamSent /\ SentInv /\ TypeOK
  BY TypeCore, StreamIsSent DEF SafetyInv, Rest
<1>s. DOMAIN Stream = 1 .. Len(Stream) /\ Len(Stream) \in Nat
  BY <1>0, StreamType
<1> USE DEF OOMTold, ExitIn
<1>1. CASE Calm
  <2>1. UNCHANGED <<hpc, hc>> /\ Stream' = Stream
    BY <1>1, CalmFrame
  <2>2. /\ \A c \in oomIds' : c \in oomIds \/ waiter[c] = "none"
        /\ oomIds \subseteq oomIds'
        /\ \/ UNCHANGED <<oomed, victims>>
           \/ oomed' /\ victims' \subseteq oomIds
    BY <1>0, <1>1, CalmOOM
  <2>3. hpc = "exit" => waiter[hc] = "sent"
    BY <1>0 DEF SentInv, TypeOK
  <2>4. \A c \in oomIds : ExitIn(Stream, c) = {}
    BY DEF OOMInv
  <2> QED
    BY <1>0, <2>1, <2>2, <2>3, <2>4 DEF OOMInv, OOMBeforeExit, StreamSent
<1>2. CASE \/ \E c \in Containers : SendExit(c)
           \/ ReceiveExit \/ FindProcess \/ HandlerKillAll \/ SetExited \/ Forward
  <2>1. /\ UNCHANGED <<oomIds, oomed, victims>> /\ Stream' = Stream
        /\ UNCHANGED <<hpc, hc>> \/ hpc' # "exit"
    BY <1>0, <1>2, ForwardStream
    DEF SendExit, ReceiveExit, FindProcess, HandlerIdle, HandlerKillAll, SetExited, Forward,
        svcVars, evVars, exitVars, endVars, Stream
  <2> QED
    BY <2>1 DEF OOMInv, OOMBeforeExit
<1>3. CASE HandleOOM
  <2>1. /\ hc \in Containers /\ hc' = hc /\ oomIds' = oomIds \ {hc}
        /\ UNCHANGED <<oomed, victims, published>>
    BY <1>0, <1>3 DEF HandleOOM, TypeOK, endVars
  <2>2. CASE ~(hc \in oomIds /\ oomed)
    <3>1. Stream' = Stream /\ (hc \in victims => OOMTold(hc))
      BY <1>3, <2>1, <2>2 DEF HandleOOM, Stream, OOMInv
    <3> QED
      BY <2>1, <3>1 DEF OOMInv, OOMBeforeExit
  <2>3. CASE hc \in oomIds /\ oomed
    <3>1. /\ send(Event("oom", 0)) /\ Event("oom", 0) \in EventType
          /\ Event("oom", 0).type = "oom" /\ Event("oom", 0).id = hc
      BY <1>3, <2>1, <2>3 DEF HandleOOM, Event, EventType, Statuses
    <3>2. /\ DOMAIN Stream' = 1 .. Len(Stream) + 1
          /\ \A k \in DOMAIN Stream : Stream'[k] = Stream[k]
          /\ Stream'[Len(Stream) + 1].type = "oom" /\ Stream'[Len(Stream) + 1].id = hc
      BY <1>0, <2>1, <3>1, SendStream
    <3>3. \A k \in DOMAIN Stream' : k = Len(Stream) + 1 \/ (k \in DOMAIN Stream /\ Stream'[k] = Stream[k])
      BY <1>s, <3>2
    <3>4. \A c \in Containers : ExitIn(Stream', c) = ExitIn(Stream, c)
      BY <1>s, <3>2, <3>3
    <3>5. \A c \in victims : OOMTold(c)' \/ c \in oomIds'
      <4>1. ASSUME NEW c \in victims, OOMTold(c)
            PROVE  OOMTold(c)'
        BY <1>s, <3>2, <4>1
      <4>2. OOMTold(hc)'
        <5>1. Len(Stream) + 1 \in DOMAIN Stream'
          BY <1>s, <3>2
        <5> QED
          BY <2>1, <3>2, <5>1
      <4> QED
        BY <2>1, <4>1, <4>2 DEF OOMInv
    <3>6. OOMBeforeExit'
      <4> SUFFICES ASSUME NEW c \in victims', NEW i \in ExitIn(Stream', c)
                   PROVE  \E j \in 1 .. i - 1 : Stream'[j].type = "oom" /\ Stream'[j].id = c
        BY DEF OOMBeforeExit
      <4>1. c \in victims /\ i \in ExitIn(Stream, c)
        BY <2>1, <3>2, <3>3
      <4>2. PICK j \in 1 .. i - 1 : Stream[j].type = "oom" /\ Stream[j].id = c
        BY <4>1 DEF OOMInv, OOMBeforeExit
      <4>3. j \in DOMAIN Stream
        BY <1>s, <4>1, <4>2
      <4> QED
        BY <3>2, <4>2, <4>3
    <3>7. \A k \in DOMAIN Stream' : Stream'[k].type = "exit" => Stream'[k].id \notin oomIds'
      BY <2>1, <3>2, <3>3 DEF OOMInv
    <3> QED
      BY <2>1, <3>5, <3>6, <3>7 DEF OOMInv
  <2> QED
    BY <2>2, <2>3
<1>4. CASE SendTaskExit
  <2>1. /\ hc \in Containers /\ hpc = "exit" /\ hpc' = "idle" /\ hstatus \in Statuses
        /\ UNCHANGED <<oomIds, oomed, victims, published>>
    BY <1>0, <1>4 DEF SendTaskExit, HandlerIdle, TypeOK, svcVars, endVars
  <2>2. /\ Event("exit", hstatus) \in EventType /\ send(Event("exit", hstatus))
        /\ Event("exit", hstatus).id = hc
    BY <1>4, <2>1 DEF SendTaskExit, Event, EventType
  <2>3. /\ DOMAIN Stream' = 1 .. Len(Stream) + 1
        /\ \A k \in DOMAIN Stream : Stream'[k] = Stream[k]
        /\ Stream'[Len(Stream) + 1].id = hc
    BY <1>0, <2>1, <2>2, SendStream
  <2>4. \A k \in DOMAIN Stream' : k = Len(Stream) + 1 \/ (k \in DOMAIN Stream /\ Stream'[k] = Stream[k])
    BY <1>s, <2>3
  <2>5. ASSUME NEW c \in victims
        PROVE  oomed' /\ (c \in oomIds' \/ OOMTold(c)')
    BY <1>s, <2>1, <2>3 DEF OOMInv
  <2>6. OOMBeforeExit'
    <3> SUFFICES ASSUME NEW c \in victims', NEW i \in ExitIn(Stream', c)
                 PROVE  \E j \in 1 .. i - 1 : Stream'[j].type = "oom" /\ Stream'[j].id = c
      BY DEF OOMBeforeExit
    <3>1. CASE i \in DOMAIN Stream
      <4>1. i \in ExitIn(Stream, c) /\ c \in victims
        BY <2>1, <2>3, <3>1
      <4>2. PICK j \in 1 .. i - 1 : Stream[j].type = "oom" /\ Stream[j].id = c
        BY <4>1 DEF OOMInv, OOMBeforeExit
      <4>3. j \in DOMAIN Stream
        BY <1>s, <3>1, <4>2
      <4> QED
        BY <2>3, <4>2, <4>3
    <3>2. CASE i = Len(Stream) + 1
      <4>1. c = hc /\ c \in victims /\ c \notin oomIds
        BY <2>1, <2>3, <3>2 DEF OOMInv
      <4>2. PICK j \in DOMAIN Stream : Stream[j].type = "oom" /\ Stream[j].id = c
        BY <4>1 DEF OOMInv
      <4>3. j \in 1 .. i - 1
        BY <1>s, <3>2, <4>2
      <4> QED
        BY <2>3, <4>2, <4>3
    <3> QED
      BY <2>4, <3>1, <3>2
  <2>7. \A k \in DOMAIN Stream' : Stream'[k].type = "exit" => Stream'[k].id \notin oomIds'
    BY <2>1, <2>3, <2>4 DEF OOMInv
  <2>8. \A c \in victims' : oomed' /\ (c \in oomIds' \/ OOMTold(c)')
    BY <2>1, <2>5
  <2> QED
    BY <2>1, <2>6, <2>7, <2>8 DEF OOMInv
<1> QED
  BY <1>1, <1>2, <1>3, <1>4 DEF Next, Calm, Waiter, Handler

-----------------------------------------------------------------------------

\* All that holds between two steps of the shim.
StoryInv == SafetyInv /\ TokenInv /\ EndInv /\ LaunchInv /\ StatusInv /\ WaitInv /\ OOMInv

LEMMA InitStory == Init => StoryInv
<1> SUFFICES ASSUME Init PROVE StoryInv
  OBVIOUS
<1>1. /\ exitCh = << >> /\ (\A c \in Containers : waiter[c] = "none") /\ hc = None /\ hpc = "idle" /\ DOMAIN Stream = {} /\ victims = {}
      /\ \A c \in Containers : initState[c] = "none" /\ ~exited[c] /\ waitReply[c] = {}
      /\ \A t \in Threads : pc[t] = "idle"
  BY DEF Init, Stream
<1> QED
  BY <1>1, InitSafe DEF StoryInv, TokenInv, LaunchInv, StatusInv, WaitInv, OOMInv, OOMBeforeExit,
     EndInv, WaiterEnd, QueueEnd, HandlerEnd, StreamEnd

LEMMA StepStory == StoryInv /\ [Next]_vars => StoryInv'
<1> SUFFICES ASSUME StoryInv, [Next]_vars PROVE StoryInv'
  OBVIOUS
<1>1. SafetyInv /\ TokenInv /\ EndInv /\ LaunchInv /\ StatusInv /\ WaitInv /\ OOMInv
  BY DEF StoryInv
<1>2. CoreType /\ Rest
  BY <1>1, TypeCore DEF SafetyInv, Rest
<1> QED
  BY <1>1, <1>2, StepSafe, TokenStep, EndStep, LaunchStep, StatusStep, WaitStep, OOMStep DEF StoryInv

\* TaskExit tells the truth (proc_init.go: start, KillAll; runsc_service.go:
\* checkProcesses): a container that still runs when its TaskExit is told has
\* outlived both kills of the exit path, and its status is internalErrorCode.
THEOREM ExitMeansDeadCorrect == Spec => []ExitMeansDead
<1>1. StoryInv => ExitMeansDead
  <2> SUFFICES ASSUME StoryInv, NEW k \in DOMAIN Stream, Stream[k].type = "exit"
               PROVE  \/ Dead(Stream[k].id)
                      \/ /\ outlived[Stream[k].id] = {"wait", "handler"}
                         /\ Stream[k].status = InternalError
    BY DEF ExitMeansDead
  <2>1. Stream[k].id \in Containers
    BY StreamType DEF StoryInv, SafetyInv
  <2>2. outlived[Stream[k].id] \subseteq {"wait", "handler"}
    BY <2>1 DEF StoryInv, SafetyInv, TypeOK
  <2>3. Ended(Stream[k].id, Stream[k].status, BothKills)
    BY DEF StoryInv, EndInv, StreamEnd
  <2> QED
    BY <2>2, <2>3 DEF Ended, BothKills
<1> QED
  BY <1>1, InitStory, StepStory, PTL DEF Spec

\* Everyone is told the same end of a container (runsc_service.go:
\* checkProcesses, proc_init.go: setExited, Wait): one TaskExit at most, and
\* its status, the recorded one and every answer of Wait agree, for any number
\* of containers and of calls at the same time.
THEOREM OneExitStoryCorrect == Spec => []OneExitStory
<1>1. StoryInv => OneExitStory
  <2> SUFFICES ASSUME StoryInv, NEW c \in Containers
               PROVE  /\ \A i, j \in ExitIn(Stream, c) : i = j
                      /\ \A i \in ExitIn(Stream, c) : exited[c] => Stream[i].status = status[c]
                      /\ waitReply[c] \subseteq {status[c]}
                      /\ waitReply[c] # {} => exited[c]
    BY DEF OneExitStory
  <2>1. \A i \in ExitIn(Stream, c) : i \in DOMAIN Stream /\ Stream[i].type = "exit" /\ Stream[i].id = c
    BY DEF ExitIn
  <2> QED
    BY <2>1 DEF StoryInv, TokenInv, StatusInv, WaitInv
<1> QED
  BY <1>1, InitStory, StepStory, PTL DEF Spec

\* A container that was OOM-killed while the poller watched it gets TaskOOM
\* before TaskExit (checkProcesses), whatever the capacity of the channel and
\* however many containers share the sandbox.
THEOREM OOMBeforeExitCorrect == Spec => []OOMBeforeExit
<1>1. StoryInv => OOMBeforeExit
  BY DEF StoryInv, OOMInv
<1> QED
  BY <1>1, InitStory, StepStory, PTL DEF Spec

-----------------------------------------------------------------------------
(* Shim implements Task *)

\* The exit checkProcesses tells was recorded unless the task was deleted.
LiveInv ==
    hpc \in {"oom", "exit"} => exited[hc] \/ initState[hc] = "deleted"

TaskInv == StoryInv /\ LiveInv

\* Killing ends what runs in the container and brings nothing to life.
LEMMA KillFacts ==
    ASSUME CoreType, NEW c \in Containers, rt' = Stop(c)
    PROVE  \A d \in Containers : /\ rt'[d] = "running" => rt[d] = "running"
                                 /\ d = c => rt'[d] # "running"
<1>1. \A d \in Containers :
         rt'[d] = IF d \in Killed(c) /\ rt[d] # "absent" THEN "stopped" ELSE rt[d]
  BY DEF Stop
<1>2. c \in Killed(c)
  BY DEF Killed
<1> QED
  BY <1>1, <1>2

\* runsc delete, which refuses a running container, leaves the others alone:
\* only the sandbox takes others with it, and nothing runs without it.
LEMMA DeleteLive ==
    ASSUME CoreType, Rest, NEW c \in Containers, runscDelete(c)
    PROVE  \A d \in Containers : rt'[d] = "running" <=> rt[d] = "running"
<1>1. rt[c] # "running" /\ \A d \in Containers : rt'[d] = IF d = c THEN "absent" ELSE Stop(c)[d]
  BY DEF runscDelete
<1>2. c = Root => \A d \in Containers : rt[d] # "running"
  BY <1>1 DEF Rest, RuntimeInv
<1> QED
  BY <1>1, <1>2, StopFacts

\* A deleted task stays deleted.
LEMMA CalmDeleted ==
    ASSUME CoreType, Rest, Calm, NEW c \in Containers, initState[c] = "deleted"
    PROVE  initState'[c] = "deleted"
<1> USE DEF CoreType, Rest, PhaseInv, initVars
<1>1. ASSUME NEW t \in Threads, NEW d \in Containers, Begin(t, d)
      PROVE  initState' = initState
  BY <1>1 DEF Begin, CreateLock, CallStart, CallRestore, CallDelete, CallKill, CallState,
     CallWait, CallCheckpoint, Call
<1>2. ASSUME NEW t \in Threads, CreateOk(t) \/ LaunchDone(t) \/ LaunchFail(t)
      PROVE  initState'[c] = "deleted"
  BY <1>2 DEF CreateOk, LaunchDone, LaunchFail
<1>3. ASSUME NEW t \in Threads, DeleteRun(t) \/ KillStopped(t) \/ StateRead(t)
      PROVE  initState'[c] = "deleted"
  BY <1>3 DEF DeleteRun, KillStopped, StateRead
<1>4. ASSUME NEW t \in Threads, \/ CreateFail(t) \/ Launch(t) \/ DeleteKill(t) \/ DeleteErr(t)
                               \/ KillStateErr(t) \/ KillOk(t) \/ KillRetry(t) \/ CheckpointDone(t)
                               \/ (Acquire(t) /\ ~StateRead(t))
      PROVE  initState' = initState
  BY <1>4 DEF CreateFail, Launch, DeleteKill, DeleteErr, KillStateErr, KillOk, KillRetry,
     CheckpointDone, Acquire, StartLock, DeleteLock, KillLock, Remove, WaitUnblock, WaitRead
<1>5. ASSUME NEW d \in Containers, Reap(d) \/ ReapErr(d) \/ ProcessExit(d)
      PROVE  initState' = initState
  BY <1>5 DEF Reap, ReapErr, ProcessExit
<1>6. CASE OOMKill \/ UNCHANGED vars
  BY <1>6 DEF OOMKill, vars
<1> QED
  BY <1>1, <1>2, <1>3, <1>4, <1>5, <1>6 DEF Calm, Serve, Acquire

LEMMA LiveStep ==
    ASSUME CoreType, Rest, LaunchInv, LiveInv, [Next]_vars,
           hc \in Containers \cup {None}, hc = None <=> hpc = "idle"
    PROVE  LiveInv'
<1> USE DEF CoreType, LiveInv, initVars, exitVars
<1>1. CASE Calm
  <2>1. UNCHANGED <<hpc, hc>>
    BY <1>1, CalmFrame
  <2>2. \A c \in Containers : exited[c] => exited'[c]
    BY <1>1, CalmExited DEF setExited
  <2>3. \A c \in Containers : initState[c] = "deleted" => initState'[c] = "deleted"
    BY <1>1, CalmDeleted
  <2> QED
    BY <2>1, <2>2, <2>3
<1>2. CASE (\E c \in Containers : SendExit(c)) \/ HandlerKillAll \/ HandleOOM \/ Forward
  BY <1>2 DEF SendExit, HandlerKillAll, HandleOOM, Forward
<1>3. CASE ReceiveExit \/ FindProcess \/ SendTaskExit
  BY <1>3 DEF ReceiveExit, FindProcess, SendTaskExit, HandlerIdle
<1>4. CASE SetExited
  BY <1>4 DEF SetExited, RecordExit, setExited
<1> QED
  BY <1>1, <1>2, <1>3, <1>4 DEF Next, Calm, Waiter, Handler

-----------------------------------------------------------------------------
(* The refinement mapping *)

Live     == {c \in Containers : rt[c] = "running"}
Code     == [c \in Containers |-> IF exited[c] THEN status[c] ELSE None]
TaskStep == [AbstractTask!TaskNext]_(AbstractTask!taskVars)

\* The five things the abstract task sees.
LEMMA Same ==
    ASSUME UNCHANGED <<initState, exited, status, Stream, waitReply>>, Live' = Live
    PROVE  TaskStep
BY DEF TaskStep, AbstractTask!taskVars, Live

\* Processes that only end.
LEMMA Dies ==
    ASSUME UNCHANGED <<initState, exited, status, Stream, waitReply>>,
           \A c \in Containers : rt'[c] = "running" => rt[c] = "running"
    PROVE  TaskStep
<1>0. PICK D \in SUBSET Containers : D = Live \ Live'
  BY DEF Live
<1>1. Live' = Live \ D
  BY <1>0 DEF Live
<1>2. AbstractTask!Die(D)
  BY <1>1 DEF AbstractTask!Die, Live
<1> QED
  BY <1>1, <1>2 DEF TaskStep, AbstractTask!TaskNext

\* One abstract action is enough.
LEMMA Steps ==
    ASSUME NEW c \in Containers, NEW s \in Statuses,
           \/ AbstractTask!Create(c) \/ AbstractTask!Launch(c) \/ AbstractTask!FailedLaunch(c)
           \/ AbstractTask!Started(c) \/ AbstractTask!FoundDead(c) \/ AbstractTask!TellOOM(c) \/ AbstractTask!Answer(c)
           \/ AbstractTask!Delete(c) \/ AbstractTask!Record(c, s) \/ AbstractTask!TellExit(c, s)
    PROVE  TaskStep
BY DEF TaskStep, AbstractTask!TaskNext

\* Changes of the init state alone.
LEMMA StateSteps ==
    ASSUME CoreType, NEW c \in Containers, NEW v \in InitStates,
           initState' = [initState EXCEPT ![c] = v],
           UNCHANGED <<exited, status, Stream, waitReply>>, Live' = Live,
           \/ initState[c] = "none" /\ v = "created"
           \/ initState[c] = "created" /\ v = "running" /\ ~exited[c]
           \/ initState[c] \in {"created", "running"} /\ v = "stopped" /\ rt[c] # "running"
           \/ initState[c] \in {"created", "stopped"} /\ v = "deleted" /\ rt[c] # "running"
    PROVE  TaskStep
<1> USE DEF Live, CoreType
<1>0. 0 \in Statuses
  BY DEF Statuses
<1>1. CASE initState[c] = "none" /\ v = "created"
  <2>1. AbstractTask!Create(c)
    BY <1>1 DEF AbstractTask!Create
  <2> QED
    BY <1>0, <2>1, Steps
<1>2. CASE initState[c] = "created" /\ v = "running" /\ ~exited[c]
  <2>1. AbstractTask!Started(c)
    BY <1>2 DEF AbstractTask!Started
  <2> QED
    BY <1>0, <2>1, Steps
<1>3. CASE initState[c] \in {"created", "running"} /\ v = "stopped" /\ rt[c] # "running"
  <2>1. AbstractTask!FoundDead(c)
    BY <1>3 DEF AbstractTask!FoundDead
  <2> QED
    BY <1>0, <2>1, Steps
<1>4. CASE initState[c] \in {"created", "stopped"} /\ v = "deleted" /\ rt[c] # "running"
  <2>1. AbstractTask!Delete(c)
    BY <1>4 DEF AbstractTask!Delete
  <2> QED
    BY <1>0, <2>1, Steps
<1> QED
  BY <1>1, <1>2, <1>3, <1>4

\* Recording an exit for the first time, or again.
LEMMA RecordStep ==
    ASSUME CoreType, StartExitedOrder, TypeOK,
           NEW c \in Containers, NEW s \in Statuses, setExited(c, s),
           initState' = [initState EXCEPT ![c] = "stopped"],
           initState[c] \in {"created", "running", "stopped"}, rt[c] # "running" \/ s = InternalError,
           UNCHANGED <<rt, Stream, waitReply>>
    PROVE  TaskStep
<1>1. CASE exited[c]
  <2>1. exited' = exited /\ status' = status
    BY <1>1 DEF CoreType, TypeOK, setExited
  <2>2. initState' = initState
    BY <1>1 DEF CoreType, StartExitedOrder
  <2> QED
    BY <2>1, <2>2, Same DEF Live
<1>2. CASE ~exited[c]
  <2>1. exited' = [exited EXCEPT ![c] = TRUE] /\ status' = [status EXCEPT ![c] = s]
    BY <1>2 DEF setExited
  <2>2. Code' = [Code EXCEPT ![c] = s]
    BY <1>2, <2>1 DEF Code, CoreType, TypeOK
  <2>3. AbstractTask!Record(c, s)
    BY <1>2, <2>2 DEF AbstractTask!Record, Code
  <2> QED
    BY <2>3, Steps
<1> QED
  BY <1>1, <1>2

\* What a step of a call that neither kills nor records does to the stream.
LEMMA StreamSame ==
    ASSUME UNCHANGED <<events, published>>
    PROVE  Stream' = Stream
BY DEF Stream

\* A step of a call.
LEMMA CallRefines ==
    ASSUME TypeOK, CoreType, Rest, LaunchInv, WaitInv, StreamSent, LiveInv, NEW t \in Threads,
           Serve(t) \/ Acquire(t) \/ CheckpointDone(t)
    PROVE  TaskStep
<1> DEFINE c == on[t]
<1>0. /\ Stream' = Stream
      /\ pc[t] # "idle" => c \in Containers
      /\ InternalError \in Statuses /\ 0 \in Statuses
      /\ {"none", "created", "running", "stopped", "deleted"} \subseteq InitStates
  <2>1. Stream' = Stream
    BY CalmFrame DEF Calm
  <2> QED
    BY <2>1 DEF CoreType, Statuses, InitStates
<1>1. CASE CreateFail(t)
  <2>1. /\ UNCHANGED <<initState, exited, status, waitReply>>
        /\ (rt' = rt \/ rt' = [rt EXCEPT ![c] = "created"])
    BY <1>1 DEF CreateFail, InitCreateErr, runscCreate, initVars
  <2> QED
    BY <1>0, <2>1, Dies DEF CoreType
<1>2. CASE CreateOk(t)
  <2>1. /\ initState' = [initState EXCEPT ![c] = "created"] /\ pc[t] = "create"
        /\ rt' = [rt EXCEPT ![c] = "created"] /\ rt[c] = "absent"
        /\ UNCHANGED <<exited, status, waitReply>>
    BY <1>2 DEF CreateOk, runscCreate
  <2>2. initState[c] = "none" /\ Live' = Live
    BY <2>1 DEF Live, Rest, PhaseInv, CoreType
  <2> QED
    BY <1>0, <2>1, <2>2, StateSteps
<1>3. CASE Launch(t)
  <2>1. /\ rt' = [rt EXCEPT ![c] = "running"] /\ pc[t] = "launch"
        /\ UNCHANGED <<initState, exited, status, waitReply>>
    BY <1>3 DEF Launch, runscStart
  <2>2. /\ initState[c] = "created" /\ mu[c] = t /\ ~exited[c] /\ c \in Containers
    BY <1>0, <2>1 DEF Rest, LockInv, PhaseInv, StartExitedOrder, LockedPCs
  <2>3. waiter[c] = "none"
    BY <2>1, <2>2 DEF LaunchInv
  <2>4. \A k \in DOMAIN Stream : Stream[k].id # c
    BY <2>3 DEF StreamSent
  <2>5. Live' = Live \cup {c}
    BY <2>1, <2>2 DEF Live, CoreType
  <2>6. PICK d \in Containers : d = c
    BY <2>2
  <2>7. AbstractTask!Launch(d)
    BY <1>0, <2>1, <2>2, <2>4, <2>5, <2>6 DEF AbstractTask!Launch, AbstractTask!Told, Live
  <2> QED
    BY <1>0, <2>7, Steps
<1>4. CASE LaunchDone(t)
  <2>1. /\ initState' = [initState EXCEPT ![c] = "running"] /\ pc[t] = "launched"
        /\ UNCHANGED <<exited, status, waitReply, rt>>
    BY <1>4 DEF LaunchDone
  <2>2. initState[c] = "created" /\ ~exited[c] /\ c \in Containers /\ Live' = Live
    BY <1>0, <2>1 DEF Rest, PhaseInv, StartExitedOrder, Live
  <2> QED
    BY <1>0, <2>1, <2>2, StateSteps
<1>5. CASE LaunchFail(t)
  <2>1. /\ pc[t] = "launch" /\ UNCHANGED waitReply
        /\ rt' = rt \/ rt' = [rt EXCEPT ![c] = "running"]
    BY <1>5 DEF LaunchFail, runscStart
  <2>2. /\ initState[c] = "created" /\ mu[c] = t /\ ~exited[c] /\ c \in Containers
    BY <1>0, <2>1 DEF Rest, LockInv, PhaseInv, StartExitedOrder, LockedPCs
  <2>3. waiter[c] = "none"
    BY <2>1, <2>2 DEF LaunchInv
  <2>4. \A k \in DOMAIN Stream : Stream[k].id # c
    BY <2>3 DEF StreamSent
  <2>5. Live' \in {Live, Live \cup {c}}
    BY <2>1, <2>2 DEF Live, CoreType
  <2>6. PICK d \in Containers : d = c
    BY <2>2
  <2>7. CASE c = Root
    <3>1. UNCHANGED <<initState, exited, status>>
      BY <1>5, <2>7 DEF LaunchFail
    <3>2. CASE Live' = Live
      BY <1>0, <2>1, <3>1, <3>2, Same
    <3>3. CASE Live' = Live \cup {c}
      <4>1. AbstractTask!Launch(d)
        BY <1>0, <2>1, <2>2, <2>4, <2>6, <3>1, <3>3 DEF AbstractTask!Launch, AbstractTask!Told, Live
      <4> QED
        BY <1>0, <4>1, Steps
    <3> QED
      BY <2>5, <3>2, <3>3
  <2>8. CASE c # Root
    <3>1. setExited(d, InternalError) /\ initState' = [initState EXCEPT ![d] = "stopped"]
      BY <1>5, <2>6, <2>8 DEF LaunchFail
    <3>2. Code' = [Code EXCEPT ![d] = InternalError]
      BY <2>2, <2>6, <3>1 DEF Code, CoreType, TypeOK, setExited
    <3>3. AbstractTask!FailedLaunch(d)
      BY <1>0, <2>1, <2>2, <2>4, <2>5, <2>6, <3>1, <3>2
      DEF AbstractTask!FailedLaunch, AbstractTask!Told, Live, Code
    <3> QED
      BY <1>0, <3>3, Steps
  <2> QED
    BY <2>7, <2>8
<1>6. CASE DeleteKill(t)
  <2>1. /\ rt' = Stop(c) \/ rt' = rt
        /\ c \in Containers /\ UNCHANGED <<initState, exited, status, waitReply>>
    BY <1>0, <1>6 DEF DeleteKill, killAllLocked, initVars
  <2> HIDE DEF c
  <2> QED
    BY <1>0, <2>1, KillFacts, Dies
<1>7. CASE DeleteRun(t)
  <2>1. /\ initState' = [initState EXCEPT ![c] = "deleted"] /\ pc[t] = "delrun"
        /\ runscDelete(c) /\ UNCHANGED <<exited, status, waitReply>>
    BY <1>7 DEF DeleteRun
  <2>2. c \in Containers /\ initState[c] \in {"created", "stopped"} /\ rt[c] # "running"
    BY <1>0, <2>1 DEF Rest, PhaseInv, runscDelete
  <2> HIDE DEF c
  <2>3. Live' = Live
    BY <2>1, <2>2, DeleteLive DEF Live
  <2> QED
    BY <1>0, <2>1, <2>2, <2>3, StateSteps
<1>8. CASE DeleteErr(t)
  <2>1. /\ rt' = rt \/ runscDelete(c)
        /\ UNCHANGED <<initState, exited, status, waitReply>> /\ c \in Containers
    BY <1>0, <1>8 DEF DeleteErr, initVars
  <2> HIDE DEF c
  <2>2. \A d \in Containers : rt'[d] = "running" <=> rt[d] = "running"
    BY <2>1, DeleteLive
  <2> QED
    BY <1>0, <2>1, <2>2, Dies
<1>9. CASE KillStopped(t) \/ StateRead(t)
  <2>1. /\ pc[t] \in {"killing", "state"} /\ UNCHANGED <<exited, status, waitReply, rt>>
        /\ \/ initState' = initState
           \/ (initState' = [initState EXCEPT ![c] = "stopped"] /\ Dead(c)
                /\ (pc[t] = "killing" \/ initState[c] \in {"created", "running"}))
    BY <1>9 DEF KillStopped, StateRead
  <2>2. c \in Containers /\ Live' = Live
    BY <1>0, <2>1 DEF Live
  <2>3. pc[t] = "killing" => initState[c] \in {"created", "running"}
    BY DEF Rest, PhaseInv
  <2> HIDE DEF c
  <2>4. CASE initState' = initState
    BY <1>0, <2>1, <2>2, <2>4, Same
  <2>5. CASE /\ initState' = [initState EXCEPT ![c] = "stopped"] /\ Dead(c)
             /\ initState[c] \in {"created", "running"}
    <3>1. rt[c] # "running"
      BY <2>5 DEF Dead
    <3> QED
      BY <1>0, <2>1, <2>2, <2>5, <3>1, StateSteps
  <2> QED
    BY <2>1, <2>3, <2>4, <2>5
<1>10. CASE KillStateErr(t) \/ KillRetry(t)
  BY <1>0, <1>10, Same DEF KillStateErr, KillRetry, initVars, Live
<1>11. CASE KillOk(t)
  <2>1. (rt' = rt \/ rt' = Stop(c)) /\ c \in Containers /\ UNCHANGED <<initState, exited, status, waitReply>>
    BY <1>0, <1>11 DEF KillOk, initVars
  <2> HIDE DEF c
  <2>2. CASE rt' = rt
    BY <1>0, <2>1, <2>2, Dies
  <2>3. CASE rt' = Stop(c)
    BY <1>0, <2>1, <2>3, KillFacts, Dies
  <2> QED
    BY <2>1, <2>2, <2>3
<1>12. CASE StartLock(t) \/ DeleteLock(t) \/ KillLock(t)
  <2>1. UNCHANGED <<initState, exited, status, waitReply, rt>>
    BY <1>12 DEF StartLock, DeleteLock, KillLock, initVars
  <2> QED
    BY <1>0, <2>1, Same DEF Live
<1>13. CASE Remove(t) \/ WaitUnblock(t) \/ CheckpointDone(t)
  BY <1>0, <1>13, Same DEF Remove, WaitUnblock, CheckpointDone, initVars, Live
<1>14. CASE WaitRead(t)
  <2>1. /\ waitReply' = [waitReply EXCEPT ![c] = @ \cup {status[c]}] /\ pc[t] = "waitread"
        /\ UNCHANGED <<initState, exited, status, rt>>
    BY <1>14 DEF WaitRead, initVars
  <2>2. c \in Containers /\ exited[c] /\ waitReply[c] \subseteq {status[c]} /\ status[c] # None
    <3>1. c \in Containers /\ exited[c] /\ waitReply[c] \subseteq {status[c]}
      BY <1>0, <2>1 DEF WaitInv
    <3>2. Statuses \subseteq Nat
      BY CodeAssumption DEF Statuses
    <3>20. status \in [Containers -> Statuses]
      BY DEF TypeOK
    <3>3. status[c] \in Nat
      BY <3>1, <3>2, <3>20
    <3> QED
      BY <3>1, <3>3, NoneAssumption
  <2>3. waitReply' = [waitReply EXCEPT ![c] = {status[c]}]
    BY <2>1, <2>2
  <2> HIDE DEF c
  <2>4. AbstractTask!Answer(c)
    BY <1>0, <2>1, <2>2, <2>3 DEF AbstractTask!Answer
  <2> QED
    BY <1>0, <2>2, <2>4, Steps
<1> QED
  BY <1>1, <1>2, <1>3, <1>4, <1>5, <1>6, <1>7, <1>8, <1>9, <1>10, <1>11, <1>12, <1>13, <1>14
     DEF Serve, Acquire

\* A step of the goroutine that handles exits.
LEMMA HandlerRefines ==
    ASSUME TypeOK, CoreType, Rest, TokenInv, EndInv, StatusInv, StreamSent, LiveInv,
           Handler \/ Forward
    PROVE  TaskStep
<1>0. /\ UNCHANGED waitReply /\ (hpc # "idle" => hc \in Containers /\ waiter[hc] = "sent")
      /\ hstatus \in Statuses /\ 0 \in Statuses
  BY HandlerFrame DEF TypeOK, Rest, SentInv, Statuses
<1>1. CASE ReceiveExit \/ FindProcess
  BY <1>0, <1>1, Same, StreamSame DEF ReceiveExit, FindProcess, initVars, evVars, Live
<1>2. CASE HandlerKillAll
  <2>1. /\ rt' = Stop(hc) \/ rt' = rt
        /\ UNCHANGED <<initState, exited, status>> /\ Stream' = Stream /\ hc \in Containers
    BY <1>0, <1>2, StreamSame DEF HandlerKillAll, killOnExit, killAllLocked, initVars, evVars
  <2> QED
    BY <1>0, <2>1, KillFacts, Dies
<1>3. CASE SetExited
  <2>1. hpc = "setexited" /\ Stream' = Stream /\ rt' = rt /\ RecordExit /\ hc \in Containers
    BY <1>0, <1>3, StreamSame DEF SetExited, evVars
  <2>2. /\ rt[hc] # "running" \/ hstatus = InternalError
        /\ initState[hc] \in InitStates \ {"none"}
    BY <1>0, <2>1 DEF Rest, RuntimeInv, Dead, CoreType, EndInv, HandlerEnd, Ended
  <2>3. CASE initState[hc] = "deleted"
    BY <1>0, <2>1, <2>3, Same DEF RecordExit, Live
  <2>4. CASE initState[hc] # "deleted"
    <3>1. setExited(hc, hstatus) /\ initState' = [initState EXCEPT ![hc] = "stopped"]
      BY <2>1, <2>4 DEF RecordExit
    <3>2. initState[hc] \in {"created", "running", "stopped"}
      BY <2>2, <2>4 DEF InitStates
    <3> QED
      BY <1>0, <2>1, <2>2, <3>1, <3>2, RecordStep DEF Rest
  <2> QED
    BY <2>3, <2>4
<1>4. CASE HandleOOM
  <2>1. hpc = "oom" /\ UNCHANGED <<initState, exited, status, rt, published>> /\ hc \in Containers
    BY <1>0, <1>4 DEF HandleOOM, initVars
  <2>2. CASE events' = events
    BY <1>0, <2>1, <2>2, Same, StreamSame DEF Live
  <2>3. CASE send(Event("oom", 0))
    <3>1. Event("oom", 0) \in EventType
      BY <1>0, <2>1 DEF Event, EventType
    <3>2. Stream' = Append(Stream, Event("oom", 0))
      BY <2>1, <2>3, <3>1 DEF send, Stream, TypeOK
    <3>3. AbstractTask!TellOOM(hc)
      BY <1>0, <2>1, <3>2 DEF AbstractTask!TellOOM, AbstractTask!Told, Event, TokenInv
    <3> QED
      BY <1>0, <2>1, <3>3, Steps
  <2> QED
    BY <1>4, <2>2, <2>3 DEF HandleOOM
<1>5. CASE SendTaskExit
  <2>1. /\ hpc = "exit" /\ UNCHANGED <<initState, exited, status, rt, published>> /\ hc \in Containers
        /\ send(Event("exit", hstatus))
    BY <1>0, <1>5 DEF SendTaskExit, initVars
  <2>2. Event("exit", hstatus) \in EventType
    BY <1>0, <2>1 DEF Event, EventType
  <2>3. Stream' = Append(Stream, Event("exit", hstatus))
    BY <2>1, <2>2 DEF send, Stream, TypeOK
  <2>4. rt[hc] # "running" \/ hstatus = InternalError
    BY <2>1 DEF EndInv, HandlerEnd, Ended, Dead
  <2>5. \/ (exited[hc] /\ status[hc] = hstatus)
        \/ (~exited[hc] /\ initState[hc] = "deleted")
    BY <2>1 DEF LiveInv, StatusInv
  <2>6. AbstractTask!TellExit(hc, hstatus)
    BY <1>0, <2>1, <2>3, <2>4, <2>5 DEF AbstractTask!TellExit, AbstractTask!Told, Event, TokenInv
  <2> QED
    BY <1>0, <2>1, <2>6, Steps
<1>6. CASE Forward
  <2>1. Stream' = Stream
    BY <1>6, ForwardStream
  <2> QED
    BY <1>0, <1>6, <2>1, Same DEF Forward, initVars, Live
<1> QED
  BY <1>1, <1>2, <1>3, <1>4, <1>5, <1>6 DEF Handler

LEMMA StepRefines ==
    ASSUME TaskInv, [Next]_vars
    PROVE  TaskStep
<1>0. TypeOK /\ CoreType /\ Rest /\ TokenInv /\ EndInv /\ LaunchInv /\ StatusInv /\ WaitInv /\ StreamSent /\ LiveInv
  BY TypeCore, StreamIsSent DEF TaskInv, StoryInv, SafetyInv, Rest
<1>1. ASSUME NEW t \in Threads, Serve(t) \/ Acquire(t) \/ CheckpointDone(t)
      PROVE  TaskStep
  BY <1>0, <1>1, CallRefines
<1>2. ASSUME NEW t \in Threads, NEW c \in Containers, Begin(t, c)
      PROVE  TaskStep
  <2>1. UNCHANGED <<initState, exited, status, waitReply, rt, events, published>>
    BY <1>2 DEF Begin, CreateLock, CallStart, CallRestore, CallDelete, CallKill, CallState,
       CallWait, CallCheckpoint, Call, initVars, evVars
  <2> QED
    BY <2>1, Same, StreamSame DEF Live
<1>3. ASSUME NEW c \in Containers, Waiter(c) \/ ProcessExit(c)
      PROVE  TaskStep
  <2>1. /\ UNCHANGED <<initState, exited, status, waitReply, events, published>>
        /\ (rt' = rt \/ rt' = Stop(c))
    BY <1>3 DEF Waiter, Reap, ReapErr, SendExit, ProcessExit, killOnExit, killAllLocked, initVars, evVars, rpcVars
  <2> QED
    BY <1>0, <2>1, KillFacts, Dies, StreamSame
<1>4. CASE Handler \/ Forward
  BY <1>0, <1>4, HandlerRefines
<1>5. CASE OOMKill
  <2>1. UNCHANGED <<initState, exited, status, waitReply, events, published>> /\ rt' = Stop(Root)
    BY <1>5 DEF OOMKill, initVars, evVars, rpcVars
  <2> QED
    BY <1>0, <2>1, KillFacts, Dies, StreamSame, RootAssumption
<1>6. CASE UNCHANGED vars
  BY <1>6, Same, StreamSame DEF vars, initVars, evVars, rpcVars, Live
<1> QED
  BY <1>1, <1>2, <1>3, <1>4, <1>5, <1>6 DEF Next

-----------------------------------------------------------------------------

\* The shim keeps what Task promises (runsc_service.go, proc_init.go): the
\* states of the shim, with the stream of its events, go through one launch,
\* one recorded exit, one TaskExit that agrees with it and with Wait, TaskOOM
\* only before it, a status other than internalErrorCode only for a process
\* that has ended, and no delete of a task whose process runs.
THEOREM RefinementCorrect == Spec => ImplementsTask
<1>1. Init => TaskInv
  <2>1. Init => LiveInv
    BY DEF Init, LiveInv
  <2> QED
    BY <2>1, InitStory DEF TaskInv
<1>2. TaskInv /\ [Next]_vars => TaskInv'
  <2> SUFFICES ASSUME TaskInv, [Next]_vars PROVE TaskInv'
    OBVIOUS
  <2>1. StoryInv'
    BY StepStory DEF TaskInv
  <2>2. CoreType /\ Rest /\ LaunchInv /\ LiveInv /\ TypeOK
    BY TypeCore DEF TaskInv, StoryInv, SafetyInv, Rest
  <2>3. LiveInv'
    BY <2>2, LiveStep DEF TypeOK
  <2> QED
    BY <2>1, <2>3 DEF TaskInv
<1>3. Init => AbstractTask!TaskInit
  BY DEF Init, AbstractTask!TaskInit, Stream
<1>4. TaskInv /\ [Next]_vars => [AbstractTask!TaskNext]_(AbstractTask!taskVars)
  BY StepRefines DEF TaskStep
<1> QED
  BY <1>1, <1>2, <1>3, <1>4, PTL DEF Spec, ImplementsTask, AbstractTask!TaskSpec
=============================================================================
