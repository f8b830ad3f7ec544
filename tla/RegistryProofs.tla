--------------------------- MODULE RegistryProofs ---------------------------
(***************************************************************************)
(* Proofs about Registry: any number of ids, incarnations and RPC          *)
(* goroutines, any capacity of the channel of events.  KeptInv holds       *)
(* whatever clients do, EventInv with a client like containerd's CRI       *)
(* plugin.                                                                 *)
(***************************************************************************)
EXTENDS Registry, TLAPS

USE RegistryAssumption

PCs == {"idle", "start", "state", "delete", "remove", "pause", "resume",
        "sendpaused", "sendresumed"}
HPCs == {"idle", "find", "killall", "setexited", "oom", "exit"}
Exit  == [id : Ids, inc : Incs]
Event == [type : {"oom", "exit", "paused", "resumed"}, id : Ids, inc : Incs]

\* Every variable has its type; what is busy is about an id.
TableType ==
    /\ containers \in [Ids -> Incs \cup {None}] /\ oom \in [Ids -> Incs \cup {None}]
    /\ made \in 0 .. MaxInc
    /\ idOf \in [Incs -> Ids \cup {None}]
TaskType ==
    /\ state \in [Incs -> {"none", "created", "running", "stopped", "deleted"}]
    /\ rt \in [Incs -> {"absent", "running", "paused", "stopped"}]
    /\ waiter \in [Incs -> {"none", "waiting", "sent"}]
EventType ==
    /\ ExitCh \in Seq(Exit) /\ events \in Seq(Event)
    /\ down \in {"up", "granted", "closed"}
HandlerType ==
    /\ h \in [pc : HPCs, id : Ids \cup {None}, inc : Incs \cup {None}, found : Incs \cup {None}]
    /\ h.pc # "idle" => h.id \in Ids /\ h.inc \in Incs
    /\ h.pc \notin {"idle", "find"} => h.found \in Incs
CallType ==
    /\ pc \in [Threads -> PCs]
    /\ on \in [Threads -> Ids \cup {None}] /\ obj \in [Threads -> Incs \cup {None}]
    /\ \A t \in Threads : pc[t] # "idle" => on[t] \in Ids /\ obj[t] \in Incs
    /\ \A t \in Threads : pc[t] = "idle" => on[t] = None
HistoryType ==
    /\ exited \subseteq Incs /\ told \subseteq Incs
    /\ astray \subseteq Incs /\ unpolled \subseteq Incs /\ lost \subseteq Incs

TypeInv == TableType /\ TaskType /\ EventType /\ HandlerType /\ CallType /\ HistoryType

\* Only incarnations that were made are known anywhere, each under its id.
MadeInv ==
    /\ \A n \in Incs : n > made =>
          idOf[n] = None /\ rt[n] = "absent" /\ waiter[n] = "none" /\ n \notin astray
    /\ \A n \in Incs : n <= made => idOf[n] \in Ids
    /\ \A id \in Ids : containers[id] # None => containers[id] <= made /\ idOf[containers[id]] = id
    /\ \A t \in Threads : pc[t] # "idle" => obj[t] <= made /\ idOf[obj[t]] = on[t]

\* runsc has the last incarnation of an id or none.
LatestInv ==
    \A n, m \in Incs : rt[n] # "absent" /\ idOf[m] = idOf[n] => m <= n

\* When the map is about to lose an id, runsc has lost it, or has got it again.
RemoveInv ==
    \A t \in Threads : pc[t] = "remove" => InRunsc(on[t]) \subseteq astray

KeptInv == MadeInv /\ LatestInv /\ RemoveInv /\ NothingForgotten

\* A call other than State works on the container that is registered under its
\* id, and is the only one to; one that starts it, on the last of the id.
CallInv ==
    /\ \A t \in Threads : pc[t] \notin {"idle", "state"} => containers[on[t]] = obj[t]
    /\ \A t, u \in Threads :
          pc[t] \notin {"idle", "state"} /\ pc[u] \notin {"idle", "state"} /\ on[t] = on[u] => t = u
    /\ \A t \in Threads : pc[t] = "start" => \A n \in Incs : idOf[n] = on[t] => n <= obj[t]

\* Who has a goroutine was started, and is in runsc until its exit has been
\* told; one is deleted when it was never started or its exit was told.  A
\* Create that failed leaves no task.
DeleteInv ==
    /\ \A n \in Incs : waiter[n] # "none" => state[n] \in {"running", "stopped", "deleted"}
    /\ \A n \in Incs : waiter[n] # "none" /\ n \notin told => rt[n] # "absent"
    /\ \A t \in Threads : pc[t] \in {"delete", "remove"} =>
          waiter[obj[t]] = "none" \/ obj[t] \in told
    /\ \A n \in Incs : n > made \/ n \in astray => state[n] = "none"
    /\ \A id \in Ids : containers[id] # None =>
          oom[id] \in {None, containers[id]} \/ containers[id] \in unpolled

\* The exit of an incarnation is waited for, in ExitCh, in the hands of
\* checkProcesses, in s.events or told, and until it has been told the
\* incarnation stays registered.
ExitEvents == {i \in DOMAIN events : events[i].type = "exit"}
Registered ==
    \A n \in Incs : waiter[n] # "none" /\ n \notin told => containers[idOf[n]] = n
Sending ==
    \A i \in DOMAIN ExitCh :
        /\ waiter[ExitCh[i].inc] = "sent" /\ ExitCh[i].id = idOf[ExitCh[i].inc]
        /\ ExitCh[i].inc \notin told /\ (h.pc # "idle" => ExitCh[i].inc # h.inc)
        /\ \A j \in DOMAIN ExitCh : ExitCh[j].inc = ExitCh[i].inc => i = j
        /\ \A j \in ExitEvents : events[j].inc # ExitCh[i].inc
Handling ==
    /\ h.pc # "idle" =>
          /\ waiter[h.inc] = "sent" /\ h.id = idOf[h.inc] /\ h.inc \notin told
          /\ \A j \in ExitEvents : events[j].inc # h.inc
    /\ h.pc \notin {"idle", "find"} => h.found = h.inc
Telling ==
    /\ \A i \in ExitEvents :
          /\ waiter[events[i].inc] = "sent" /\ events[i].inc \notin told
          /\ \A j \in ExitEvents : events[j].inc = events[i].inc => i = j
    /\ \A n \in told : waiter[n] = "sent"

TokenInv == Registered /\ Sending /\ Handling /\ Telling

\* When Shutdown has been granted nothing is left and nobody calls.
CloseInv ==
    down # "up" => /\ \A id \in Ids : containers[id] = None
                   /\ \A t \in Threads : pc[t] = "idle"

EventInv == CallInv /\ DeleteInv /\ TokenInv /\ CloseInv

-----------------------------------------------------------------------------
(* Types *)

LEMMA SendType ==
    ASSUME EventType, NEW type \in {"oom", "exit", "paused", "resumed"}, NEW id \in Ids, NEW n \in Incs,
           send(type, id, n)
    PROVE  events' \in Seq(Event)
<1> DEFINE e == [type |-> type, id |-> id, inc |-> n]
<1>1. e \in Event
  BY DEF Event
<1>2. events' = Append(events, e)
  BY DEF send
<1> HIDE DEF e
<1> QED
  BY <1>1, <1>2 DEF EventType

LEMMA InitType == Init => TypeInv
<1> SUFFICES ASSUME Init PROVE TypeInv
  OBVIOUS
<1> USE DEF Init
<1>1. TableType
  BY DEF TableType
<1>2. TaskType
  BY DEF TaskType
<1>3. EventType /\ HistoryType
  BY DEF EventType, HistoryType
<1>4. HandlerType
  BY DEF HandlerType, Idle, HPCs
<1>5. CallType
  BY DEF CallType, PCs
<1> QED
  BY <1>1, <1>2, <1>3, <1>4, <1>5 DEF TypeInv

\* What a command does to the processes of an id.
LEMMA KilledType ==
    ASSUME TaskType, NEW id
    PROVE  /\ Killed(id) \in [Incs -> {"absent", "running", "paused", "stopped"}]
           /\ Gone(id) \in [Incs -> {"absent", "running", "paused", "stopped"}]
           /\ \A n \in Incs : Killed(id)[n] = (IF n \in InRunsc(id) THEN "stopped" ELSE rt[n])
           /\ \A n \in Incs : Gone(id)[n] = (IF n \in InRunsc(id) THEN "absent" ELSE rt[n])
           /\ \A n \in InRunsc(id) : n \in Incs /\ rt[n] # "absent"
BY DEF TaskType, Killed, Gone, InRunsc

\* What calls do keeps the types.
LEMMA CreateType ==
    ASSUME TypeInv, NEW id \in Ids, Create(id)
    PROVE  TypeInv'
<1> USE DEF TypeInv, exitVars, evVars, rpcVars, Create
<1>1. made' \in 0 .. MaxInc /\ made + 1 \in Incs
  BY DEF TableType, Incs
<1>2. TableType'
  BY <1>1 DEF TableType, Register
<1>3. HistoryType'
  BY <1>1 DEF HistoryType
<1>4. TaskType'
  BY DEF TaskType, Register
<1>5. EventType' /\ HandlerType' /\ CallType'
  BY DEF EventType, HandlerType, CallType
<1> QED
  BY <1>2, <1>3, <1>4, <1>5

LEMMA BeginType ==
    ASSUME TypeInv, NEW t \in Threads, NEW id \in Ids, NEW l \in PCs \ {"idle"}, getContainer(t, id, l)
    PROVE  TypeInv'
<1> USE DEF TypeInv, mapVars, incVars, exitVars, evVars, histVars, getContainer
<1>1. TableType' /\ TaskType' /\ EventType' /\ HandlerType' /\ HistoryType'
  BY DEF TableType, TaskType, EventType, HandlerType, HistoryType
<1>2. CallType'
  BY DEF CallType, TableType, PCs
<1> QED
  BY <1>1, <1>2

LEMMA SendEventType ==
    ASSUME TypeInv, NEW t \in Threads, NEW l, l # "idle", NEW type \in {"paused", "resumed"},
           SendEvent(t, l, type)
    PROVE  EventType'
<1>1. events' \in Seq(Event)
  BY SendType DEF SendEvent, CallType, TypeInv
<1> QED
  BY <1>1 DEF SendEvent, TypeInv, EventType, exitVars

LEMMA ServeType ==
    ASSUME TypeInv, NEW t \in Threads, Serve(t)
    PROVE  TypeInv'
<1> USE DEF TypeInv, mapVars, incVars, exitVars, evVars, histVars
<1>1. TableType' /\ HandlerType' /\ HistoryType'
  BY DEF TableType, HandlerType, HistoryType, Serve, Pause, Resume, SendPaused, SendResumed,
     Start, State, DeleteErr, InitDelete, Remove, SwitchCmd, SendEvent
<1>2. TaskType'
  <2>1. CASE Start(t) \/ State(t)
    BY <2>1 DEF Start, State, TaskType
  <2>2. CASE InitDelete(t) \/ DeleteErr(t)
    BY <2>2, KilledType DEF InitDelete, DeleteErr, TaskType
  <2>3. CASE Pause(t) \/ Resume(t)
    BY <2>3 DEF Pause, Resume, SwitchCmd, TaskType
  <2>4. CASE Remove(t) \/ SendPaused(t) \/ SendResumed(t)
    BY <2>4 DEF Remove, SendPaused, SendResumed, SendEvent, TaskType
  <2> QED
    BY <2>1, <2>2, <2>3, <2>4 DEF Serve
<1>3. EventType'
  <2>1. CASE SendPaused(t) \/ SendResumed(t)
    BY <2>1, SendEventType DEF SendPaused, SendResumed
  <2>2. CASE ~(SendPaused(t) \/ SendResumed(t))
    BY <2>2 DEF EventType, Serve, Pause, Resume,
       Start, State, DeleteErr, InitDelete, Remove, SwitchCmd
  <2> QED
    BY <2>1, <2>2
<1>4. CallType'
  <2> USE DEF CallType, PCs
  <2>1. ASSUME NEW l \in PCs \ {"idle"}, Goto(t, l), pc[t] # "idle" PROVE CallType'
    BY <2>1 DEF Goto
  <2>2. ASSUME Return(t) PROVE CallType'
    BY <2>2 DEF Return
  <2> QED
    BY <2>1, <2>2 DEF Serve, Pause, Resume, SendPaused, SendResumed, Start, State,
       DeleteErr, InitDelete, Remove, SwitchCmd, SendEvent
<1> QED
  BY <1>1, <1>2, <1>3, <1>4

\* So does what happens to processes, exits and events.
LEMMA ExitType ==
    ASSUME TypeInv, MadeInv, NEW n \in Incs, Die(n) \/ SendExit(n)
    PROVE  TypeInv'
<1> USE DEF TypeInv, mapVars, incVars, exitVars, evVars, rpcVars, histVars, Die, SendExit
<1>1. TableType' /\ CallType' /\ HandlerType' /\ HistoryType'
  BY DEF TableType, CallType, HandlerType, HistoryType
<1>2. TaskType'
  BY KilledType DEF TaskType, KillAll
<1>3. EventType'
  <2>1. CASE Die(n)
    BY <2>1 DEF EventType
  <2>2. CASE SendExit(n)
    <3>1. [id |-> idOf[n], inc |-> n] \in Exit
      BY <2>2 DEF MadeInv, Exit, TableType, Incs
    <3>2. ExitCh' = Append(ExitCh, [id |-> idOf[n], inc |-> n]) /\ UNCHANGED evVars
      BY <2>2
    <3>3. ExitCh' \in Seq(Exit)
      BY <3>1, <3>2 DEF EventType
    <3> QED
      BY <3>2, <3>3 DEF EventType
  <2> QED
    BY <2>1, <2>2
<1> QED
  BY <1>1, <1>2, <1>3

LEMMA HandleType ==
    ASSUME TypeInv, Handler \/ Forward \/ Shutdown \/ CloseEvents
    PROVE  TypeInv'
<1> USE DEF TypeInv, mapVars, incVars, exitVars, evVars, rpcVars, histVars
<1>1. TableType' /\ CallType'
  BY DEF Handler, TableType, CallType, ReceiveExit, FindProcess, HandlerKillAll, SetExited,
     IsOOM, SendTaskExit, Forward, Shutdown, CloseEvents
<1>2. TaskType'
  BY KilledType DEF Handler, TaskType, HandlerType, KillAll, ReceiveExit, FindProcess, HandlerKillAll, SetExited,
     IsOOM, SendTaskExit, Forward, Shutdown, CloseEvents
<1>3. HistoryType'
  <2>1. CASE Forward
    <3>1. Head(events) \in Event
      BY <2>1 DEF Forward, EventType
    <3> QED
      BY <2>1, <3>1 DEF Forward, HistoryType, Event
  <2>2. CASE ~Forward
    BY <2>2 DEF Handler, HistoryType, HandlerType, ReceiveExit, FindProcess, HandlerKillAll, SetExited,
       IsOOM, SendTaskExit, Shutdown, CloseEvents
  <2> QED
    BY <2>1, <2>2
<1>4. EventType'
  <2> USE DEF EventType
  <2>1. CASE ReceiveExit
    BY <2>1 DEF ReceiveExit
  <2>2. CASE IsOOM
    <3>1. CASE oom[h.id] # None /\ send("oom", h.id, oom[h.id])
      <4>1. h.id \in Ids /\ oom[h.id] \in Incs
        BY <2>2, <3>1 DEF IsOOM, TableType, HandlerType
      <4>2. events' \in Seq(Event)
        BY <3>1, <4>1, SendType
      <4> QED
        BY <2>2, <4>2 DEF IsOOM
    <3> QED
      BY <2>2, <3>1 DEF IsOOM
  <2>3. CASE SendTaskExit
    <3>1. events' \in Seq(Event)
      BY <2>3, SendType DEF SendTaskExit, HandlerType
    <3> QED
      BY <2>3, <3>1 DEF SendTaskExit
  <2>4. CASE Forward
    <3>1. Tail(events) \in Seq(Event)
      BY <2>4 DEF Forward
    <3> QED
      BY <2>4, <3>1 DEF Forward
  <2>5. CASE FindProcess \/ HandlerKillAll \/ SetExited \/ Shutdown \/ CloseEvents
    BY <2>5 DEF FindProcess, HandlerKillAll, SetExited, Shutdown, CloseEvents
  <2> QED
    BY <2>1, <2>2, <2>3, <2>4, <2>5 DEF Handler
<1>5. HandlerType'
  <2> USE DEF HandlerType, HPCs, Idle
  <2>1. CASE ReceiveExit
    <3>1. Head(ExitCh) \in Exit
      BY <2>1 DEF ReceiveExit, EventType
    <3> QED
      BY <2>1, <3>1 DEF ReceiveExit, Exit
  <2>2. CASE FindProcess
    BY <2>2 DEF FindProcess, After, TableType
  <2>3. ASSUME NEW l \in HPCs \ {"idle", "find"}, h.pc = l, HandlerGoto(l)
        PROVE  HandlerType'
    BY <2>3 DEF HandlerGoto, After
  <2>4. CASE HandlerKillAll \/ SetExited \/ IsOOM \/ SendTaskExit
    BY <2>3, <2>4 DEF HandlerKillAll, SetExited, IsOOM, SendTaskExit
  <2> QED
    BY <2>1, <2>2, <2>4 DEF Handler, Forward, Shutdown, CloseEvents
<1> QED
  BY <1>1, <1>2, <1>3, <1>4, <1>5

\* Every step preserves the types.
LEMMA StepType ==
    ASSUME TypeInv, MadeInv, [Next]_vars
    PROVE  TypeInv'
<1>1. CASE UNCHANGED vars
  BY <1>1 DEF vars, mapVars, incVars, exitVars, evVars, rpcVars, histVars, TypeInv, TableType, TaskType,
     EventType, HandlerType, CallType, HistoryType
<1>2. ASSUME NEW t \in Threads, NEW id \in Ids, Call(t, id)
      PROVE  TypeInv'
  BY <1>2, BeginType DEF Call, CallStart, CallState, CallDelete, CallPause, CallResume, PCs
<1> QED
  BY <1>1, <1>2, CreateType, ServeType, ExitType, HandleType DEF Next

-----------------------------------------------------------------------------
(* What calls do, and what happens to the channels *)

\* A call other than State of an event client has its container to itself, a
\* task is started that is the last of its id, and one that was started is
\* deleted only when its exit has been told.
LEMMA Begins ==
    ASSUME NEW t \in Threads, NEW id \in Ids, Call(t, id)
    PROVE  \E l \in {"start", "state", "delete", "pause", "resume"} :
              /\ getContainer(t, id, l)
              /\ client = "event" =>
                    /\ l # "state" => ~Busy(id)
                    /\ l = "start" => Latest(id)
                    /\ l = "delete" => waiter[containers[id]] = "none" \/ containers[id] \in told
BY DEF Call, CallStart, CallState, CallDelete, CallPause, CallResume, Free, MayStart, MayDelete

\* An event that is sent is the last one.
LEMMA Sent ==
    ASSUME EventType, NEW type \in {"oom", "exit", "paused", "resumed"}, NEW id \in Ids, NEW n \in Incs,
           send(type, id, n)
    PROVE  \E k \in Nat : /\ DOMAIN events = 1 .. k /\ DOMAIN events' = 1 .. k + 1
                          /\ \A i \in 1 .. k : events'[i] = events[i]
                          /\ events'[k + 1].type = type /\ events'[k + 1].inc = n
<1> DEFINE e == [type |-> type, id |-> id, inc |-> n]
<1>1. e \in Event
  BY DEF Event
<1>2. events' = Append(events, e)
  BY DEF send
<1>3. e.type = type /\ e.inc = n
  OBVIOUS
<1> HIDE DEF e
<1> DEFINE k == Len(events)
<1>4. /\ k \in Nat /\ DOMAIN events = 1 .. k /\ DOMAIN events' = 1 .. k + 1
      /\ \A i \in 1 .. k : events'[i] = events[i]
      /\ events'[k + 1] = e
  BY <1>1, <1>2 DEF EventType
<1> HIDE DEF k
<1> QED
  BY <1>3, <1>4

\* forward takes the first one.
LEMMA Forwarded ==
    ASSUME EventType, Forward
    PROVE  \E k \in Nat : /\ DOMAIN events = 1 .. k + 1 /\ DOMAIN events' = 1 .. k
                          /\ \A i \in 1 .. k : events'[i] = events[i + 1]
                          /\ Head(events) = events[1]
<1> DEFINE k == Len(events) - 1
<1>1. /\ k \in Nat /\ DOMAIN events = 1 .. k + 1 /\ DOMAIN events' = 1 .. k
      /\ \A i \in 1 .. k : events'[i] = events[i + 1]
      /\ Head(events) = events[1]
  BY DEF EventType, Forward
<1> HIDE DEF k
<1> QED
  BY <1>1

\* Exits are handled in order.
LEMMA Received ==
    ASSUME EventType, ReceiveExit
    PROVE  \E k \in Nat : /\ DOMAIN ExitCh = 1 .. k + 1 /\ DOMAIN ExitCh' = 1 .. k
                          /\ \A i \in 1 .. k : ExitCh'[i] = ExitCh[i + 1]
                          /\ Head(ExitCh) = ExitCh[1]
<1> DEFINE k == Len(ExitCh) - 1
<1>1. /\ k \in Nat /\ DOMAIN ExitCh = 1 .. k + 1 /\ DOMAIN ExitCh' = 1 .. k
      /\ \A i \in 1 .. k : ExitCh'[i] = ExitCh[i + 1]
      /\ Head(ExitCh) = ExitCh[1]
  BY DEF EventType, ReceiveExit
<1> HIDE DEF k
<1> QED
  BY <1>1

LEMMA Waited ==
    ASSUME EventType, NEW n \in Incs, idOf[n] \in Ids, SendExit(n)
    PROVE  \E k \in Nat : /\ DOMAIN ExitCh = 1 .. k /\ DOMAIN ExitCh' = 1 .. k + 1
                          /\ \A i \in 1 .. k : ExitCh'[i] = ExitCh[i]
                          /\ ExitCh'[k + 1].id = idOf[n] /\ ExitCh'[k + 1].inc = n
<1> DEFINE x == [id |-> idOf[n], inc |-> n]
<1>1. x \in Exit
  BY DEF Exit
<1>2. ExitCh' = Append(ExitCh, x)
  BY DEF SendExit
<1>3. x.id = idOf[n] /\ x.inc = n
  OBVIOUS
<1> HIDE DEF x
<1> DEFINE k == Len(ExitCh)
<1>4. /\ k \in Nat /\ DOMAIN ExitCh = 1 .. k /\ DOMAIN ExitCh' = 1 .. k + 1
      /\ \A i \in 1 .. k : ExitCh'[i] = ExitCh[i]
      /\ ExitCh'[k + 1] = x
  BY <1>1, <1>2 DEF EventType
<1> HIDE DEF k
<1> QED
  BY <1>3, <1>4

\* What is in the channels is about incarnations.
LEMMA Items ==
    ASSUME EventType
    PROVE  /\ \A i \in DOMAIN events : events[i].inc \in Incs /\ events[i].id \in Ids
                 /\ events[i].type \in {"oom", "exit", "paused", "resumed"}
           /\ \A i \in DOMAIN ExitCh : ExitCh[i].inc \in Incs /\ ExitCh[i].id \in Ids
<1>1. \A i \in DOMAIN events : events[i] \in Event
  BY DEF EventType
<1>2. \A i \in DOMAIN ExitCh : ExitCh[i] \in Exit
  BY DEF EventType
<1> QED
  BY <1>1, <1>2 DEF Event, Exit

\* Events change in one of four ways.
LEMMA EventSteps ==
    ASSUME TypeInv, [Next]_vars
    PROVE  \/ events' = events /\ told' = told
           \/ Forward
           \/ SendTaskExit
           \/ IsOOM /\ oom[h.id] # None /\ send("oom", h.id, oom[h.id])
           \/ \E t \in Threads : SendPaused(t) \/ SendResumed(t)
<1>1. CASE UNCHANGED vars
  BY <1>1 DEF vars, evVars
<1>2. ASSUME NEW t \in Threads, NEW id \in Ids, Call(t, id)
      PROVE  events' = events /\ told' = told
  BY <1>2 DEF Call, CallStart, CallState, CallDelete, CallPause, CallResume, getContainer, evVars
<1>3. ASSUME NEW t \in Threads, Serve(t), ~SendPaused(t), ~SendResumed(t)
      PROVE  events' = events /\ told' = told
  BY <1>3 DEF Serve, Start, State, DeleteErr, InitDelete, Remove, Pause, Resume,
     SwitchCmd, evVars
<1>4. ASSUME NEW n \in Incs, Die(n) \/ SendExit(n)
      PROVE  events' = events /\ told' = told
  BY <1>4 DEF Die, SendExit, evVars
<1>5. CASE Handler
  BY <1>5 DEF Handler, ReceiveExit, FindProcess, HandlerKillAll, SetExited, IsOOM, SendTaskExit, evVars
<1>6. CASE Shutdown \/ CloseEvents \/ (\E id \in Ids : Create(id))
  BY <1>6 DEF Shutdown, CloseEvents, Create, evVars
<1> QED
  BY <1>1, <1>2, <1>3, <1>4, <1>5, <1>6 DEF Next

\* A step of a call is a step of its goroutine: it returns or it goes on.
LEMMA Served ==
    ASSUME TypeInv, NEW t \in Threads, Serve(t)
    PROVE  /\ \A u \in Threads \ {t} : pc'[u] = pc[u] /\ on'[u] = on[u] /\ obj'[u] = obj[u]
           /\ \/ pc'[t] = "idle" /\ on'[t] = None
              \/ /\ on'[t] = on[t] /\ obj'[t] = obj[t]
                 /\ \/ pc[t] = "delete" /\ pc'[t] = "remove"
                    \/ pc[t] = "pause" /\ pc'[t] = "sendpaused"
                    \/ pc[t] = "resume" /\ pc'[t] = "sendresumed"
           /\ pc[t] \notin {"idle"}
           /\ IF pc[t] = "remove" THEN containers' = [containers EXCEPT ![on[t]] = None]
              ELSE containers' = containers
<1> USE DEF TypeInv, CallType, mapVars
<1>1. pc[t] \notin {"idle"} /\ (IF pc[t] = "remove" THEN containers' = [containers EXCEPT ![on[t]] = None]
                               ELSE containers' = containers)
  BY DEF Serve, Start, State, DeleteErr, InitDelete, Remove, Pause, Resume,
     SwitchCmd, SendPaused, SendResumed, SendEvent
<1>2. \/ Return(t)
      \/ pc[t] = "delete" /\ Goto(t, "remove")
      \/ pc[t] = "pause" /\ Goto(t, "sendpaused")
      \/ pc[t] = "resume" /\ Goto(t, "sendresumed")
  BY DEF Serve, Start, State, DeleteErr, InitDelete, Remove, Pause, Resume,
     SwitchCmd, SendPaused, SendResumed, SendEvent
<1> QED
  BY <1>1, <1>2 DEF Return, Goto

\* A call that begins is about the container that is registered.
LEMMA Begun ==
    ASSUME TypeInv, NEW t \in Threads, NEW id \in Ids, NEW l, getContainer(t, id, l)
    PROVE  /\ \A u \in Threads \ {t} : pc'[u] = pc[u] /\ on'[u] = on[u] /\ obj'[u] = obj[u]
           /\ pc[t] = "idle" /\ pc'[t] = l /\ on'[t] = id /\ obj'[t] = containers[id]
           /\ containers[id] # None /\ Serving
           /\ UNCHANGED <<mapVars, incVars, rt, exitVars, evVars, client, histVars>>
BY DEF TypeInv, CallType, getContainer

\* Nothing else touches the calls, and only Create adds to the map.
LEMMA Elsewhere ==
    ASSUME [Next]_vars,
           ~ \E t \in Threads : Serve(t) \/ (\E id \in Ids : Call(t, id))
    PROVE  /\ UNCHANGED rpcVars
           /\ containers' = containers \/ \E id \in Ids : Create(id)
BY DEF Next, Create, Die, SendExit, Handler, ReceiveExit, FindProcess, HandlerKillAll, SetExited,
   IsOOM, SendTaskExit, Forward, Shutdown, CloseEvents, vars, rpcVars, mapVars

\* Only Create puts something into runsc, names an incarnation, or gives the
\* OOM poller a cgroup.
LEMMA Rest ==
    ASSUME TypeInv, [Next]_vars, ~ \E id \in Ids : Create(id)
    PROVE  /\ \A n \in Incs : rt'[n] # "absent" => rt[n] # "absent"
           /\ UNCHANGED <<made, idOf, astray, unpolled>> /\ lost \subseteq lost'
           /\ \A id \in Ids : oom'[id] \in {oom[id], None}
<1> USE DEF TypeInv, mapVars, incVars, histVars
<1> DEFINE Shrinks ==
      /\ \A n \in Incs : rt'[n] # "absent" => rt[n] # "absent"
      /\ UNCHANGED <<made, idOf, astray, unpolled>> /\ lost \subseteq lost'
      /\ \A id \in Ids : oom'[id] \in {oom[id], None}
<1>1. CASE UNCHANGED vars
  BY <1>1 DEF vars
<1>2. ASSUME NEW t \in Threads, Serve(t) PROVE Shrinks
  <2>1. CASE DeleteErr(t) \/ InitDelete(t)
    BY <2>1, KilledType DEF DeleteErr, InitDelete
  <2>2. CASE ~DeleteErr(t) /\ ~InitDelete(t)
    BY <1>2, <2>2 DEF Serve, Start, State, Remove, Pause, Resume,
       SwitchCmd, SendPaused, SendResumed, SendEvent, InRunsc
  <2> QED
    BY <2>1, <2>2
<1>3. ASSUME NEW t \in Threads, NEW id \in Ids, Call(t, id) PROVE Shrinks
  BY <1>3 DEF Call, CallStart, CallState, CallDelete, CallPause, CallResume, getContainer
<1>4. ASSUME NEW n \in Incs, Die(n) \/ SendExit(n) PROVE Shrinks
  BY <1>4, KilledType DEF Die, SendExit, KillAll, TaskType
<1>5. CASE Handler
  <2>1. CASE IsOOM
    BY <2>1 DEF IsOOM, TableType
  <2>2. CASE ~IsOOM
    BY <1>5, <2>2, KilledType DEF Handler, ReceiveExit, FindProcess, HandlerKillAll, KillAll, SetExited,
       SendTaskExit
  <2> QED
    BY <2>1, <2>2
<1>6. CASE Forward \/ Shutdown \/ CloseEvents
  BY <1>6 DEF Forward, Shutdown, CloseEvents
<1> QED
  BY <1>1, <1>2, <1>3, <1>4, <1>5, <1>6 DEF Next

\* The goroutine of a start is spawned by Start and ends with the exit; who
\* has been told of an exit stays told.
LEMMA Waiters ==
    ASSUME TypeInv, [Next]_vars
    PROVE  /\ \A n \in Incs : waiter'[n] # waiter[n] =>
                 \/ waiter[n] = "waiting" /\ waiter'[n] = "sent" /\ SendExit(n)
                 \/ waiter'[n] = "waiting" /\ state[n] = "created"
                    /\ \E t \in Threads : Start(t) /\ pc[t] = "start" /\ obj[t] = n
           /\ told \subseteq told'
<1> USE DEF TypeInv, incVars, evVars
<1>1. CASE UNCHANGED vars
  BY <1>1 DEF vars
<1>2. ASSUME NEW t \in Threads, Serve(t), ~Start(t)
      PROVE  UNCHANGED <<waiter, told>>
  BY <1>2 DEF Serve, State, DeleteErr, InitDelete, Remove, Pause, Resume,
     SwitchCmd, SendPaused, SendResumed, SendEvent
<1>3. ASSUME NEW t \in Threads, NEW id \in Ids, Call(t, id)
      PROVE  UNCHANGED <<waiter, told>>
  BY <1>3 DEF Call, CallStart, CallState, CallDelete, CallPause, CallResume, getContainer
<1>4. ASSUME NEW n \in Incs, Die(n) \/ SendExit(n)
      PROVE  \/ UNCHANGED <<waiter, told>>
             \/ waiter[n] = "waiting" /\ waiter' = [waiter EXCEPT ![n] = "sent"] /\ SendExit(n) /\ told' = told
  BY <1>4 DEF Die, SendExit
<1>5. CASE Handler \/ Forward \/ Shutdown \/ CloseEvents
  BY <1>5 DEF Handler, ReceiveExit, FindProcess, HandlerKillAll, SetExited, IsOOM,
     SendTaskExit, Forward, Shutdown, CloseEvents
<1>6. ASSUME NEW id \in Ids, Create(id)
      PROVE  UNCHANGED <<waiter, told>>
  BY <1>6 DEF Create
<1>7. ASSUME NEW t \in Threads, Start(t)
      PROVE  \/ UNCHANGED <<waiter, told>>
             \/ /\ state[obj[t]] = "created" /\ pc[t] = "start"
                /\ waiter' = [waiter EXCEPT ![obj[t]] = "waiting"] /\ told' = told
  BY <1>7 DEF Start
<1>8. CASE UNCHANGED <<waiter, told>>
  BY <1>8
<1> QED
  BY <1>1, <1>2, <1>3, <1>4, <1>5, <1>6, <1>7, <1>8 DEF Next, TaskType

LEMMA SameClient ==
    ASSUME [Next]_vars
    PROVE  client' = client
BY DEF Next, Create, Call, CallStart, CallState, CallDelete, CallPause, CallResume, getContainer, Serve,
   Start, State, DeleteErr, InitDelete, Remove, Pause, Resume, SwitchCmd, SendPaused, SendResumed, SendEvent,
   Die, SendExit, Handler, ReceiveExit, FindProcess, HandlerKillAll, SetExited, IsOOM, SendTaskExit, Forward,
   Shutdown, CloseEvents, vars

-----------------------------------------------------------------------------
(* What holds whatever clients do *)

\* A Create makes an incarnation that is not known anywhere.
LEMMA Creates ==
    ASSUME TypeInv, MadeInv, NEW id \in Ids, Create(id)
    PROVE  \E n \in Incs :
              /\ n = made + 1 /\ made' = n /\ n > made /\ rt[n] = "absent" /\ waiter[n] = "none"
              /\ n \notin astray
              /\ \A m \in Incs : (m <= n <=> m <= made \/ m = n) /\ (m > n => m > made /\ m # n)
              /\ idOf'[n] = id /\ rt'[n] = "running"
              /\ \A m \in Incs \ {n} : idOf'[m] = idOf[m] /\ rt'[m] = rt[m] /\ state'[m] = state[m]
              /\ \A i \in Ids \ {id} : containers'[i] = containers[i] /\ oom'[i] = oom[i]
              /\ \/ /\ containers'[id] = n /\ state'[n] = "created"
                    /\ oom'[id] = n \/ n \in unpolled'
                    /\ astray' = IF Removing(id) THEN astray \cup {n} ELSE astray
                 \/ /\ containers' = containers /\ oom' = oom /\ state' = state
                    /\ astray' = astray \cup {n}
              /\ InRunsc(id) = {} /\ Free(id)
              /\ unpolled \subseteq unpolled'
              /\ UNCHANGED <<waiter, exited, told, lost, ExitCh, h, events, down, pc, on, obj, client>>
<1> USE DEF TypeInv
<1>1. made \in Nat /\ made + 1 \in Incs /\ made < MaxInc
  BY DEF Create, TableType, Incs
<1>2. PICK n \in Incs : n = made + 1
  BY <1>1
<1>3. n > made /\ \A m \in Incs : (m <= n <=> m <= made \/ m = n) /\ (m > n => m > made /\ m # n)
  BY <1>1, <1>2 DEF Incs
<1>4. /\ idOf' = [idOf EXCEPT ![n] = id] /\ rt' = [rt EXCEPT ![n] = "running"] /\ made' = n
      /\ InRunsc(id) = {} /\ Free(id)
      /\ UNCHANGED <<waiter, exited, told, lost, ExitCh, h, events, down, pc, on, obj, client>>
  BY <1>2 DEF Create, exitVars, evVars, rpcVars
<1>5. /\ idOf'[n] = id /\ rt'[n] = "running"
      /\ \A m \in Incs \ {n} : idOf'[m] = idOf[m] /\ rt'[m] = rt[m]
  BY <1>4 DEF TableType, TaskType
<1>6. \/ /\ containers' = [containers EXCEPT ![id] = n] /\ state' = [state EXCEPT ![n] = "created"]
         /\ \/ oom' = [oom EXCEPT ![id] = n] /\ unpolled' = unpolled
            \/ oom' = oom /\ unpolled' = unpolled \cup {n}
         /\ astray' = IF Removing(id) THEN astray \cup {n} ELSE astray
      \/ /\ containers' = containers /\ oom' = oom /\ state' = state /\ unpolled' = unpolled
         /\ astray' = astray \cup {n}
  BY <1>2 DEF Create, Register
<1>7. /\ \A m \in Incs \ {n} : state'[m] = state[m]
      /\ \A i \in Ids \ {id} : containers'[i] = containers[i] /\ oom'[i] = oom[i]
      /\ unpolled \subseteq unpolled'
      /\ \/ /\ containers'[id] = n /\ state'[n] = "created"
            /\ oom'[id] = n \/ n \in unpolled'
            /\ astray' = IF Removing(id) THEN astray \cup {n} ELSE astray
         \/ /\ containers' = containers /\ oom' = oom /\ state' = state
            /\ astray' = astray \cup {n}
  BY <1>6 DEF TableType, TaskType
<1>8. rt[n] = "absent" /\ waiter[n] = "none" /\ n \notin astray
  BY <1>3 DEF MadeInv
<1> QED
  BY <1>2, <1>3, <1>4, <1>5, <1>7, <1>8

LEMMA KeptCreate ==
    ASSUME TypeInv, KeptInv, NEW id \in Ids, Create(id)
    PROVE  KeptInv'
<1> USE DEF TypeInv
<1>1. PICK n \in Incs :
              /\ n = made + 1 /\ made' = n /\ n > made /\ rt[n] = "absent" /\ waiter[n] = "none"
              /\ n \notin astray
              /\ \A m \in Incs : (m <= n <=> m <= made \/ m = n) /\ (m > n => m > made /\ m # n)
              /\ idOf'[n] = id /\ rt'[n] = "running"
              /\ \A m \in Incs \ {n} : idOf'[m] = idOf[m] /\ rt'[m] = rt[m]
              /\ \A i \in Ids \ {id} : containers'[i] = containers[i]
              /\ \/ containers'[id] = n /\ astray' = IF Removing(id) THEN astray \cup {n} ELSE astray
                 \/ containers' = containers /\ astray' = astray \cup {n}
              /\ InRunsc(id) = {}
              /\ UNCHANGED <<waiter, pc, on, obj>>
  BY Creates DEF KeptInv
<1>2. n <= n /\ \A m \in Incs : m <= made => m # n /\ m <= n
  BY <1>1 DEF TableType, Incs
<1>3. \A t \in Threads : pc[t] # "idle" => on[t] \in Ids /\ obj[t] \in Incs
  BY DEF CallType
<1>k. /\ \A m \in Incs : m > made =>
           idOf[m] = None /\ rt[m] = "absent" /\ waiter[m] = "none" /\ m \notin astray
      /\ \A m \in Incs : m <= made => idOf[m] \in Ids
      /\ \A i \in Ids : containers[i] # None => containers[i] <= made /\ idOf[containers[i]] = i
      /\ \A t \in Threads : pc[t] # "idle" => obj[t] <= made /\ idOf[obj[t]] = on[t]
      /\ \A i \in Ids : containers[i] # None => containers[i] \in Incs
  BY DEF KeptInv, MadeInv, TableType
<1>4. MadeInv'
  <2>1. \A m \in Incs : m > made' =>
           idOf'[m] = None /\ rt'[m] = "absent" /\ waiter'[m] = "none" /\ m \notin astray'
    BY <1>1, <1>k
  <2>2. \A m \in Incs : m <= made' => idOf'[m] \in Ids
    <3> SUFFICES ASSUME NEW m \in Incs, m <= n PROVE idOf'[m] \in Ids
      BY <1>1
    <3>1. m = n \/ (m <= made /\ m \in Incs \ {n})
      BY <1>1
    <3> QED
      BY <1>1, <1>k, <3>1
  <2>3. \A i \in Ids : containers'[i] # None => containers'[i] <= made' /\ idOf'[containers'[i]] = i
    <3> SUFFICES ASSUME NEW i \in Ids, containers'[i] # None
                 PROVE  containers'[i] <= made' /\ idOf'[containers'[i]] = i
      OBVIOUS
    <3>1. CASE i = id /\ containers'[id] = n
      BY <1>1, <1>2, <3>1
    <3>2. CASE containers'[i] = containers[i]
      <4>1. PICK c \in Incs : c = containers[i]
        BY <1>k, <3>2
      <4>2. c \in Incs \ {n} /\ c <= n /\ idOf[c] = i
        BY <1>2, <1>k, <3>2, <4>1
      <4>3. idOf'[c] = i
        BY <1>1, <4>2
      <4> QED
        BY <1>1, <3>2, <4>1, <4>2, <4>3
    <3> QED
      BY <1>1, <3>1, <3>2
  <2>4. \A t \in Threads : pc'[t] # "idle" => obj'[t] <= made' /\ idOf'[obj'[t]] = on'[t]
    <3> SUFFICES ASSUME NEW t \in Threads, pc[t] # "idle"
                 PROVE  obj[t] <= n /\ idOf'[obj[t]] = on[t]
      BY <1>1
    <3>1. obj[t] \in Incs \ {n} /\ obj[t] <= n /\ idOf[obj[t]] = on[t]
      BY <1>2, <1>3, <1>k
    <3> QED
      BY <1>1, <3>1
  <2> QED
    BY <2>1, <2>2, <2>3, <2>4 DEF MadeInv
<1>5. LatestInv'
  <2> SUFFICES ASSUME NEW k \in Incs, NEW m \in Incs, rt'[k] # "absent", idOf'[m] = idOf'[k]
               PROVE  m <= k
    BY DEF LatestInv
  <2>1. CASE k = n
    <3>1. m = n \/ (m # n /\ idOf[m] = id)
      BY <1>1, <2>1
    <3> QED
      BY <1>1, <1>2, <1>k, <2>1, <3>1 DEF TableType, Incs
  <2>2. CASE k # n
    <3>1. rt[k] # "absent" /\ idOf[k] # id /\ idOf'[k] = idOf[k]
      BY <1>1, <2>2 DEF InRunsc
    <3>2. m # n /\ idOf[m] = idOf[k]
      BY <1>1, <3>1
    <3> QED
      BY <3>1, <3>2 DEF KeptInv, LatestInv
  <2> QED
    BY <2>1, <2>2
<1>6. RemoveInv'
  <2> SUFFICES ASSUME NEW t \in Threads, pc[t] = "remove", NEW m \in Incs,
                      idOf'[m] = on[t], rt'[m] # "absent"
               PROVE  m \in astray'
    BY <1>1 DEF RemoveInv, InRunsc
  <2>1. CASE m = n
    BY <1>1, <2>1 DEF Removing
  <2>2. CASE m # n
    <3>1. m \in InRunsc(on[t])
      BY <1>1, <2>2 DEF InRunsc
    <3> QED
      BY <1>1, <3>1 DEF KeptInv, RemoveInv
  <2> QED
    BY <2>1, <2>2
<1>7. NothingForgotten'
  <2> SUFFICES ASSUME NEW m \in Incs, m \notin astray', rt'[m] # "absent"
               PROVE  containers'[idOf'[m]] = m
    BY DEF NothingForgotten
  <2>1. CASE m = n
    BY <1>1, <2>1
  <2>2. CASE m # n
    <3>1. rt[m] # "absent" /\ idOf'[m] = idOf[m] /\ m \notin astray
      BY <1>1, <2>2
    <3>2. containers[idOf[m]] = m /\ idOf[m] \in Ids \ {id}
      BY <1>1, <3>1 DEF KeptInv, NothingForgotten, MadeInv, InRunsc, TableType, Incs
    <3> QED
      BY <1>1, <3>1, <3>2
  <2> QED
    BY <2>1, <2>2
<1> QED
  BY <1>4, <1>5, <1>6, <1>7 DEF KeptInv

LEMMA MadeRest ==
    ASSUME TypeInv, KeptInv, [Next]_vars, ~ \E id \in Ids : Create(id)
    PROVE  MadeInv' /\ LatestInv'
<1> USE DEF TypeInv
<1>1. /\ UNCHANGED <<made, idOf, astray>>
      /\ \A n \in Incs : rt'[n] # "absent" => rt[n] # "absent"
  BY Rest
<1>2. \A n \in Incs : n > made => waiter'[n] = "none"
  <2> SUFFICES ASSUME NEW n \in Incs, n > made, waiter'[n] # waiter[n]
               PROVE  FALSE
    BY DEF KeptInv, MadeInv
  <2>1. PICK t \in Threads : pc[t] = "start" /\ obj[t] = n
    BY Waiters DEF KeptInv, MadeInv
  <2> QED
    BY <2>1 DEF KeptInv, MadeInv, Incs, TableType
<1>3. ASSUME NEW t \in Threads, NEW id \in Ids, Call(t, id)
      PROVE  MadeInv'
  <2>1. PICK l \in {"start", "state", "delete", "pause", "resume"} : getContainer(t, id, l)
    BY <1>3, Begins
  <2>2. /\ \A u \in Threads \ {t} : pc'[u] = pc[u] /\ on'[u] = on[u] /\ obj'[u] = obj[u]
        /\ on'[t] = id /\ obj'[t] = containers[id] /\ containers[id] # None
        /\ UNCHANGED <<containers, rt, waiter>>
    BY <2>1, Begun DEF mapVars, incVars
  <2> QED
    BY <1>1, <2>2 DEF KeptInv, MadeInv
<1>4. ASSUME NEW t \in Threads, Serve(t)
      PROVE  MadeInv'
  <2>1. \A id \in Ids : containers'[id] \in {containers[id], None}
    BY <1>4, Served DEF TableType
  <2>2. \A u \in Threads : pc'[u] # "idle" => pc[u] # "idle" /\ obj'[u] = obj[u] /\ on'[u] = on[u]
    BY <1>4, Served
  <2> QED
    BY <1>1, <1>2, <2>1, <2>2 DEF KeptInv, MadeInv, TaskType
<1>5. ASSUME ~ \E t \in Threads : Serve(t) \/ (\E id \in Ids : Call(t, id))
      PROVE  MadeInv'
  <2>1. UNCHANGED <<containers, pc, on, obj>>
    BY <1>5, Elsewhere DEF rpcVars
  <2> QED
    BY <1>1, <1>2, <2>1 DEF KeptInv, MadeInv
<1>6. LatestInv'
  BY <1>1 DEF KeptInv, LatestInv
<1> QED
  BY <1>3, <1>4, <1>5, <1>6

\* Only InitDelete goes on to remove, and it has taken the id out of runsc.
LEMMA RemoveRest ==
    ASSUME TypeInv, KeptInv, [Next]_vars, ~ \E id \in Ids : Create(id)
    PROVE  RemoveInv' /\ NothingForgotten'
<1> USE DEF TypeInv
<1>1. /\ UNCHANGED <<idOf, astray>>
      /\ \A n \in Incs : rt'[n] # "absent" => rt[n] # "absent"
  BY Rest
<1>2. ASSUME NEW t \in Threads, pc[t] = "remove", on'[t] = on[t]
      PROVE  InRunsc(on[t])' \subseteq astray'
  BY <1>1, <1>2 DEF KeptInv, RemoveInv, InRunsc
<1>3. ASSUME NEW t \in Threads, NEW id \in Ids, Call(t, id)
      PROVE  RemoveInv' /\ containers' = containers
  <2>1. PICK l \in {"start", "state", "delete", "pause", "resume"} : getContainer(t, id, l)
    BY <1>3, Begins
  <2>2. /\ \A u \in Threads \ {t} : pc'[u] = pc[u] /\ on'[u] = on[u]
        /\ pc'[t] = l /\ containers' = containers
    BY <2>1, Begun DEF mapVars
  <2>3. \A u \in Threads : pc'[u] = "remove" => pc[u] = "remove" /\ on'[u] = on[u]
    BY <2>2
  <2> QED
    BY <1>2, <2>2, <2>3 DEF RemoveInv
<1>4. ASSUME NEW t \in Threads, Serve(t)
      PROVE  RemoveInv'
  <2> SUFFICES ASSUME NEW u \in Threads, pc'[u] = "remove"
               PROVE  InRunsc(on[u])' \subseteq astray'
    BY DEF RemoveInv
  <2>1. CASE pc[u] = "remove"
    <3>1. on'[u] = on[u]
      BY <1>4, <2>1, Served
    <3> QED
      BY <1>2, <2>1, <3>1
  <2>2. CASE pc[u] # "remove"
    <3>1. u = t /\ pc[u] = "delete" /\ on'[u] = on[u]
      BY <1>4, <2>2, Served
    <3>2. InitDelete(u)
      BY <1>4, <2>2, <3>1 DEF Serve, Start, State, DeleteErr, Remove, Pause, Resume,
         SwitchCmd, SendPaused, SendResumed, SendEvent, Return, CallType
    <3>3. \A m \in Incs : idOf[m] = on[u] => rt'[m] = "absent"
      BY <3>2 DEF InitDelete, Gone, InRunsc
    <3> QED
      BY <1>1, <3>1, <3>3 DEF InRunsc
  <2> QED
    BY <2>1, <2>2
<1>5. ASSUME ~ \E t \in Threads : Serve(t) \/ (\E id \in Ids : Call(t, id))
      PROVE  RemoveInv'
  <2>1. UNCHANGED <<containers, pc, on>>
    BY <1>5, Elsewhere DEF rpcVars
  <2> QED
    BY <1>2, <2>1 DEF RemoveInv
<1>6. NothingForgotten'
  <2> SUFFICES ASSUME NEW n \in Incs, n \notin astray, rt[n] # "absent"
               PROVE  containers'[idOf[n]] = n
    BY <1>1 DEF NothingForgotten
  <2>1. containers[idOf[n]] = n /\ idOf[n] \in Ids
    BY DEF KeptInv, NothingForgotten, MadeInv, TableType, Incs
  <2>2. ASSUME NEW t \in Threads, Serve(t)
        PROVE  containers'[idOf[n]] = n
    <3>1. CASE pc[t] = "remove"
      <4>1. on[t] # idOf[n]
        BY <3>1 DEF KeptInv, RemoveInv, InRunsc
      <4> QED
        BY <2>1, <2>2, <3>1, <4>1, Served DEF TableType
    <3>2. CASE pc[t] # "remove"
      BY <2>1, <2>2, <3>2, Served
    <3> QED
      BY <3>1, <3>2
  <2>3. containers' = containers \/ \E t \in Threads : Serve(t)
    BY <1>3, Elsewhere
  <2> QED
    BY <2>1, <2>2, <2>3
<1> QED
  BY <1>3, <1>4, <1>5, <1>6

LEMMA KeptStep ==
    ASSUME TypeInv, KeptInv, [Next]_vars
    PROVE  KeptInv'
<1>1. CASE \E id \in Ids : Create(id)
  BY <1>1, KeptCreate
<1>2. CASE ~ \E id \in Ids : Create(id)
  BY <1>2, MadeRest, RemoveRest DEF KeptInv
<1> QED
  BY <1>1, <1>2

LEMMA InitKept == Init => KeptInv
BY DEF Init, KeptInv, MadeInv, LatestInv, RemoveInv, NothingForgotten, Incs

\* runsc has at most one incarnation of an id, the last.
LEMMA OneLeft ==
    ASSUME KeptInv, NEW n \in Incs, NEW m \in Incs, NEW id,
           n \in InRunsc(id), m \in InRunsc(id)
    PROVE  m = n
BY DEF KeptInv, LatestInv, InRunsc, Incs

-----------------------------------------------------------------------------
(* What is busy *)

LEMMA CallStep ==
    ASSUME client = "event", TypeInv, KeptInv, CallInv, [Next]_vars
    PROVE  CallInv'
<1> USE DEF TypeInv
<1>0. /\ \A t \in Threads : pc[t] # "idle" => on[t] \in Ids /\ obj[t] \in Incs
      /\ \A t \in Threads : pc[t] = "idle" => on[t] = None
  BY DEF CallType
<1>1. ASSUME NEW t \in Threads, NEW id \in Ids, Call(t, id)
      PROVE  CallInv'
  <2>1. PICK l \in {"start", "state", "delete", "pause", "resume"} :
               getContainer(t, id, l) /\ (l # "state" => ~Busy(id)) /\ (l = "start" => Latest(id))
    BY <1>1, Begins
  <2>2. /\ \A u \in Threads \ {t} : pc'[u] = pc[u] /\ on'[u] = on[u] /\ obj'[u] = obj[u]
        /\ pc'[t] = l /\ on'[t] = id /\ obj'[t] = containers[id] /\ containers' = containers
        /\ idOf' = idOf
    BY <2>1, Begun DEF mapVars, incVars
  <2> QED
    BY <2>1, <2>2 DEF CallInv, Busy, Latest
<1>2. ASSUME NEW t \in Threads, Serve(t)
      PROVE  CallInv'
  <2>0. idOf' = idOf
    BY <1>2 DEF Serve, Start, State, DeleteErr, InitDelete, Remove, Pause, Resume, SwitchCmd,
       SendPaused, SendResumed, SendEvent, incVars
  <2>1. CASE pc[t] = "remove"
    <3>1. /\ containers'[on[t]] = None
          /\ \A i \in Ids \ {on[t]} : containers'[i] = containers[i]
      BY <1>2, <2>1, Served, <1>0 DEF TableType
    <3> QED
      BY <1>0, <1>2, <2>0, <2>1, <3>1, Served DEF CallInv
  <2>2. CASE pc[t] # "remove"
    BY <1>2, <2>0, <2>2, Served DEF CallInv
  <2> QED
    BY <2>1, <2>2
<1>3. ASSUME NEW id \in Ids, Create(id)
      PROVE  CallInv'
  <2>1. PICK n \in Incs :
           /\ UNCHANGED <<pc, on, obj>> /\ Free(id) /\ idOf'[n] = id
           /\ \A m \in Incs \ {n} : idOf'[m] = idOf[m]
           /\ \A i \in Ids \ {id} : containers'[i] = containers[i]
    BY <1>3, Creates DEF KeptInv
  <2>2. \A t \in Threads : pc[t] # "state" => on[t] # id
    BY <2>1 DEF Free, Busy
  <2> QED
    BY <1>0, <2>1, <2>2 DEF CallInv
<1>4. ASSUME ~ \E t \in Threads : Serve(t) \/ (\E id \in Ids : Call(t, id)),
             ~ \E id \in Ids : Create(id)
      PROVE  CallInv'
  <2>1. UNCHANGED <<pc, on, obj, containers, idOf>>
    BY <1>4, Elsewhere, Rest DEF rpcVars
  <2> QED
    BY <2>1 DEF CallInv
<1> QED
  BY <1>1, <1>2, <1>3, <1>4

-----------------------------------------------------------------------------
(* What is deleted *)

\* A task starts that is alive.
LEMMA Starts ==
    ASSUME client = "event", TypeInv, KeptInv, CallInv, NEW t \in Threads, Start(t)
    PROVE  \E n \in Incs :
              /\ n = obj[t] /\ on[t] \in Ids /\ containers[idOf[n]] = n /\ pc[t] = "start"
              /\ UNCHANGED <<containers, oom, made, idOf, exited, rt, ExitCh, h, events, down, told,
                             astray, unpolled, lost>>
              /\ \/ /\ state[n] = "created" /\ rt[n] \in {"running", "paused"}
                    /\ state' = [state EXCEPT ![n] = "running"]
                    /\ waiter' = [waiter EXCEPT ![n] = "waiting"]
                 \/ state[n] = "created" /\ state' = [state EXCEPT ![n] = "stopped"] /\ waiter' = waiter
                 \/ state' = state /\ waiter' = waiter
<1> USE DEF TypeInv
<1>1. PICK n \in Incs : n = obj[t]
  BY DEF Start, CallType
<1>2. /\ pc[t] = "start" /\ on[t] \in Ids /\ idOf[n] = on[t] /\ containers[idOf[n]] = n
      /\ \A m \in Incs : idOf[m] = on[t] => m <= n
  BY <1>1 DEF Start, CallType, KeptInv, MadeInv, CallInv
<1>3. ASSUME NEW m \in Alive(on[t])
      PROVE  rt[n] \in {"running", "paused"}
  <2>1. m \in Incs /\ idOf[m] = idOf[n] /\ rt[m] \in {"running", "paused"} /\ rt[m] # "absent"
    BY <1>2, <1>3 DEF Alive, InRunsc
  <2>2. n <= m /\ m <= n
    BY <1>2, <2>1 DEF KeptInv, LatestInv
  <2>3. m = n
    BY <2>1, <2>2 DEF Incs
  <2> QED
    BY <2>1, <2>3
<1>4. /\ UNCHANGED <<containers, oom, made, idOf, exited, rt, ExitCh, h, events, down, told,
                     astray, unpolled, lost>>
      /\ \/ /\ state[n] = "created" /\ Alive(on[t]) # {}
            /\ state' = [state EXCEPT ![n] = "running"]
            /\ waiter' = [waiter EXCEPT ![n] = "waiting"]
         \/ state[n] = "created" /\ state' = [state EXCEPT ![n] = "stopped"] /\ waiter' = waiter
         \/ state' = state /\ waiter' = waiter
  BY <1>1 DEF Start, mapVars, exitVars, evVars, histVars
<1> QED
  BY <1>1, <1>2, <1>3, <1>4

\* Where the state of a task comes from.
LEMMA States ==
    ASSUME client = "event", TypeInv, KeptInv, CallInv, DeleteInv, TokenInv, [Next]_vars,
           NEW n \in Incs, state'[n] # state[n]
    PROVE  \/ /\ state[n] = "created" /\ state'[n] = "running"
              /\ \E t \in Threads : Start(t) /\ obj[t] = n
           \/ state[n] \in {"created", "running"} /\ state'[n] = "stopped"
           \/ state[n] \in {"created", "stopped"} /\ state'[n] = "deleted"
           \/ /\ n = made + 1 /\ made' = n /\ n \notin astray' /\ state'[n] = "created"
              /\ \E id \in Ids : Create(id)
<1> USE DEF TypeInv, TaskType, incVars
<1>1. CASE UNCHANGED vars
  BY <1>1 DEF vars
<1>2. ASSUME NEW t \in Threads, Serve(t)
      PROVE  \/ state[n] = "created" /\ state'[n] = "running" /\ Start(t) /\ obj[t] = n
             \/ state[n] \in {"created", "running"} /\ state'[n] = "stopped"
             \/ state[n] \in {"created", "stopped"} /\ state'[n] = "deleted"
  BY <1>2 DEF Serve, Start, State, DeleteErr, InitDelete, Remove, Pause, Resume,
     SwitchCmd, SendPaused, SendResumed, SendEvent, CallType
<1>3. ASSUME NEW t \in Threads, NEW id \in Ids, Call(t, id) PROVE FALSE
  BY <1>3 DEF Call, CallStart, CallState, CallDelete, CallPause, CallResume, getContainer
<1>4. CASE SetExited
  <2>1. h.found \in Incs /\ waiter[h.found] = "sent"
    BY <1>4 DEF SetExited, HandlerType, TokenInv, Handling
  <2>2. state[h.found] \in {"running", "stopped", "deleted"}
    BY <2>1 DEF DeleteInv
  <2> QED
    BY <1>4, <2>1, <2>2 DEF SetExited
<1>5. CASE \/ Handler /\ ~SetExited
           \/ Forward \/ Shutdown \/ CloseEvents \/ (\E m \in Incs : Die(m) \/ SendExit(m))
  BY <1>5 DEF Handler, ReceiveExit, FindProcess, HandlerKillAll, IsOOM,
     SendTaskExit, Forward, Shutdown, CloseEvents, Die, SendExit
<1>6. ASSUME NEW id \in Ids, Create(id)
      PROVE  n = made + 1 /\ made' = n /\ n \notin astray' /\ state'[n] = "created"
  <2>1. PICK m \in Incs :
          /\ m = made + 1 /\ made' = m /\ m \notin astray /\ Free(id)
          /\ \A k \in Incs \ {m} : state'[k] = state[k]
          /\ \/ state'[m] = "created" /\ astray' = IF Removing(id) THEN astray \cup {m} ELSE astray
             \/ state' = state
    BY <1>6, Creates DEF KeptInv
  <2>2. ~Removing(id)
    BY <2>1 DEF Free, Busy, Removing
  <2>3. m = n /\ state'[m] = "created" /\ astray' = astray
    BY <2>1, <2>2
  <2> QED
    BY <2>1, <2>3
<1> QED
  BY <1>1, <1>2, <1>3, <1>4, <1>5, <1>6 DEF Next, Handler

\* Only a Delete takes a container out of runsc.
LEMMA Removes ==
    ASSUME TypeInv, MadeInv, [Next]_vars, NEW n \in Incs, rt[n] # "absent", rt'[n] = "absent"
    PROVE  \E t \in Threads : pc[t] = "delete" /\ n \in InRunsc(on[t])
<1> USE DEF TypeInv, incVars
<1>1. CASE UNCHANGED vars
  BY <1>1 DEF vars
<1>2. ASSUME NEW t \in Threads, Serve(t)
      PROVE  pc[t] = "delete" /\ n \in InRunsc(on[t])
  <2>1. CASE DeleteErr(t) \/ InitDelete(t)
    BY <2>1, KilledType DEF DeleteErr, InitDelete
  <2>2. CASE ~DeleteErr(t) /\ ~InitDelete(t)
    BY <1>2, <2>2 DEF Serve, Start, State, Remove, Pause, Resume, SwitchCmd, SendPaused, SendResumed, SendEvent
  <2> QED
    BY <2>1, <2>2
<1>3. ASSUME NEW t \in Threads, NEW id \in Ids, Call(t, id) PROVE FALSE
  BY <1>3 DEF Call, CallStart, CallState, CallDelete, CallPause, CallResume, getContainer
<1>4. ASSUME NEW m \in Incs, Die(m) \/ SendExit(m) PROVE FALSE
  BY <1>4, KilledType DEF Die, SendExit, KillAll, TaskType
<1>5. CASE Handler \/ Forward \/ Shutdown \/ CloseEvents
  BY <1>5, KilledType DEF Handler, ReceiveExit, FindProcess, HandlerKillAll, KillAll, SetExited, IsOOM,
     SendTaskExit, Forward, Shutdown, CloseEvents
<1>6. ASSUME NEW id \in Ids, Create(id) PROVE FALSE
  BY <1>6, Creates
<1> QED
  BY <1>1, <1>2, <1>3, <1>4, <1>5, <1>6 DEF Next

LEMMA DeleteStep ==
    ASSUME client = "event", TypeInv, KeptInv, CallInv, DeleteInv, TokenInv, [Next]_vars
    PROVE  DeleteInv'
<1> USE DEF TypeInv
<1>0. /\ \A t \in Threads : pc[t] # "idle" => on[t] \in Ids /\ obj[t] \in Incs
      /\ \A n \in Incs : n \in told => waiter[n] = "sent"
      /\ told \subseteq told'
  BY Waiters DEF CallType, TokenInv, Telling
<1>1. ASSUME NEW n \in Incs, waiter'[n] # "none"
      PROVE  state'[n] \in {"running", "stopped", "deleted"}
  <2>1. CASE waiter'[n] = waiter[n]
    <3>1. state[n] \in {"running", "stopped", "deleted"} /\ n <= made
      BY <1>1, <2>1 DEF DeleteInv, KeptInv, MadeInv, TableType, Incs
    <3>2. n # made + 1
      BY <3>1 DEF TableType, Incs
    <3> QED
      BY <3>1, <3>2, States
  <2>2. CASE SendExit(n)
    BY <2>2 DEF SendExit, DeleteInv
  <2>3. ASSUME NEW t \in Threads, Start(t), obj[t] = n, waiter'[n] # waiter[n]
        PROVE  state'[n] = "running"
    BY <2>3, Starts DEF TaskType
  <2> QED
    BY <2>1, <2>2, <2>3, Waiters
<1>2. ASSUME NEW n \in Incs, waiter'[n] # "none", n \notin told'
      PROVE  rt'[n] # "absent"
  <2>1. CASE waiter[n] # "none"
    <3>1. rt[n] # "absent" /\ containers[idOf[n]] = n
      BY <1>0, <1>2, <2>1 DEF DeleteInv, TokenInv, Registered
    <3>2. ASSUME NEW t \in Threads, pc[t] = "delete", n \in InRunsc(on[t])
          PROVE  FALSE
      <4>1. obj[t] = n
        BY <3>1, <3>2 DEF CallInv, InRunsc
      <4> QED
        BY <1>0, <1>2, <2>1, <3>2, <4>1 DEF DeleteInv
    <3> QED
      BY <3>1, <3>2, Removes DEF KeptInv
  <2>2. CASE waiter[n] = "none"
    <3>1. PICK t \in Threads : Start(t) /\ obj[t] = n
      BY <1>2, <2>2, Waiters
    <3> QED
      BY <1>2, <2>2, <3>1, Starts DEF TaskType
  <2> QED
    BY <2>1, <2>2
<1>3. \A t \in Threads : pc'[t] \in {"delete", "remove"} => waiter'[obj'[t]] = "none" \/ obj'[t] \in told'
  <2>1. ASSUME NEW t \in Threads, pc[t] \in {"delete", "remove"}
        PROVE  waiter'[obj[t]] = "none" \/ obj[t] \in told'
    <3>1. PICK n \in Incs : n = obj[t]
      BY <1>0, <2>1
    <3>2. CASE waiter'[n] = waiter[n]
      BY <1>0, <2>1, <3>1, <3>2 DEF DeleteInv
    <3>3. CASE waiter[n] = "waiting"
      BY <1>0, <2>1, <3>1, <3>3 DEF DeleteInv
    <3>4. ASSUME NEW u \in Threads, pc[u] = "start", obj[u] = n
          PROVE  FALSE
      <4>1. on[t] = on[u]
        BY <2>1, <3>1, <3>4 DEF KeptInv, MadeInv
      <4> QED
        BY <2>1, <3>4, <4>1 DEF CallInv
    <3> QED
      BY <3>1, <3>2, <3>3, <3>4, Waiters
  <2>2. ASSUME NEW t \in Threads, NEW id \in Ids, Call(t, id)
        PROVE  \A u \in Threads : pc'[u] \in {"delete", "remove"} =>
                  waiter'[obj'[u]] = "none" \/ obj'[u] \in told'
    <3>1. PICK l \in {"start", "state", "delete", "pause", "resume"} :
            /\ getContainer(t, id, l)
            /\ l = "delete" => waiter[containers[id]] = "none" \/ containers[id] \in told
      BY <2>2, Begins
    <3>2. /\ \A u \in Threads \ {t} : pc'[u] = pc[u] /\ obj'[u] = obj[u]
          /\ pc'[t] = l /\ obj'[t] = containers[id] /\ UNCHANGED <<waiter, told>>
      BY <3>1, Begun DEF incVars, evVars
    <3> QED
      BY <2>1, <3>1, <3>2
  <2>3. ASSUME NEW t \in Threads, Serve(t)
        PROVE  \A u \in Threads : pc'[u] \in {"delete", "remove"} =>
                  waiter'[obj'[u]] = "none" \/ obj'[u] \in told'
    BY <2>1, <2>3, Served
  <2> QED
    BY <2>1, <2>2, <2>3, Elsewhere DEF rpcVars
<1>4. ASSUME NEW n \in Incs, n > made' \/ n \in astray'
      PROVE  state'[n] = "none"
  <2>1. CASE ~ \E id \in Ids : Create(id)
    <3>1. state[n] = "none"
      BY <1>4, <2>1, Rest DEF DeleteInv
    <3> QED
      BY <2>1, <3>1, States
  <2>2. ASSUME NEW id \in Ids, Create(id) PROVE state'[n] = "none"
    <3>1. PICK m \in Incs :
             /\ m = made + 1 /\ made' = m /\ m > made /\ (m > m <=> FALSE)
             /\ \A k \in Incs : k > m => k > made /\ k # m
             /\ \A k \in Incs \ {m} : state'[k] = state[k]
             /\ \/ astray' = IF Removing(id) THEN astray \cup {m} ELSE astray
                \/ state' = state /\ astray' = astray \cup {m}
             /\ m \notin astray /\ Free(id)
      BY <2>2, Creates DEF KeptInv, Incs
    <3>2. ~Removing(id)
      BY <3>1 DEF Free, Busy, Removing
    <3>3. CASE n = m
      BY <1>4, <3>1, <3>2, <3>3 DEF DeleteInv
    <3>4. CASE n # m
      BY <1>4, <3>1, <3>2, <3>4 DEF DeleteInv
    <3> QED
      BY <3>3, <3>4
  <2> QED
    BY <2>1, <2>2
<1>5. \A id \in Ids : containers'[id] # None =>
         oom'[id] \in {None, containers'[id]} \/ containers'[id] \in unpolled'
  <2>1. ASSUME NEW id \in Ids, Create(id), NEW i \in Ids, containers'[i] # None
        PROVE  oom'[i] \in {None, containers'[i]} \/ containers'[i] \in unpolled'
    <3>1. PICK n \in Incs :
             /\ \A j \in Ids \ {id} : containers'[j] = containers[j] /\ oom'[j] = oom[j]
             /\ \/ containers'[id] = n /\ (oom'[id] = n \/ n \in unpolled')
                \/ containers' = containers /\ oom' = oom
             /\ unpolled \subseteq unpolled'
      BY <2>1, Creates DEF KeptInv
    <3> QED
      BY <2>1, <3>1 DEF DeleteInv
  <2>2. ASSUME ~ \E id \in Ids : Create(id), NEW i \in Ids
        PROVE  containers'[i] \in {containers[i], None} /\ oom'[i] \in {oom[i], None} /\ unpolled' = unpolled
    <3>1. ASSUME NEW t \in Threads, NEW id \in Ids, Call(t, id) PROVE containers' = containers
      BY <3>1, Begins, Begun DEF mapVars
    <3>2. ASSUME NEW t \in Threads, Serve(t) PROVE containers'[i] \in {containers[i], None}
      BY <1>0, <3>2, Served DEF TableType
    <3> QED
      BY <2>2, <3>1, <3>2, Rest, Elsewhere
  <2> QED
    BY <2>1, <2>2 DEF DeleteInv
<1> QED
  BY <1>1, <1>2, <1>3, <1>4, <1>5 DEF DeleteInv

-----------------------------------------------------------------------------
(* Where an exit is *)

\* Steps that leave the exits where they are.
LEMMA TokenFrame ==
    ASSUME TypeInv, TokenInv, Registered', ExitCh' = ExitCh, told' = told,
           \A n \in Incs : waiter[n] # "none" => waiter'[n] = waiter[n] /\ idOf'[n] = idOf[n],
           ExitEvents' = ExitEvents, \A i \in ExitEvents : events'[i].inc = events[i].inc,
           h'.pc # "idle" => h.pc # "idle" /\ h'.inc = h.inc /\ h'.id = h.id,
           h'.pc \notin {"idle", "find"} => h'.found = h.inc
    PROVE  TokenInv'
<1>1. /\ \A i \in DOMAIN ExitCh : ExitCh[i].inc \in Incs
      /\ \A i \in ExitEvents : events[i].inc \in Incs
      /\ h.pc # "idle" => h.inc \in Incs
      /\ told \subseteq Incs
  BY Items DEF ExitEvents, TypeInv, HandlerType, HistoryType
<1>2. Sending'
  BY <1>1 DEF TokenInv, Sending
<1>3. Handling'
  BY <1>1 DEF TokenInv, Handling
<1>4. Telling'
  BY <1>1 DEF TokenInv, Telling
<1> QED
  BY <1>2, <1>3, <1>4 DEF TokenInv

\* An event that is not an exit changes nothing.
LEMMA OtherEvent ==
    ASSUME EventType, NEW type \in {"oom", "paused", "resumed"}, NEW id \in Ids, NEW n \in Incs,
           send(type, id, n)
    PROVE  ExitEvents' = ExitEvents /\ \A i \in ExitEvents : events'[i] = events[i]
<1>1. PICK k \in Nat : /\ DOMAIN events = 1 .. k /\ DOMAIN events' = 1 .. k + 1
                       /\ \A i \in 1 .. k : events'[i] = events[i]
                       /\ events'[k + 1].type = type
  BY Sent
<1> QED
  BY <1>1 DEF ExitEvents

\* A call that begins or goes on, Create: the exits are where they were.
LEMMA TokenCalls ==
    ASSUME client = "event", TypeInv, KeptInv, CallInv, DeleteInv, TokenInv,
           \/ \E id \in Ids : Create(id)
           \/ \E t \in Threads : Serve(t) \/ \E id \in Ids : Call(t, id)
    PROVE  TokenInv'
<1>0. /\ \A t \in Threads : pc[t] # "idle" => on[t] \in Ids /\ obj[t] \in Incs /\ idOf[obj[t]] = on[t]
      /\ \A n \in Incs : waiter[n] # "none" => n <= made /\ idOf[n] \in Ids
  BY DEF TypeInv, CallType, KeptInv, MadeInv, TaskType, TableType, Incs
<1>1. ASSUME NEW id \in Ids, Create(id)
      PROVE  TokenInv'
  <2>1. PICK n \in Incs :
          /\ waiter[n] = "none" /\ InRunsc(id) = {}
          /\ \A m \in Incs \ {n} : idOf'[m] = idOf[m]
          /\ \A i \in Ids \ {id} : containers'[i] = containers[i]
          /\ UNCHANGED <<waiter, told, ExitCh, h, events>>
    BY <1>1, Creates DEF KeptInv
  <2>2. \A m \in Incs : waiter[m] # "none" => idOf'[m] = idOf[m]
    BY <2>1
  <2>3. Registered'
    <3> SUFFICES ASSUME NEW m \in Incs, waiter[m] # "none", m \notin told
                 PROVE  containers'[idOf[m]] = m
      BY <2>1, <2>2 DEF Registered
    <3>1. containers[idOf[m]] = m /\ idOf[m] \in Ids \ {id}
      BY <1>0, <2>1 DEF TokenInv, Registered, DeleteInv, InRunsc
    <3> QED
      BY <2>1, <3>1
  <2>4. ExitEvents' = ExitEvents
    BY <2>1 DEF ExitEvents
  <2> QED
    BY <2>1, <2>2, <2>3, <2>4, TokenFrame DEF TokenInv, Handling
<1>2. ASSUME NEW t \in Threads, NEW id \in Ids, Call(t, id)
      PROVE  TokenInv'
  <2>1. UNCHANGED <<containers, waiter, idOf, told, ExitCh, h, events>>
    BY <1>2, Begins, Begun DEF mapVars, incVars, exitVars, evVars
  <2> QED
    BY <2>1 DEF TokenInv, Registered, Sending, Handling, Telling, ExitEvents
<1>3. ASSUME NEW t \in Threads, Start(t)
      PROVE  TokenInv'
  <2>1. PICK n \in Incs :
          /\ containers[idOf[n]] = n
          /\ UNCHANGED <<containers, idOf, told, ExitCh, h, events>>
          /\ waiter' = waiter \/ (state[n] = "created" /\ waiter' = [waiter EXCEPT ![n] = "waiting"])
    BY <1>3, Starts
  <2>2. \A m \in Incs : waiter[m] # "none" => waiter'[m] = waiter[m]
    BY <2>1 DEF TypeInv, TaskType, DeleteInv
  <2>3. Registered'
    BY <2>1 DEF TokenInv, Registered, TypeInv, TaskType
  <2>4. ExitEvents' = ExitEvents
    BY <2>1 DEF ExitEvents
  <2> QED
    BY <2>1, <2>2, <2>3, <2>4, TokenFrame DEF TokenInv, Handling
<1>4. ASSUME NEW t \in Threads, Remove(t)
      PROVE  TokenInv'
  <2>1. /\ UNCHANGED <<idOf, waiter, told, ExitCh, h, events>> /\ pc[t] = "remove"
        /\ containers' = [containers EXCEPT ![on[t]] = None]
    BY <1>4 DEF Remove, incVars, exitVars, evVars
  <2>2. containers[on[t]] = obj[t] /\ (waiter[obj[t]] = "none" \/ obj[t] \in told) /\ on[t] \in Ids
    BY <1>0, <2>1 DEF CallInv, DeleteInv
  <2>3. Registered'
    <3> SUFFICES ASSUME NEW n \in Incs, waiter[n] # "none", n \notin told
                 PROVE  containers'[idOf[n]] = n
      BY <2>1 DEF Registered
    <3>1. containers[idOf[n]] = n /\ idOf[n] \in Ids
      BY <1>0 DEF TokenInv, Registered
    <3> QED
      BY <2>1, <2>2, <3>1 DEF TypeInv, TableType
  <2>4. ExitEvents' = ExitEvents
    BY <2>1 DEF ExitEvents
  <2> QED
    BY <2>1, <2>3, <2>4, TokenFrame DEF TokenInv, Handling
<1>5. ASSUME NEW t \in Threads, SendPaused(t) \/ SendResumed(t)
      PROVE  TokenInv'
  <2>1. PICK type \in {"paused", "resumed"} :
           send(type, on[t], obj[t]) /\ pc[t] # "idle" /\ UNCHANGED <<containers, idOf, waiter, told, ExitCh, h>>
    BY <1>5 DEF SendPaused, SendResumed, SendEvent, mapVars, incVars, exitVars
  <2>2. ExitEvents' = ExitEvents /\ \A i \in ExitEvents : events'[i] = events[i]
    BY <1>0, <2>1, OtherEvent DEF TypeInv
  <2>3. Registered'
    BY <2>1 DEF TokenInv, Registered
  <2> QED
    BY <2>1, <2>2, <2>3, TokenFrame DEF TokenInv, Handling
<1>6. ASSUME NEW t \in Threads, Serve(t), ~Start(t), ~Remove(t), ~SendPaused(t), ~SendResumed(t)
      PROVE  TokenInv'
  <2>1. UNCHANGED <<containers, idOf, waiter, told, ExitCh, h, events>>
    BY <1>6 DEF Serve, State, DeleteErr, InitDelete, Pause, Resume,
       SwitchCmd, mapVars, incVars, exitVars, evVars
  <2> QED
    BY <2>1 DEF TokenInv, Registered, Sending, Handling, Telling, ExitEvents
<1> QED
  BY <1>1, <1>2, <1>3, <1>4, <1>5, <1>6

\* The goroutine of a start sends the exit.
LEMMA TokenSend ==
    ASSUME TypeInv, KeptInv, TokenInv, NEW n \in Incs, SendExit(n)
    PROVE  TokenInv'
<1>1. idOf[n] \in Ids /\ waiter[n] = "waiting" /\ waiter' = [waiter EXCEPT ![n] = "sent"]
      /\ UNCHANGED <<containers, idOf, told, h, events>>
  BY DEF SendExit, KeptInv, MadeInv, TypeInv, TableType, Incs, mapVars, evVars
<1>2. PICK k \in Nat : /\ DOMAIN ExitCh = 1 .. k /\ DOMAIN ExitCh' = 1 .. k + 1
                       /\ \A i \in 1 .. k : ExitCh'[i] = ExitCh[i]
                       /\ ExitCh'[k + 1].id = idOf[n] /\ ExitCh'[k + 1].inc = n
  BY <1>1, Waited DEF TypeInv
<1>3. /\ \A i \in 1 .. k : ExitCh[i].inc \in Incs /\ ExitCh[i].inc # n
      /\ \A i \in ExitEvents : events[i].inc \in Incs /\ events[i].inc # n
      /\ h.pc # "idle" => h.inc \in Incs /\ h.inc # n
      /\ n \notin told
  BY <1>1, <1>2, Items DEF TokenInv, Sending, Handling, Telling, ExitEvents, TypeInv, HandlerType
<1>4. \A m \in Incs : m # n => waiter'[m] = waiter[m]
  BY <1>1 DEF TypeInv, TaskType
<1>5. waiter'[n] = "sent"
  BY <1>1 DEF TypeInv, TaskType
<1>6. ExitEvents' = ExitEvents
  BY <1>1 DEF ExitEvents
<1>7. Registered'
  BY <1>1, <1>4, <1>5 DEF TokenInv, Registered
<1>8. Sending'
  <2> SUFFICES ASSUME NEW i \in 1 .. k + 1
      PROVE  /\ waiter'[ExitCh'[i].inc] = "sent" /\ ExitCh'[i].id = idOf[ExitCh'[i].inc]
             /\ ExitCh'[i].inc \notin told /\ (h.pc # "idle" => ExitCh'[i].inc # h.inc)
             /\ \A j \in 1 .. k + 1 : ExitCh'[j].inc = ExitCh'[i].inc => i = j
             /\ \A j \in ExitEvents : events[j].inc # ExitCh'[i].inc
    BY <1>1, <1>2, <1>6 DEF Sending
  <2>1. CASE i = k + 1
    BY <1>2, <1>3, <1>5, <2>1
  <2>2. CASE i \in 1 .. k
    <3>1. ExitCh'[i] = ExitCh[i] /\ ExitCh[i].inc # n /\ ExitCh[i].inc \in Incs
      BY <1>2, <1>3, <2>2
    <3>2. \A j \in 1 .. k + 1 : ExitCh'[j].inc = ExitCh'[i].inc => i = j
      BY <1>2, <1>3, <2>2, <3>1 DEF TokenInv, Sending
    <3> QED
      BY <1>2, <1>4, <2>2, <3>1, <3>2 DEF TokenInv, Sending
  <2> QED
    BY <2>1, <2>2
<1>9. Handling' /\ Telling'
  BY <1>1, <1>3, <1>4, <1>5, <1>6 DEF TokenInv, Handling, Telling, TypeInv, HistoryType
<1> QED
  BY <1>7, <1>8, <1>9 DEF TokenInv

\* checkProcesses takes an exit, finds its process, and passes the exit on.
LEMMA TokenHandle ==
    ASSUME TypeInv, TokenInv, Handler
    PROVE  TokenInv'
<1> USE DEF mapVars, incVars, evVars, rpcVars
<1>1. CASE ReceiveExit
  <2>1. /\ h.pc = "idle" /\ h'.pc = "find" /\ h'.id = Head(ExitCh).id /\ h'.inc = Head(ExitCh).inc
        /\ UNCHANGED <<containers, idOf, waiter, told, events>>
    BY <1>1 DEF ReceiveExit
  <2>2. PICK k \in Nat : /\ DOMAIN ExitCh = 1 .. k + 1 /\ DOMAIN ExitCh' = 1 .. k
                         /\ \A i \in 1 .. k : ExitCh'[i] = ExitCh[i + 1]
                         /\ Head(ExitCh) = ExitCh[1]
    BY <1>1, Received DEF TypeInv
  <2>3. ExitEvents' = ExitEvents
    BY <2>1 DEF ExitEvents
  <2>4. Registered' /\ Telling'
    BY <2>1, <2>3 DEF TokenInv, Registered, Telling
  <2>5. 1 \in DOMAIN ExitCh /\ h'.id = ExitCh[1].id /\ h'.inc = ExitCh[1].inc
    BY <2>1, <2>2
  <2>6. Handling'
    BY <2>1, <2>3, <2>5 DEF TokenInv, Sending, Handling
  <2>7. Sending'
    <3> SUFFICES ASSUME NEW i \in 1 .. k
        PROVE  /\ waiter[ExitCh'[i].inc] = "sent" /\ ExitCh'[i].id = idOf[ExitCh'[i].inc]
               /\ ExitCh'[i].inc \notin told /\ ExitCh'[i].inc # h'.inc
               /\ \A j \in 1 .. k : ExitCh'[j].inc = ExitCh'[i].inc => i = j
               /\ \A j \in ExitEvents : events[j].inc # ExitCh'[i].inc
      BY <2>1, <2>2, <2>3 DEF Sending
    <3>1. i + 1 \in DOMAIN ExitCh /\ ExitCh'[i] = ExitCh[i + 1] /\ i + 1 # 1
      BY <2>2
    <3>2. \A j \in 1 .. k : ExitCh'[j].inc = ExitCh'[i].inc => i = j
      <4> SUFFICES ASSUME NEW j \in 1 .. k, ExitCh'[j].inc = ExitCh'[i].inc PROVE i = j
        OBVIOUS
      <4>1. j + 1 \in DOMAIN ExitCh /\ ExitCh'[j] = ExitCh[j + 1]
        BY <2>2
      <4>2. i + 1 = j + 1
        BY <3>1, <4>1 DEF TokenInv, Sending
      <4> QED
        BY <4>2
    <3> QED
      BY <2>5, <3>1, <3>2 DEF TokenInv, Sending
  <2> QED
    BY <2>4, <2>6, <2>7 DEF TokenInv
<1>2. CASE FindProcess
  <2>1. containers[h.id] = h.inc /\ h.inc # None /\ h.pc = "find"
    BY <1>2 DEF FindProcess, TokenInv, Registered, Handling, TypeInv, HandlerType, Incs
  <2>2. h' = [h EXCEPT !.pc = "killall", !.found = h.inc] /\ UNCHANGED <<containers, idOf, waiter, told, ExitCh, events>>
    BY <1>2, <2>1 DEF FindProcess, After
  <2>3. h'.pc = "killall" /\ h'.found = h.inc /\ h'.inc = h.inc /\ h'.id = h.id
    BY <2>2 DEF TypeInv, HandlerType
  <2>4. ExitEvents' = ExitEvents /\ Registered'
    BY <2>2 DEF ExitEvents, TokenInv, Registered
  <2> QED
    BY <2>1, <2>2, <2>3, <2>4, TokenFrame
<1>3. CASE HandlerKillAll \/ SetExited \/ IsOOM
  <2>1. h' = [h EXCEPT !.pc = After(h.pc)] /\ h.pc \in {"killall", "setexited", "oom"}
        /\ UNCHANGED <<containers, idOf, waiter, told, ExitCh>>
    BY <1>3 DEF HandlerKillAll, SetExited, IsOOM, HandlerGoto, After
  <2>2. h'.inc = h.inc /\ h'.id = h.id /\ h'.found = h.found /\ h.pc \notin {"idle", "find"}
    BY <2>1 DEF TypeInv, HandlerType
  <2>3. ExitEvents' = ExitEvents /\ \A i \in ExitEvents : events'[i] = events[i]
    <3>1. CASE events' = events
      BY <3>1 DEF ExitEvents
    <3>2. CASE IsOOM /\ oom[h.id] # None /\ send("oom", h.id, oom[h.id])
      BY <3>2, OtherEvent DEF IsOOM, TypeInv, HandlerType, TableType
    <3> QED
      BY <1>3, <3>1, <3>2 DEF HandlerKillAll, SetExited, IsOOM
  <2>4. Registered' /\ h.found = h.inc
    BY <2>1, <2>2 DEF TokenInv, Registered, Handling
  <2> QED
    BY <2>1, <2>2, <2>3, <2>4, TokenFrame
<1>4. CASE SendTaskExit
  <2>1. /\ h.pc = "exit" /\ h'.pc = "idle" /\ send("exit", h.id, h.inc)
        /\ UNCHANGED <<containers, idOf, waiter, told, ExitCh>>
    BY <1>4 DEF SendTaskExit, HandlerGoto, After, Idle, TokenInv, Handling
  <2>2. h.id \in Ids /\ h.inc \in Incs /\ waiter[h.inc] = "sent" /\ h.inc \notin told
    BY <2>1 DEF TypeInv, HandlerType, TokenInv, Handling
  <2>3. PICK k \in Nat : /\ DOMAIN events = 1 .. k /\ DOMAIN events' = 1 .. k + 1
                         /\ \A i \in 1 .. k : events'[i] = events[i]
                         /\ events'[k + 1].type = "exit" /\ events'[k + 1].inc = h.inc
    BY <2>1, <2>2, Sent DEF TypeInv
  <2>4. /\ ExitEvents' = ExitEvents \cup {k + 1} /\ k + 1 \notin ExitEvents
        /\ \A i \in ExitEvents : events'[i] = events[i] /\ events[i].inc # h.inc
    BY <2>1, <2>3 DEF ExitEvents, TokenInv, Handling
  <2>5. Registered' /\ Handling'
    BY <2>1 DEF TokenInv, Registered, Handling
  <2>6. Sending'
    BY <2>1, <2>3, <2>4 DEF TokenInv, Sending
  <2>7. Telling'
    BY <2>1, <2>2, <2>3, <2>4 DEF TokenInv, Telling
  <2> QED
    BY <2>5, <2>6, <2>7 DEF TokenInv
<1> QED
  BY <1>1, <1>2, <1>3, <1>4 DEF Handler

\* forward tells the first event.
LEMMA TokenForward ==
    ASSUME TypeInv, TokenInv, Forward
    PROVE  TokenInv'
<1>1. UNCHANGED <<containers, idOf, waiter, ExitCh, h>>
  BY DEF Forward, mapVars, incVars, exitVars
<1>2. PICK k \in Nat : /\ DOMAIN events = 1 .. k + 1 /\ DOMAIN events' = 1 .. k
                       /\ \A i \in 1 .. k : events'[i] = events[i + 1]
                       /\ Head(events) = events[1]
  BY Forwarded DEF TypeInv
<1>3. told' = IF 1 \in ExitEvents THEN told \cup {events[1].inc} ELSE told
  <2>1. told' = IF Head(events).type = "exit" THEN told \cup {Head(events).inc} ELSE told
    BY DEF Forward
  <2>2. 1 \in DOMAIN events
    BY <1>2
  <2> QED
    BY <1>2, <2>1, <2>2 DEF ExitEvents
<1>4. \A i \in ExitEvents' : i + 1 \in ExitEvents /\ events'[i] = events[i + 1] /\ i \in Nat \ {0}
  BY <1>2 DEF ExitEvents
<1>5. \A i \in ExitEvents' : events'[i].inc \notin told' /\ waiter[events'[i].inc] = "sent"
  <2> SUFFICES ASSUME NEW i \in ExitEvents'
               PROVE  events'[i].inc \notin told' /\ waiter[events'[i].inc] = "sent"
    OBVIOUS
  <2>1. i + 1 \in ExitEvents /\ events'[i] = events[i + 1] /\ i + 1 # 1
    BY <1>4
  <2> QED
    BY <1>3, <2>1 DEF TokenInv, Telling
<1>6. Telling'
  <2>1. ASSUME NEW i \in ExitEvents', NEW j \in ExitEvents', events'[j].inc = events'[i].inc
        PROVE  i = j
    <3>1. i + 1 = j + 1
      BY <1>4, <2>1 DEF TokenInv, Telling
    <3> QED
      BY <1>4, <3>1
  <2>2. \A n \in told' : waiter[n] = "sent"
    BY <1>3 DEF TokenInv, Telling
  <2> QED
    BY <1>1, <1>5, <2>1, <2>2 DEF Telling
<1>7. Sending' /\ Handling'
  BY <1>1, <1>3, <1>4 DEF TokenInv, Sending, Handling
<1>8. Registered'
  BY <1>1, <1>3 DEF TokenInv, Registered
<1> QED
  BY <1>6, <1>7, <1>8 DEF TokenInv

LEMMA TokenStep ==
    ASSUME client = "event", TypeInv, KeptInv, CallInv, DeleteInv, TokenInv, [Next]_vars
    PROVE  TokenInv'
<1>1. CASE UNCHANGED <<containers, idOf, waiter, told, ExitCh, h, events>>
  BY <1>1 DEF TokenInv, Registered, Sending, Handling, Telling, ExitEvents
<1> QED
  BY <1>1, TokenCalls, TokenSend, TokenHandle, TokenForward
  DEF Next, Die, Shutdown, CloseEvents, vars, mapVars, incVars, exitVars, evVars

-----------------------------------------------------------------------------
(* When the shim closes *)

\* Shutdown is granted when nothing is left, and after that an event client
\* calls nothing.
LEMMA CloseStep ==
    ASSUME client = "event", TypeInv, KeptInv, CloseInv, [Next]_vars
    PROVE  CloseInv'
<1> USE DEF TypeInv
<1>1. ASSUME NEW id \in Ids, Create(id)
      PROVE  down = "up" /\ down' = down
  BY <1>1, Creates DEF KeptInv, Free, Serving
<1>2. ASSUME NEW t \in Threads, NEW id \in Ids, Call(t, id)
      PROVE  down = "up" /\ down' = down
  BY <1>2, Begins, Begun DEF Serving, evVars
<1>3. ASSUME NEW t \in Threads, Serve(t)
      PROVE  CloseInv'
  <2>1. down' = down
    BY <1>3 DEF Serve, Start, State, DeleteErr, InitDelete, Remove, Pause, Resume, SwitchCmd,
       SendPaused, SendResumed, SendEvent, evVars
  <2>2. pc[t] # "idle"
    BY <1>3, Served
  <2> QED
    BY <2>1, <2>2 DEF CloseInv
<1>4. CASE Shutdown
  BY <1>4 DEF Shutdown, MayShutdown, CloseInv, rpcVars, mapVars
<1>5. CASE CloseEvents
  BY <1>5 DEF CloseEvents, CloseInv, rpcVars, mapVars
<1>6. CASE \/ UNCHANGED vars \/ Handler \/ Forward
           \/ \E n \in Incs : Die(n) \/ SendExit(n)
  <2>1. UNCHANGED <<down, containers, pc>>
    BY <1>6 DEF vars, Handler, ReceiveExit, FindProcess, HandlerKillAll, SetExited, IsOOM, SendTaskExit,
       Forward, Die, SendExit, mapVars, evVars, rpcVars
  <2> QED
    BY <2>1 DEF CloseInv
<1> QED
  BY <1>1, <1>2, <1>3, <1>4, <1>5, <1>6 DEF Next, CloseInv

-----------------------------------------------------------------------------
(* The theorems *)

LEMMA EventStep ==
    ASSUME TypeInv, KeptInv, client = "event" => EventInv, [Next]_vars
    PROVE  (client = "event" => EventInv)'
BY SameClient, CallStep, DeleteStep, TokenStep, CloseStep DEF EventInv

LEMMA InitEvent == Init => EventInv
<1> SUFFICES ASSUME Init PROVE EventInv
  OBVIOUS
<1> USE DEF Init
<1>1. CallInv /\ DeleteInv /\ CloseInv
  BY DEF CallInv, DeleteInv, CloseInv
<1>2. TokenInv
  BY DEF TokenInv, Registered, Sending, Handling, Telling, ExitEvents, Idle
<1> QED
  BY <1>1, <1>2 DEF EventInv

\* What holds of every state, and what holds with a client like containerd's
\* CRI plugin.
LEMMA Inductive == Spec => [](TypeInv /\ KeptInv /\ (client = "event" => EventInv))
<1>1. Init => TypeInv /\ KeptInv /\ (client = "event" => EventInv)
  BY InitType, InitKept, InitEvent
<1>2. TypeInv /\ KeptInv /\ (client = "event" => EventInv) /\ [Next]_vars
        => TypeInv' /\ KeptInv' /\ (client = "event" => EventInv)'
  BY StepType, KeptStep, EventStep DEF KeptInv
<1> QED
  BY <1>1, <1>2, PTL DEF Spec

\* Whatever clients do, what runsc has is in the map unless its Create failed or
\* ran between the two steps of a Delete of the id, although Create overwrites
\* the map's entry (runsc_service.go:196) and Delete removes it after the locks
\* were released (:315).
THEOREM NothingForgottenCorrect == Spec => []NothingForgotten
BY Inductive, PTL DEF KeptInv

\* The exit of an incarnation is recorded on that incarnation, and neither the
\* processes nor, unless its Create left it without one, the OOM cgroup of
\* another one are taken for its own, although checkProcesses finds the container
\* by its id (runsc_service.go:611), for any number of containers, incarnations
\* and calls at once.
THEOREM ExitMeetsItsIncarnationCorrect == Spec => []ExitMeetsItsIncarnation
<1>1. TypeInv /\ KeptInv /\ (client = "event" => EventInv) => ExitMeetsItsIncarnation
  <2> SUFFICES ASSUME TypeInv, KeptInv, EventInv, client = "event" PROVE ExitMeetsItsIncarnation
    BY DEF ExitMeetsItsIncarnation
  <2>1. h.pc \in {"killall", "setexited", "oom", "exit"} => h.found = h.inc
    BY DEF EventInv, TokenInv, Handling
  <2>2. h.pc # "idle" =>
           /\ containers[h.id] = h.inc /\ h.id \in Ids /\ h.inc \in Incs /\ h.inc # None
           /\ h.inc \in InRunsc(h.id)
    BY DEF EventInv, TokenInv, Handling, Registered, DeleteInv, InRunsc, TypeInv, HandlerType, Incs
  <2>3. h.pc # "idle" => InRunsc(h.id) \subseteq {h.inc}
    BY <2>2, OneLeft DEF InRunsc
  <2>4. h.pc # "idle" => oom[h.id] \in {None, h.inc} \/ h.inc \in unpolled
    BY <2>2 DEF EventInv, DeleteInv
  <2> QED
    BY <2>1, <2>3, <2>4 DEF ExitMeetsItsIncarnation
<1> QED
  BY <1>1, Inductive, PTL

\* Nobody sends on s.events when the shutdown callback has closed it: that
\* would panic the shim.
THEOREM NoSendAfterCloseCorrect == Spec => []NoSendAfterClose
<1>1. TypeInv /\ KeptInv /\ (client = "event" => EventInv) => NoSendAfterClose
  <2> SUFFICES ASSUME TypeInv, EventInv, down = "closed" PROVE NoSendAfterClose
    BY DEF NoSendAfterClose
  <2>1. (\A id \in Ids : containers[id] = None) /\ \A t \in Threads : pc[t] = "idle"
    BY DEF EventInv, CloseInv
  <2>2. h.pc = "idle"
    BY <2>1 DEF EventInv, TokenInv, Handling, Registered, TypeInv, HandlerType, Incs
  <2> QED
    BY <2>1, <2>2 DEF NoSendAfterClose
<1> QED
  BY <1>1, Inductive, PTL

-----------------------------------------------------------------------------
(* Every task has a life of its own *)

Live == {n \in Incs : state[n] # "none" /\ rt[n] \in {"running", "paused"}}
Started == {n \in Incs : waiter[n] # "none"}
Led == INSTANCE Lives WITH
    Tasks <- Incs, phase <- state, started <- Started, live <- Live,
    lost <- lost, recorded <- exited, told <- told

\* OwnLife with an event client.
LEMMA Leads ==
    ASSUME client = "event", client' = "event", [Led!Next]_(Led!vars)
    PROVE  [OwnLife!Next]_(OwnLife!vars)
<1>1. /\ OwnLife!vars = Led!vars /\ (OwnLife!vars)' = (Led!vars)'
  BY DEF OwnLife!vars, Led!vars, Own, Live, Started
<1>2. ASSUME NEW n \in Incs
      PROVE  /\ Led!Create(n) => OwnLife!Create(n)
             /\ Led!Start(n) => OwnLife!Start(n)
             /\ Led!FailStart(n) => OwnLife!FailStart(n)
             /\ Led!Die(n) => OwnLife!Die(n)
             /\ Led!Lose(n) => OwnLife!Lose(n)
             /\ Led!FindDead(n) => OwnLife!FindDead(n)
             /\ Led!Record(n) => OwnLife!Record(n)
             /\ Led!Tell(n) => OwnLife!Tell(n)
             /\ Led!Delete(n) => OwnLife!Delete(n)
  BY DEF Own, Live, Started, Led!Becomes, OwnLife!Becomes, Led!Create, OwnLife!Create, Led!Start, OwnLife!Start,
     Led!FailStart, OwnLife!FailStart, Led!Die, OwnLife!Die, Led!Lose, OwnLife!Lose,
     Led!FindDead, OwnLife!FindDead, Led!Record, OwnLife!Record, Led!Tell, OwnLife!Tell, Led!Delete, OwnLife!Delete
<1>3. Led!Next => OwnLife!Next
  BY <1>2 DEF Led!Next, OwnLife!Next
<1> QED
  BY <1>1, <1>3

\* How far a task is in its life.
LifeInv ==
    \A n \in Incs :
        /\ n \in exited => waiter[n] # "none" /\ state[n] \in {"stopped", "deleted"}
        /\ state[n] = "deleted" /\ waiter[n] # "none" => n \in told

\* Whose exit is under way is dead, or it is lost.  What is about to be told
\* has been recorded.
DeathInv ==
    /\ \A n \in Incs : waiter[n] = "sent" => n \notin Live \/ n \in lost
    /\ h.pc \in {"oom", "exit"} => h.inc \in exited
    /\ \A i \in ExitEvents : events[i].inc \in exited

LivesInv == LifeInv /\ DeathInv

\* The steps that say nothing of a task.
LEMMA SameLives ==
    ASSUME Live' = Live, Started' = Started, UNCHANGED <<state, lost, exited, told>>
    PROVE  UNCHANGED Led!vars
BY DEF Led!vars

LEMMA Lived ==
    ASSUME NEW n \in Incs,
           \/ Led!Create(n) \/ Led!Start(n) \/ Led!FailStart(n) \/ Led!Die(n) \/ Led!Lose(n)
           \/ Led!FindDead(n) \/ Led!Record(n) \/ Led!Tell(n) \/ Led!Delete(n)
    PROVE  [Led!Next]_(Led!vars)
BY DEF Led!Next

\* A command that names an id can end one task.
LEMMA KillLives ==
    ASSUME TypeInv, KeptInv, NEW id, rt' \in {rt, Killed(id), Gone(id)},
           UNCHANGED <<state, waiter, lost, exited, told>>
    PROVE  [Led!Next]_(Led!vars)
<1>0. Started' = Started
  BY DEF Started
<1>1. CASE \A n \in Incs : n \in Live' <=> n \in Live
  <2>1. Live' = Live
    BY <1>1 DEF Live
  <2> QED
    BY <1>0, <2>1, SameLives
<1>2. ASSUME NEW n \in Incs, ~(n \in Live' <=> n \in Live)
      PROVE  [Led!Next]_(Led!vars)
  <2>1. n \in InRunsc(id) /\ n \in Live /\ n \notin Live'
    BY <1>2, KilledType DEF Live, TypeInv
  <2>2. \A m \in Incs : m # n => rt'[m] = rt[m]
    BY <2>1, OneLeft, KilledType DEF TypeInv
  <2>3. Live' = Live \ {n}
    BY <2>1, <2>2 DEF Live
  <2>4. Led!Die(n)
    BY <1>0, <2>1, <2>3 DEF Led!Die
  <2> QED
    BY <2>4, Lived
<1> QED
  BY <1>1, <1>2

LEMMA CreateLives ==
    ASSUME client = "event", TypeInv, KeptInv, EventInv, NEW id \in Ids, Create(id)
    PROVE  [Led!Next]_(Led!vars)
<1>1. PICK n \in Incs :
         /\ n > made /\ rt[n] = "absent" /\ rt'[n] = "running"
         /\ \A m \in Incs \ {n} : rt'[m] = rt[m] /\ state'[m] = state[m]
         /\ state'[n] = "created" \/ state' = state
         /\ UNCHANGED <<waiter, exited, told, lost>>
  BY Creates DEF KeptInv
<1>2. state[n] = "none" /\ Started' = Started
  BY <1>1 DEF EventInv, DeleteInv, Started
<1>3. CASE state' = state
  <2>1. Live' = Live
    BY <1>1, <1>2, <1>3 DEF Live
  <2> QED
    BY <1>1, <1>2, <1>3, <2>1, SameLives
<1>4. CASE state'[n] = "created"
  <2>1. state' \in [Incs -> {"none", "created", "running", "stopped", "deleted"}]
    BY CreateType DEF TypeInv, TaskType
  <2>2. state' = [state EXCEPT ![n] = "created"]
    BY <1>1, <1>4, <2>1 DEF TypeInv, TaskType
  <2>3. Live' = Live \cup {n}
    BY <1>1, <1>4 DEF Live
  <2>4. Led!Create(n)
    BY <1>1, <1>2, <2>2, <2>3 DEF Led!Create, Led!Becomes
  <2> QED
    BY <2>4, Lived
<1> QED
  BY <1>1, <1>3, <1>4

\* The calls.
LEMMA ServeLives ==
    ASSUME client = "event", TypeInv, KeptInv, EventInv, LivesInv, NEW t \in Threads, Serve(t)
    PROVE  [Led!Next]_(Led!vars)
<1>1. PICK n \in Incs : n = obj[t] /\ on[t] \in Ids /\ idOf[n] = on[t]
  BY Served DEF TypeInv, CallType, KeptInv, MadeInv
<1>2. CASE Start(t)
  <2>1. /\ UNCHANGED <<exited, rt, told, lost>>
        /\ \/ /\ state[n] = "created" /\ rt[n] \in {"running", "paused"}
              /\ state' = [state EXCEPT ![n] = "running"]
              /\ waiter' = [waiter EXCEPT ![n] = "waiting"]
           \/ state[n] = "created" /\ state' = [state EXCEPT ![n] = "stopped"] /\ waiter' = waiter
           \/ state' = state /\ waiter' = waiter
    BY <1>1, <1>2, Starts DEF EventInv
  <2>2. \A m \in Incs : state'[m] # "none" <=> state[m] # "none"
    BY <2>1 DEF TypeInv, TaskType
  <2>3. Live' = Live
    BY <2>1, <2>2 DEF Live
  <2>4. CASE waiter' = [waiter EXCEPT ![n] = "waiting"] /\ state' = [state EXCEPT ![n] = "running"]
             /\ state[n] = "created" /\ rt[n] \in {"running", "paused"}
    <3>1. n \in Live /\ Started' = Started \cup {n}
      BY <2>4 DEF Live, Started, TypeInv, TaskType
    <3>2. Led!Start(n)
      BY <2>1, <2>3, <2>4, <3>1 DEF Led!Start, Led!Becomes
    <3> QED
      BY <3>2, Lived
  <2>5. CASE state[n] = "created" /\ state' = [state EXCEPT ![n] = "stopped"] /\ waiter' = waiter
    <3>1. Started' = Started
      BY <2>5 DEF Started
    <3>2. Led!FailStart(n)
      BY <2>1, <2>3, <2>5, <3>1 DEF Led!FailStart, Led!Becomes
    <3> QED
      BY <3>2, Lived
  <2>6. CASE state' = state /\ waiter' = waiter
    <3>1. Started' = Started
      BY <2>6 DEF Started
    <3> QED
      BY <2>1, <2>3, <2>6, <3>1, SameLives
  <2> QED
    BY <2>1, <2>4, <2>5, <2>6
<1>3. CASE State(t)
  <2>1. UNCHANGED <<waiter, rt, lost, exited, told>>
    BY <1>3 DEF State, evVars, histVars
  <2>2. Started' = Started
    BY <2>1 DEF Started
  <2>3. CASE state[n] \in {"created", "running"} /\ Alive(on[t]) = {}
    <3>1. state' = [state EXCEPT ![n] = "stopped"] /\ n \notin Live
      BY <1>1, <1>3, <2>3 DEF State, Live, Alive, InRunsc
    <3>2. Live' = Live
      BY <2>1, <2>3, <3>1 DEF Live, TypeInv, TaskType
    <3>3. Led!FindDead(n)
      BY <2>1, <2>2, <2>3, <3>1, <3>2 DEF Led!FindDead, Led!Becomes
    <3> QED
      BY <3>3, Lived
  <2>4. CASE ~(state[n] \in {"created", "running"} /\ Alive(on[t]) = {})
    <3>1. state' = state
      BY <1>1, <1>3, <2>4 DEF State, TypeInv, TaskType
    <3>2. Live' = Live
      BY <2>1, <3>1 DEF Live
    <3> QED
      BY <2>1, <2>2, <3>1, <3>2, SameLives
  <2> QED
    BY <2>3, <2>4
<1>4. CASE InitDelete(t)
  <2>1. /\ pc[t] = "delete" /\ state[n] \in {"created", "stopped"}
        /\ state' = [state EXCEPT ![n] = "deleted"]
        /\ rt' = Gone(on[t])
        /\ UNCHANGED <<waiter, lost, exited, told>>
    BY <1>1, <1>4 DEF InitDelete, evVars, histVars
  <2>2. rt'[n] = "absent"
    BY <1>1, <2>1, KilledType DEF InRunsc, TypeInv
  <2>3. ASSUME NEW m \in Incs, m # n, m \in InRunsc(on[t])
        PROVE  state[m] = "none"
    <3>1. m \in astray
      BY <1>1, <2>1, <2>3 DEF KeptInv, NothingForgotten, InRunsc, EventInv, CallInv
    <3> QED
      BY <3>1 DEF EventInv, DeleteInv
  <2>4. \A m \in Incs : m \in Live' <=> m \in Live /\ m # n
    <3> SUFFICES ASSUME NEW m \in Incs PROVE m \in Live' <=> m \in Live /\ m # n
      OBVIOUS
    <3>1. CASE m = n
      BY <2>2, <3>1 DEF Live
    <3>2. CASE m # n
      <4>1. state'[m] = state[m]
        BY <2>1, <3>2 DEF TypeInv, TaskType
      <4>2. rt'[m] = rt[m] \/ state[m] = "none"
        BY <2>1, <2>3, <3>2, KilledType DEF TypeInv
      <4> QED
        BY <3>2, <4>1, <4>2 DEF Live
    <3> QED
      BY <3>1, <3>2
  <2>5. Live' = Live \ {n} /\ Started' = Started
    BY <2>1, <2>4 DEF Live, Started
  <2>6. Led!Delete(n)
    BY <2>1, <2>5 DEF Led!Delete, Led!Becomes
  <2> QED
    BY <2>6, Lived
<1>5. CASE Pause(t) \/ Resume(t)
  <2>1. UNCHANGED <<state, waiter, lost, exited, told>>
    BY <1>5 DEF Pause, Resume, SwitchCmd, incVars, evVars, histVars
  <2>2. \A m \in Incs : rt'[m] \in {"running", "paused"} <=> rt[m] \in {"running", "paused"}
    BY <1>5 DEF Pause, Resume, SwitchCmd, InRunsc
  <2>3. Live' = Live /\ Started' = Started
    BY <2>1, <2>2 DEF Live, Started
  <2> QED
    BY <2>1, <2>3, SameLives
<1>6. CASE DeleteErr(t)
  <2>1. rt' \in {rt, Killed(on[t]), Gone(on[t])} /\ UNCHANGED <<state, waiter, lost, exited, told>>
    BY <1>6 DEF DeleteErr, incVars, evVars, histVars
  <2> QED
    BY <2>1, KillLives
<1>7. CASE Remove(t) \/ SendPaused(t) \/ SendResumed(t)
  <2>1. UNCHANGED <<state, waiter, rt, lost, exited, told>>
    BY <1>7 DEF Remove, SendPaused, SendResumed, SendEvent, incVars, evVars, histVars
  <2> QED
    BY <2>1, SameLives DEF Live, Started
<1> QED
  BY <1>2, <1>3, <1>4, <1>5, <1>6, <1>7 DEF Serve

\* The processes.  Who cannot be waited for is killed, or lost.
LEMMA ExitLives ==
    ASSUME client = "event", TypeInv, KeptInv, EventInv, NEW n \in Incs, Die(n) \/ SendExit(n)
    PROVE  [Led!Next]_(Led!vars)
<1>1. CASE Die(n)
  <2>1. /\ rt[n] \in {"running", "paused"} /\ rt' = [rt EXCEPT ![n] = "stopped"]
        /\ UNCHANGED <<state, waiter, lost, exited, told>>
    BY <1>1 DEF Die, incVars, evVars, histVars
  <2>2. Live' = Live \ {n} /\ Started' = Started
    BY <2>1 DEF Live, Started, TypeInv, TaskType
  <2>3. CASE n \in Live
    <3>1. Led!Die(n)
      BY <2>1, <2>2, <2>3 DEF Led!Die
    <3> QED
      BY <3>1, Lived
  <2>4. CASE n \notin Live
    BY <2>1, <2>2, <2>4, SameLives
  <2> QED
    BY <2>3, <2>4
<1>2. CASE SendExit(n)
  <2>1. /\ waiter[n] = "waiting" /\ waiter' = [waiter EXCEPT ![n] = "sent"]
        /\ UNCHANGED <<state, exited, told>>
        /\ \/ UNCHANGED <<rt, lost>>
           \/ /\ rt' \in {Killed(idOf[n]), rt}
              /\ lost' = IF rt'[n] \in {"running", "paused"} THEN lost \cup {n} ELSE lost
    BY <1>2 DEF SendExit, KillAll, evVars
  <2>2. n \in Started /\ Started' = Started
    BY <2>1 DEF Started, TypeInv, TaskType
  <2>3. n \in InRunsc(idOf[n]) /\ state[n] # "none"
    <3>1. n \notin told
      BY <2>1 DEF EventInv, TokenInv, Telling
    <3> QED
      BY <2>1, <3>1 DEF EventInv, DeleteInv, InRunsc
  <2>4. CASE UNCHANGED <<rt, lost>>
    <3>1. Live' = Live
      BY <2>1, <2>4 DEF Live
    <3> QED
      BY <2>1, <2>2, <2>4, <3>1, SameLives
  <2>5. CASE rt' = rt /\ rt[n] \in {"running", "paused"} /\ lost' = lost \cup {n}
    <3>1. Live' = Live /\ n \in Live
      BY <2>1, <2>3, <2>5 DEF Live
    <3>2. Led!Lose(n)
      BY <2>1, <2>2, <2>5, <3>1 DEF Led!Lose
    <3> QED
      BY <3>2, Lived
  <2>6. CASE rt' = Killed(idOf[n]) /\ lost' = lost
    <3>1. rt'[n] = "stopped" /\ \A m \in Incs : m # n => rt'[m] = rt[m]
      BY <2>3, <2>6, OneLeft, KilledType DEF TypeInv
    <3>2. Live' = Live \ {n}
      BY <2>1, <3>1 DEF Live
    <3>3. CASE n \in Live
      <4>1. Led!Die(n)
        BY <2>1, <2>2, <2>6, <3>2, <3>3 DEF Led!Die
      <4> QED
        BY <4>1, Lived
    <3>4. CASE n \notin Live
      <4>1. Live' = Live
        BY <3>2, <3>4
      <4> QED
        BY <2>1, <2>2, <2>6, <4>1, SameLives
    <3> QED
      BY <3>3, <3>4
  <2>7. Killed(idOf[n])[n] = "stopped"
    BY <2>3, KilledType DEF TypeInv
  <2> QED
    BY <2>1, <2>4, <2>5, <2>6, <2>7
<1> QED
  BY <1>1, <1>2

\* The handler.  The container it finds is the one that died and has not been
\* deleted.
LEMMA HandlerLives ==
    ASSUME client = "event", TypeInv, KeptInv, EventInv, LivesInv, Handler
    PROVE  [Led!Next]_(Led!vars)
<1>1. CASE HandlerKillAll
  <2>1. rt' \in {rt, Killed(h.id), Gone(h.id)} /\ UNCHANGED <<state, waiter, lost, exited, told>>
    BY <1>1 DEF HandlerKillAll, KillAll, incVars, evVars, histVars
  <2> QED
    BY <2>1, KillLives
<1>2. CASE SetExited
  <2>1. PICK n \in Incs : h.found = n /\ waiter[n] = "sent" /\ n \notin told
    BY <1>2 DEF SetExited, TypeInv, HandlerType, EventInv, TokenInv, Handling
  <2>2. n \in Started \ (Live \ lost) /\ state[n] \in {"running", "stopped"}
    BY <2>1 DEF Started, LivesInv, LifeInv, DeathInv, EventInv, DeleteInv
  <2>3. /\ state' = [state EXCEPT ![n] = "stopped"] /\ exited' = exited \cup {n}
        /\ UNCHANGED <<rt, waiter, lost, told>>
    BY <1>2, <2>1, <2>2 DEF SetExited, evVars, histVars
  <2>4. \A m \in Incs : state'[m] # "none" <=> state[m] # "none"
    BY <2>2, <2>3 DEF TypeInv, TaskType
  <2>5. Live' = Live /\ Started' = Started
    BY <2>3, <2>4 DEF Live, Started
  <2>6. Led!Record(n)
    BY <2>2, <2>3, <2>5 DEF Led!Record, Led!Becomes
  <2> QED
    BY <2>6, Lived
<1>3. CASE ReceiveExit \/ FindProcess \/ IsOOM \/ SendTaskExit
  <2>1. UNCHANGED <<state, waiter, rt, lost, exited, told>>
    BY <1>3 DEF ReceiveExit, FindProcess, IsOOM, SendTaskExit, incVars, evVars, histVars
  <2> QED
    BY <2>1, SameLives DEF Live, Started
<1> QED
  BY <1>1, <1>2, <1>3 DEF Handler

\* The events.  A TaskExit is published once, of a task that is not deleted.
LEMMA ForwardLives ==
    ASSUME client = "event", TypeInv, EventInv, LivesInv, Forward
    PROVE  [Led!Next]_(Led!vars)
<1>1. UNCHANGED <<state, waiter, rt, lost, exited>>
  BY DEF Forward, incVars, histVars
<1>2. Live' = Live /\ Started' = Started
  BY <1>1 DEF Live, Started
<1>3. 1 \in DOMAIN events /\ Head(events) = events[1]
  BY DEF Forward, TypeInv, EventType
<1>4. PICK n \in Incs : n = events[1].inc
  BY <1>3, Items DEF TypeInv
<1>5. CASE events[1].type = "exit"
  <2>1. told' = told \cup {n}
    BY <1>3, <1>4, <1>5 DEF Forward
  <2>2. n \in exited \ told /\ waiter[n] = "sent"
    BY <1>3, <1>4, <1>5 DEF ExitEvents, LivesInv, DeathInv, EventInv, TokenInv, Telling
  <2>3. state[n] = "stopped"
    BY <2>2 DEF LivesInv, LifeInv
  <2>4. Led!Tell(n)
    BY <1>1, <1>2, <2>1, <2>2, <2>3 DEF Led!Tell
  <2> QED
    BY <2>4, Lived
<1>6. CASE events[1].type # "exit"
  <2>1. told' = told
    BY <1>3, <1>6 DEF Forward
  <2> QED
    BY <1>1, <1>2, <2>1, SameLives
<1> QED
  BY <1>5, <1>6

LEMMA StepLives ==
    ASSUME client = "event", TypeInv, KeptInv, EventInv, LivesInv, [Next]_vars
    PROVE  [Led!Next]_(Led!vars)
<1>1. CASE UNCHANGED vars
  BY <1>1, SameLives DEF vars, incVars, evVars, histVars, Live, Started
<1>2. ASSUME NEW t \in Threads, NEW id \in Ids, Call(t, id)
      PROVE  UNCHANGED Led!vars
  <2>1. UNCHANGED <<state, waiter, rt, lost, exited, told>>
    BY <1>2 DEF Call, CallStart, CallState, CallDelete, CallPause, CallResume, getContainer,
       incVars, evVars, histVars
  <2> QED
    BY <2>1, SameLives DEF Live, Started
<1>3. CASE Shutdown \/ CloseEvents
  BY <1>3, SameLives DEF Shutdown, CloseEvents, incVars, histVars, Live, Started
<1> QED
  BY <1>1, <1>2, <1>3, CreateLives, ServeLives, ExitLives, HandlerLives, ForwardLives DEF Next

\* Lives that are led like this stay in LifeInv.
LEMMA LifeStep ==
    ASSUME TypeInv, TypeInv', LifeInv, [Led!Next]_(Led!vars),
           \A n \in Incs : waiter[n] # "none" => state[n] \in {"running", "stopped", "deleted"},
           \A n \in Incs : state[n] \in {"created", "stopped"} /\ state'[n] = "deleted" /\ waiter'[n] # "none"
              => n \in told'
    PROVE  /\ LifeInv'
           /\ \A n \in Incs : n \in Live' => n \in Live \/ state[n] = "none"
           /\ exited \subseteq exited' /\ lost \subseteq lost'
<1> USE DEF Live, Started, TypeInv, TaskType, LifeInv
<1>1. CASE UNCHANGED Led!vars
  <2>1. /\ UNCHANGED <<state, lost, exited, told>> /\ Live' = Live
        /\ \A n \in Incs : waiter'[n] # "none" <=> waiter[n] # "none"
    BY <1>1 DEF Led!vars
  <2> QED
    BY <2>1
<1>2. ASSUME NEW n \in Incs,
             \/ Led!Create(n) \/ Led!Start(n) \/ Led!FailStart(n) \/ Led!Die(n) \/ Led!Lose(n)
             \/ Led!FindDead(n) \/ Led!Record(n) \/ Led!Tell(n) \/ Led!Delete(n)
      PROVE  /\ LifeInv'
             /\ \A m \in Incs : m \in Live' => m \in Live \/ state[m] = "none"
             /\ exited \subseteq exited' /\ lost \subseteq lost'
  BY <1>2 DEF Led!Create, Led!Start, Led!FailStart, Led!Die, Led!Lose, Led!FindDead, Led!Record,
     Led!Tell, Led!Delete, Led!Becomes
<1> QED
  BY <1>1, <1>2 DEF Led!Next

\* A task that was started is deleted when its exit has been told.
LEMMA DeletedTold ==
    ASSUME client = "event", TypeInv, KeptInv, EventInv, [Next]_vars, NEW n \in Incs,
           state[n] # "deleted", state'[n] = "deleted", waiter'[n] # "none"
    PROVE  n \in told'
<1>1. PICK t \in Threads : InitDelete(t) /\ obj[t] = n
  <2>1. state[n] \in {"created", "stopped"}
    BY States DEF EventInv
  <2>2. CASE \E t \in Threads : Serve(t)
    BY <2>2 DEF Serve, Start, State, DeleteErr, InitDelete, Remove, Pause, Resume, SwitchCmd,
       SendPaused, SendResumed, SendEvent, incVars, TypeInv, TaskType, CallType
  <2>3. ASSUME NEW t \in Threads, NEW id \in Ids, Call(t, id) PROVE FALSE
    BY <2>3 DEF Call, CallStart, CallState, CallDelete, CallPause, CallResume, getContainer, incVars
  <2>4. CASE \/ UNCHANGED vars \/ Handler \/ Forward \/ Shutdown \/ CloseEvents
             \/ \E m \in Incs : Die(m) \/ SendExit(m)
    BY <2>4 DEF vars, Handler, ReceiveExit, FindProcess, HandlerKillAll, SetExited, IsOOM, SendTaskExit,
       Forward, Shutdown, CloseEvents, Die, SendExit, incVars, TypeInv, TaskType, HandlerType
  <2>5. ASSUME NEW id \in Ids, Create(id) PROVE FALSE
    <3>1. PICK m \in Incs : (\A k \in Incs \ {m} : state'[k] = state[k])
                            /\ (state'[m] = "created" \/ state' = state)
      BY <2>5, Creates DEF KeptInv
    <3> QED
      BY <3>1
  <2> QED
    BY <2>2, <2>3, <2>4, <2>5 DEF Next
<1>2. waiter' = waiter /\ told' = told /\ (waiter[n] = "none" \/ n \in told)
  BY <1>1 DEF InitDelete, evVars, EventInv, DeleteInv
<1> QED
  BY <1>2

\* What the handler passes on it has recorded.
LEMMA HandedLives ==
    ASSUME TypeInv, EventInv, LivesInv, [Next]_vars, exited \subseteq exited'
    PROVE  h'.pc \in {"oom", "exit"} => h'.inc \in exited'
<1>1. CASE h' = h
  BY <1>1 DEF LivesInv, DeathInv
<1>2. CASE Handler
  <2>1. CASE SetExited
    <3>1. h.inc \in Incs /\ h.found = h.inc /\ waiter[h.inc] = "sent" /\ h.inc \notin told
      BY <2>1 DEF SetExited, TypeInv, HandlerType, EventInv, TokenInv, Handling
    <3>2. state[h.found] # "deleted" /\ h'.inc = h.inc
      BY <2>1, <3>1 DEF SetExited, HandlerGoto, After, LivesInv, LifeInv, TypeInv, HandlerType
    <3> QED
      BY <2>1, <3>1, <3>2 DEF SetExited
  <2>2. CASE IsOOM
    <3>1. h.inc \in exited /\ h'.inc = h.inc
      BY <2>2 DEF IsOOM, HandlerGoto, After, LivesInv, DeathInv, TypeInv, HandlerType
    <3> QED
      BY <3>1
  <2>3. CASE ReceiveExit \/ SendTaskExit
    BY <2>3 DEF ReceiveExit, SendTaskExit, HandlerGoto, After, Idle
  <2>4. CASE FindProcess
    <3>1. h'.pc \in {"idle", "killall"}
      BY <2>4 DEF FindProcess, Idle, After, TypeInv, HandlerType
    <3> QED
      BY <3>1
  <2>5. CASE HandlerKillAll
    <3>1. h'.pc = "setexited"
      BY <2>5 DEF HandlerKillAll, HandlerGoto, After, TypeInv, HandlerType
    <3> QED
      BY <3>1
  <2> QED
    BY <1>2, <2>1, <2>2, <2>3, <2>4, <2>5 DEF Handler
<1>3. h' = h \/ Handler
  BY DEF Next, Call, CallStart, CallState, CallDelete, CallPause, CallResume, getContainer, Serve,
     Start, State, DeleteErr, InitDelete, Remove, Pause, Resume, SwitchCmd, SendPaused,
     SendResumed, SendEvent, Die, SendExit, Forward, Shutdown, CloseEvents, Create, vars, exitVars
<1> QED
  BY <1>1, <1>2, <1>3

LEMMA ToldLives ==
    ASSUME TypeInv, EventInv, LivesInv, [Next]_vars, exited \subseteq exited'
    PROVE  \A i \in ExitEvents' : events'[i].inc \in exited'
<1>1. CASE events' = events
  BY <1>1 DEF ExitEvents, LivesInv, DeathInv
<1>2. CASE Forward
  <2>1. PICK k \in Nat : /\ DOMAIN events = 1 .. k + 1 /\ DOMAIN events' = 1 .. k
                         /\ \A i \in 1 .. k : events'[i] = events[i + 1]
    BY <1>2, Forwarded DEF TypeInv
  <2>2. \A i \in ExitEvents' : i + 1 \in ExitEvents /\ events'[i] = events[i + 1]
    BY <2>1 DEF ExitEvents
  <2> QED
    BY <2>2 DEF LivesInv, DeathInv
<1>3. CASE SendTaskExit
  <2>1. h.pc = "exit" /\ send("exit", h.id, h.found) /\ h.id \in Ids /\ h.found \in Incs
    BY <1>3 DEF SendTaskExit, TypeInv, HandlerType
  <2>2. h.found \in exited
    BY <2>1 DEF LivesInv, DeathInv, EventInv, TokenInv, Handling
  <2>3. PICK k \in Nat : /\ DOMAIN events = 1 .. k /\ DOMAIN events' = 1 .. k + 1
                         /\ \A i \in 1 .. k : events'[i] = events[i]
                         /\ events'[k + 1].inc = h.found
    BY <2>1, Sent DEF TypeInv
  <2> QED
    BY <2>2, <2>3 DEF ExitEvents, LivesInv, DeathInv
<1>4. CASE IsOOM /\ oom[h.id] # None /\ send("oom", h.id, oom[h.id])
  <2>1. h.id \in Ids /\ oom[h.id] \in Incs
    BY <1>4 DEF IsOOM, TypeInv, TableType, HandlerType
  <2> QED
    BY <1>4, <2>1, OtherEvent DEF TypeInv, LivesInv, DeathInv
<1>5. ASSUME NEW t \in Threads, SendPaused(t) \/ SendResumed(t)
      PROVE  \A i \in ExitEvents' : events'[i].inc \in exited'
  <2>1. PICK type \in {"paused", "resumed"} : send(type, on[t], obj[t]) /\ pc[t] # "idle"
    BY <1>5 DEF SendPaused, SendResumed, SendEvent
  <2>2. on[t] \in Ids /\ obj[t] \in Incs
    BY <2>1 DEF TypeInv, CallType
  <2> QED
    BY <2>1, <2>2, OtherEvent DEF TypeInv, LivesInv, DeathInv
<1> QED
  BY <1>1, <1>2, <1>3, <1>4, <1>5, EventSteps

LEMMA LivesStep ==
    ASSUME client = "event", TypeInv, KeptInv, EventInv, LivesInv, TypeInv', [Next]_vars
    PROVE  LivesInv'
<1>1. /\ LifeInv'
      /\ \A n \in Incs : n \in Live' => n \in Live \/ state[n] = "none"
      /\ exited \subseteq exited' /\ lost \subseteq lost'
  <2>1. /\ LifeInv
        /\ \A n \in Incs : waiter[n] # "none" => state[n] \in {"running", "stopped", "deleted"}
    BY DEF LivesInv, EventInv, DeleteInv
  <2>2. \A n \in Incs :
           state[n] \in {"created", "stopped"} /\ state'[n] = "deleted" /\ waiter'[n] # "none" => n \in told'
    BY DeletedTold
  <2> QED
    BY <2>1, <2>2, StepLives, LifeStep
<1>2. ASSUME NEW n \in Incs, waiter'[n] = "sent"
      PROVE  n \notin Live' \/ n \in lost'
  <2>1. CASE waiter[n] = "sent"
    <3>1. state[n] # "none" /\ (n \notin Live \/ n \in lost)
      BY <2>1 DEF EventInv, DeleteInv, LivesInv, DeathInv
    <3> QED
      BY <1>1, <3>1
  <2>2. CASE SendExit(n)
    BY <2>2 DEF SendExit, Live
  <2> QED
    BY <1>2, <2>1, <2>2, Waiters
<1>3. /\ h'.pc \in {"oom", "exit"} => h'.inc \in exited'
      /\ \A i \in ExitEvents' : events'[i].inc \in exited'
  BY <1>1, HandedLives, ToldLives
<1> QED
  BY <1>1, <1>2, <1>3 DEF LivesInv, DeathInv

\* "Find the container whose process exited." (runsc_service.go:603)  Although
\* exits, the map of containers and runsc go by ids that are used again, every
\* step is about one task: its exit is recorded when it was started and is dead,
\* or can neither be waited for nor killed, told once, after that, and before it
\* is deleted, for any number of ids, incarnations and calls at once.
THEOREM ImplementsLivesCorrect == Spec => ImplementsLives
<1> DEFINE I == TypeInv /\ KeptInv /\ (client = "event" => EventInv)
<1>1. Init => OwnLife!Init
  BY DEF Init, OwnLife!Init, Own
<1>2. Init => (client = "event" => LivesInv)
  BY DEF Init, LivesInv, LifeInv, DeathInv, Live, ExitEvents, Idle
<1>3. I /\ (client = "event" => LivesInv) /\ I' /\ [Next]_vars => (client = "event" => LivesInv)'
  BY LivesStep, SameClient
<1>4. I /\ (client = "event" => LivesInv) /\ [Next]_vars => [OwnLife!Next]_(OwnLife!vars)
  <2> SUFFICES ASSUME I, client = "event" => LivesInv, [Next]_vars
               PROVE  [OwnLife!Next]_(OwnLife!vars)
    OBVIOUS
  <2>1. client' = client
    BY SameClient
  <2>2. CASE client = "event"
    BY <2>1, <2>2, StepLives, Leads
  <2>3. CASE client # "event"
    BY <2>1, <2>3 DEF OwnLife!vars, Own
  <2> QED
    BY <2>2, <2>3
<1>5. Spec => []I
  BY Inductive
<1> HIDE DEF I
<1> QED
  BY <1>1, <1>2, <1>3, <1>4, <1>5, PTL DEF Spec, ImplementsLives, OwnLife!Spec

=============================================================================
