------------------------------ MODULE ExecProofs -----------------------------
(***************************************************************************)
(* Proofs about ExecProcs, for any number of containers, exec ids, clients *)
(* and processes, about clients that keep to processes of their own and    *)
(* do not use one exec id for two containers.  The runs show what happens  *)
(* otherwise.                                                              *)
(***************************************************************************)
EXTENDS ExecProcs, TLAPS

USE UsesAssumption, ProcsAssumption

\* No two clients work with one process, and no exec id is used twice.
OwnKeys   == \A k, l \in Clients : k # l => Uses[k] \cap Uses[l] = {}
UniqueIds == \A k, l \in Clients : \A a \in Uses[k], b \in Uses[l] : a[2] = b[2] => a = b

PStates == {"created", "running", "ended", "stopped", "deleted"}
Exit    == [id : ExecIds, proc : 1 .. MaxProcs]
Events  == [type : {"added", "exit"}, c : Containers, proc : 0 .. MaxProcs, by : 0 .. MaxProcs]

\* Every variable has its type.
TypeInv ==
    /\ processes \in [Keys -> 0 .. MaxProcs]
    /\ owner \in Seq(Keys) /\ Len(owner) = Len(pstate)
    /\ pstate \in Seq({"created", "running", "ended", "stopped", "deleted"})
    /\ Len(pstate) <= MaxProcs
    /\ pc \in [Clients -> {"idle", "add", "announce", "remove"}]
    /\ arg \in [Clients -> [key : Keys \cup {<< >>}, proc : 0 .. MaxProcs]]
    /\ \A k \in Clients : pc[k] # "idle" => arg[k].key \in Uses[k]
    /\ \A p \in DOMAIN owner : \E k \in Clients : owner[p] \in Uses[k]
    /\ exitCh \in Seq(Exit)
    /\ handling \subseteq [e : Exit, c : Containers, found : 0 .. MaxProcs]
    /\ stream \in Seq(Events)

\* What an id stands for: the last process added with it, until the client
\* that deleted the process has dropped the id.
InUse ==
    \A key \in Keys :
        processes[key] # 0 =>
            /\ processes[key] \in DOMAIN pstate /\ owner[processes[key]] = key
            /\ pstate[processes[key]] = "deleted" =>
                  \E k \in Clients : pc[k] = "remove" /\ arg[k].key = key

\* Between the steps of a call, the id is as the call left it.
Calls ==
    \A k \in Clients :
        /\ pc[k] = "add" => processes[arg[k].key] = 0
        /\ pc[k] = "remove" =>
              processes[arg[k].key] # 0 /\ pstate[processes[arg[k].key]] = "deleted"

IdInv == InUse /\ Calls /\ Reachable

\* An exit on its way is that of a process that has ended and was not marked
\* exited yet, there is one for a process, and what was found is the process.
Ended(e) == /\ e.proc \in DOMAIN pstate /\ pstate[e.proc] = "ended"
            /\ e.id = owner[e.proc][2]

Exiting ==
    /\ \A i \in DOMAIN exitCh : Ended(exitCh[i])
    /\ \A i, j \in DOMAIN exitCh : i # j => exitCh[i].proc # exitCh[j].proc
    /\ \A h \in handling :
          /\ Ended(h.e) /\ h.found = h.e.proc /\ h.c = owner[h.e.proc][1]
          /\ \A i \in DOMAIN exitCh : exitCh[i].proc # h.e.proc
    /\ \A g, h \in handling : g = h

Reported == \A i \in DOMAIN stream : stream[i].type = "exit" => stream[i].by \in DOMAIN pstate

ExitInv == Exiting /\ Reported /\ ExitReachesItsProcess

-----------------------------------------------------------------------------

LEMMA InitExec == Init => TypeInv /\ IdInv /\ ExitInv
BY DEF Init, TypeInv, IdInv, InUse, Calls, Reachable, NoArg, Keys, ExitInv, Exiting, Reported,
       ExitReachesItsProcess

\* Keys of a call are keys.
LEMMA KeyFacts ==
    /\ \A k \in Clients : Uses[k] \subseteq Keys
    /\ \A key \in Keys : key[1] \in Containers /\ key[2] \in ExecIds /\ key = <<key[1], key[2]>>
BY DEF Keys

\* Changing an element of a sequence.
LEMMA ExceptSeq ==
    ASSUME NEW S, NEW s \in Seq(S), NEW i, NEW e \in S
    PROVE  /\ [s EXCEPT ![i] = e] \in Seq(S)
           /\ Len([s EXCEPT ![i] = e]) = Len(s)
           /\ DOMAIN [s EXCEPT ![i] = e] = DOMAIN s
           /\ i \in DOMAIN s => [s EXCEPT ![i] = e][i] = e
           /\ \A j \in DOMAIN s : j # i => [s EXCEPT ![i] = e][j] = s[j]
<1> DEFINE t == [s EXCEPT ![i] = e]
<1>1. DOMAIN s = 1 .. Len(s) /\ Len(s) \in Nat /\ s \in [1 .. Len(s) -> S]
  OBVIOUS
<1>2. t \in [1 .. Len(s) -> S] /\ DOMAIN t = 1 .. Len(s)
  BY <1>1
<1>3. t \in Seq(S) /\ Len(t) = Len(s)
  BY <1>1, <1>2
<1> QED
  BY <1>1, <1>2, <1>3

\* A step that changes at most the state of one process.
LEMMA StateType ==
    ASSUME TypeInv, NEW p, NEW v \in PStates, pstate' = [pstate EXCEPT ![p] = v]
    PROVE  /\ pstate' \in Seq(PStates) /\ Len(pstate') = Len(pstate)
           /\ DOMAIN pstate' = DOMAIN pstate
           /\ p \in DOMAIN pstate => pstate'[p] = v
           /\ \A q \in DOMAIN pstate : q # p => pstate'[q] = pstate[q]
<1>1. pstate \in Seq(PStates)
  BY DEF TypeInv, PStates
<1> QED
  BY <1>1, ExceptSeq

\* A call that goes on or returns.
LEMMA CallType ==
    ASSUME TypeInv, NEW k \in Clients, NEW key \in Uses[k], NEW p \in 0 .. MaxProcs,
           NEW l \in {"idle", "add", "announce", "remove"}, Call(k, key, p, l) \/ Return(k)
    PROVE  /\ pc' \in [Clients -> {"idle", "add", "announce", "remove"}]
           /\ arg' \in [Clients -> [key : Keys \cup {<< >>}, proc : 0 .. MaxProcs]]
           /\ \A j \in Clients : pc'[j] # "idle" => arg'[j].key \in Uses[j]
           /\ \A j \in Clients \ {k} : pc'[j] = pc[j] /\ arg'[j] = arg[j]
           /\ Call(k, key, p, l) => pc'[k] = l /\ arg'[k].key = key /\ arg'[k].proc = p
           /\ Return(k) => pc'[k] = "idle"
<1> DEFINE Args == [key : Keys \cup {<< >>}, proc : 0 .. MaxProcs]
<1>1. PICK m \in {"idle", "add", "announce", "remove"}, r \in Args :
          /\ pc' = [pc EXCEPT ![k] = m] /\ arg' = [arg EXCEPT ![k] = r]
          /\ m # "idle" => r.key \in Uses[k]
          /\ Call(k, key, p, l) => m = l /\ r.key = key /\ r.proc = p
          /\ Return(k) => m = "idle"
  <2>1. CASE Call(k, key, p, l)
    <3>1. [key |-> key, proc |-> p] \in Args /\ [key |-> key, proc |-> p].key = key
      BY KeyFacts
    <3>2. /\ pc' = [pc EXCEPT ![k] = l] /\ arg' = [arg EXCEPT ![k] = [key |-> key, proc |-> p]]
          /\ Return(k) => l = "idle"
      <4>1. Return(k) => [pc EXCEPT ![k] = "idle"][k] = [pc EXCEPT ![k] = l][k]
        BY <2>1 DEF Call, Return
      <4> QED
        BY <2>1, <4>1 DEF Call, TypeInv
    <3> HIDE DEF Args
    <3> QED
      BY <3>1, <3>2
  <2>2. CASE Return(k) /\ ~Call(k, key, p, l)
    <3>1. NoArg \in Args
      BY DEF NoArg
    <3> QED
      BY <2>2, <3>1 DEF Return
  <2> QED
    BY <2>1, <2>2
<1> HIDE DEF Args
<1>2. pc' \in [Clients -> {"idle", "add", "announce", "remove"}] /\ pc'[k] = m
  BY <1>1 DEF TypeInv
<1>3. arg' \in [Clients -> Args] /\ arg'[k] = r
  BY <1>1 DEF TypeInv, Args
<1>4. \A j \in Clients \ {k} : pc'[j] = pc[j] /\ arg'[j] = arg[j]
  BY <1>1 DEF TypeInv
<1> QED
  BY <1>1, <1>2, <1>3, <1>4 DEF TypeInv, Args

LEMMA NextTypes ==
    ASSUME TypeInv, [Next]_vars
    PROVE  TypeInv'
<1>0. DOMAIN owner = DOMAIN pstate /\ DOMAIN pstate = 1 .. Len(pstate) /\ Len(pstate) \in Nat
  BY DEF TypeInv
<1>1. ASSUME NEW k \in Clients, NEW key \in Uses[k], ExecCheck(k, key)
      PROVE  TypeInv'
  BY <1>1, CallType DEF ExecCheck, TypeInv
<1>2. ASSUME NEW k \in Clients, NEW key \in Uses[k], StartExec(k, key)
      PROVE  TypeInv'
  <2>1. pstate' = [pstate EXCEPT ![processes[key]] = "running"]
    BY <1>2 DEF StartExec
  <2>2. pstate' \in Seq(PStates) /\ Len(pstate') = Len(pstate)
    BY <2>1, StateType DEF PStates
  <2> QED
    BY <1>2, <2>2 DEF StartExec, TypeInv, PStates
<1>3. ASSUME NEW k \in Clients, NEW key \in Uses[k], DeleteExec(k, key)
      PROVE  TypeInv'
  <2>1. pstate' = [pstate EXCEPT ![processes[key]] = "deleted"]
    BY <1>3 DEF DeleteExec
  <2>2. pstate' \in Seq(PStates) /\ Len(pstate') = Len(pstate)
    BY <2>1, StateType DEF PStates
  <2>3. key \in Keys
    BY KeyFacts
  <2>4. processes[key] \in 0 .. MaxProcs /\ Call(k, key, processes[key], "remove")
    BY <1>3, <2>3 DEF DeleteExec, TypeInv
  <2> QED
    BY <1>3, <2>2, <2>4, CallType DEF DeleteExec, TypeInv, PStates
<1>4. ASSUME NEW k \in Clients, ProcessAdd(k)
      PROVE  TypeInv'
  <2> DEFINE p == Len(pstate) + 1
  <2>1. /\ pstate' = Append(pstate, "created") /\ owner' = Append(owner, arg[k].key)
        /\ processes' = [processes EXCEPT ![arg[k].key] = p]
        /\ arg[k].key \in Uses[k] /\ arg[k].key \in Keys /\ exitCh' = exitCh
    BY <1>4, KeyFacts DEF ProcessAdd, TypeInv
  <2>2. p \in 1 .. MaxProcs
    BY <1>4 DEF ProcessAdd, Procs
  <2>3. processes' \in [Keys -> 0 .. MaxProcs]
    BY <2>1, <2>2 DEF TypeInv
  <2>4. /\ pstate' \in Seq(PStates) /\ owner' \in Seq(Keys) /\ Len(owner') = Len(pstate')
        /\ Len(pstate') <= MaxProcs
    BY <2>1, <2>2 DEF TypeInv, PStates
  <2>5. \A q \in DOMAIN owner' : \E j \in Clients : owner'[q] \in Uses[j]
    <3>1. \A q \in DOMAIN owner' :
             (q \in DOMAIN owner /\ owner'[q] = owner[q]) \/ owner'[q] = arg[k].key
      BY <2>1 DEF TypeInv
    <3> QED
      BY <2>1, <3>1 DEF TypeInv
  <2>6. Call(k, arg[k].key, p, "announce") /\ p \in 0 .. MaxProcs
    BY <1>4, <2>2 DEF ProcessAdd
  <2>7. handling' = handling /\ stream' = stream
    BY <1>4 DEF ProcessAdd
  <2> HIDE DEF p
  <2> QED
    BY <2>1, <2>3, <2>4, <2>5, <2>6, <2>7, CallType DEF TypeInv, PStates
<1>5. ASSUME NEW k \in Clients, ExecAdded(k)
      PROVE  TypeInv'
  <2>1. Return(k) /\ arg[k].key \in Uses[k] /\ 0 \in 0 .. MaxProcs
    BY <1>5 DEF ExecAdded, TypeInv
  <2> DEFINE ev == [type |-> "added", c |-> arg[k].key[1], proc |-> arg[k].proc, by |-> arg[k].proc]
  <2>2. ev \in Events
    <3>1. arg[k].key \in Keys /\ arg[k].proc \in 0 .. MaxProcs
      BY <2>1, KeyFacts DEF TypeInv
    <3> QED
      BY <3>1, KeyFacts DEF Events
  <2>3. stream' = Append(stream, ev)
    BY <1>5 DEF ExecAdded
  <2> HIDE DEF ev
  <2>4. stream' \in Seq(Events)
    BY <2>2, <2>3 DEF TypeInv
  <2> QED
    BY <1>5, <2>1, <2>4, CallType DEF ExecAdded, TypeInv
<1>6. ASSUME NEW k \in Clients, ProcessRemove(k)
      PROVE  TypeInv'
  <2>1. Return(k) /\ arg[k].key \in Uses[k] /\ 0 \in 0 .. MaxProcs
    BY <1>6 DEF ProcessRemove, TypeInv
  <2>2. processes' \in [Keys -> 0 .. MaxProcs]
    BY <1>6, <2>1 DEF ProcessRemove, TypeInv
  <2> QED
    BY <1>6, <2>1, <2>2, CallType DEF ProcessRemove, TypeInv
<1>7. ASSUME NEW p \in DOMAIN pstate, ExecExit(p)
      PROVE  TypeInv'
  <2>1. pstate' \in Seq(PStates) /\ Len(pstate') = Len(pstate)
    BY <1>7, StateType DEF PStates, ExecExit
  <2>2. [id |-> owner[p][2], proc |-> p] \in Exit
    <3>1. owner[p] \in Keys /\ p \in 1 .. MaxProcs
      BY <1>0 DEF TypeInv
    <3> QED
      BY <3>1, KeyFacts DEF Exit
  <2>3. exitCh' \in Seq(Exit)
    BY <1>7, <2>2 DEF ExecExit, TypeInv
  <2> QED
    BY <1>7, <2>1, <2>3 DEF ExecExit, TypeInv, PStates
<1>8. CASE FindExited
  <2>1. exitCh' \in Seq(Exit)
    BY <1>8 DEF FindExited, TypeInv
  <2>2. Head(exitCh) \in Exit
    BY <1>8 DEF FindExited, TypeInv
  <2>3. ASSUME NEW key \in Keys
        PROVE  [e |-> Head(exitCh), c |-> key[1], found |-> processes[key]]
                  \in [e : Exit, c : Containers, found : 0 .. MaxProcs]
    BY <2>2, KeyFacts DEF TypeInv
  <2>4. handling' \subseteq [e : Exit, c : Containers, found : 0 .. MaxProcs]
    BY <1>8, <2>3 DEF FindExited
  <2> QED
    BY <1>8, <2>1, <2>4 DEF FindExited, TypeInv
<1>9. CASE ReportExit
  <2> DEFINE ev(h) == [type |-> "exit", c |-> h.c, proc |-> h.found, by |-> h.e.proc]
  <2>1. PICK h \in handling :
           /\ pstate' = [pstate EXCEPT ![h.found] =
                            IF pstate[h.found] = "deleted" THEN "deleted" ELSE "stopped"]
           /\ stream' = Append(stream, ev(h))
    BY <1>9 DEF ReportExit
  <2>2. pstate' \in Seq(PStates) /\ Len(pstate') = Len(pstate)
    BY <2>1, StateType DEF PStates
  <2>3. ev(h) \in Events
    <3>1. h \in [e : Exit, c : Containers, found : 0 .. MaxProcs]
      BY DEF TypeInv
    <3>2. h.c \in Containers /\ h.found \in 0 .. MaxProcs /\ h.e.proc \in 0 .. MaxProcs
      BY <3>1 DEF Exit
    <3> QED
      BY <3>2 DEF Events
  <2> HIDE DEF ev
  <2>4. stream' \in Seq(Events)
    BY <2>1, <2>3 DEF TypeInv
  <2> QED
    BY <1>9, <2>2, <2>4 DEF ReportExit, TypeInv, PStates
<1>10. CASE UNCHANGED vars
  BY <1>10 DEF vars, TypeInv
<1> QED
  BY <1>1, <1>2, <1>3, <1>4, <1>5, <1>6, <1>7, <1>8, <1>9, <1>10 DEF Next, Service, Exits

-----------------------------------------------------------------------------
(* Ids *)

\* Only the client that works with a process has calls about it.
LEMMA Mine ==
    ASSUME OwnKeys, TypeInv, NEW j \in Clients, NEW k \in Clients, NEW key \in Uses[k],
           pc[j] # "idle", arg[j].key = key
    PROVE  j = k
BY DEF OwnKeys, TypeInv

LEMMA NextIds ==
    ASSUME OwnKeys, TypeInv, TypeInv', IdInv, [Next]_vars
    PROVE  IdInv'
<1>0. /\ DOMAIN owner = DOMAIN pstate /\ DOMAIN pstate = 1 .. Len(pstate) /\ Len(pstate) \in Nat
      /\ 0 \notin DOMAIN pstate
  BY DEF TypeInv
<1>1. ASSUME NEW k \in Clients, NEW key \in Uses[k], ExecCheck(k, key)
      PROVE  IdInv'
  <2>1. /\ Call(k, key, 0, "add") /\ 0 \in 0 .. MaxProcs /\ pc[k] = "idle" /\ processes[key] = 0
        /\ UNCHANGED <<processes, owner, pstate>>
    BY <1>1 DEF ExecCheck
  <2>2. /\ \A j \in Clients \ {k} : pc'[j] = pc[j] /\ arg'[j] = arg[j]
        /\ pc'[k] = "add" /\ arg'[k].key = key
    BY <2>1, CallType
  <2> QED
    BY <2>1, <2>2 DEF IdInv, InUse, Calls, Reachable
<1>2. ASSUME NEW k \in Clients, NEW key \in Uses[k], StartExec(k, key)
      PROVE  IdInv'
  <2>1. /\ pstate' = [pstate EXCEPT ![processes[key]] = "running"]
        /\ pstate[processes[key]] = "created" /\ processes[key] # 0 /\ key \in Keys
        /\ UNCHANGED <<processes, owner, pc, arg>>
    BY <1>2, KeyFacts DEF StartExec
  <2>2. /\ DOMAIN pstate' = DOMAIN pstate
        /\ \A q \in DOMAIN pstate : pstate'[q] = "deleted" <=> pstate[q] = "deleted"
    BY <2>1, StateType DEF PStates
  <2> QED
    BY <2>1, <2>2, KeyFacts DEF IdInv, InUse, Calls, Reachable, TypeInv
<1>3. ASSUME NEW k \in Clients, NEW key \in Uses[k], DeleteExec(k, key)
      PROVE  IdInv'
  <2> DEFINE p == processes[key]
  <2>1. /\ pstate' = [pstate EXCEPT ![p] = "deleted"]
        /\ pc[k] = "idle" /\ p # 0 /\ pstate[p] # "deleted" /\ key \in Keys
        /\ Call(k, key, p, "remove") /\ UNCHANGED <<processes, owner>>
    BY <1>3, KeyFacts DEF DeleteExec
  <2>2. p \in DOMAIN pstate /\ owner[p] = key /\ p \in 0 .. MaxProcs
    BY <2>1 DEF IdInv, InUse, TypeInv
  <2>3. /\ DOMAIN pstate' = DOMAIN pstate /\ pstate'[p] = "deleted"
        /\ \A q \in DOMAIN pstate : q # p => pstate'[q] = pstate[q]
    BY <2>1, <2>2, StateType DEF PStates
  <2>4. /\ \A j \in Clients \ {k} : pc'[j] = pc[j] /\ arg'[j] = arg[j]
        /\ pc'[k] = "remove" /\ arg'[k].key = key
    BY <2>1, <2>2, CallType
  <2> HIDE DEF p
  <2>5. processes[key] = p /\ \A a \in Keys : a # key => processes[a] # p
    BY <2>1, <2>2 DEF p, IdInv, InUse
  <2>6. InUse'
    <3> SUFFICES ASSUME NEW a \in Keys, processes[a] # 0
                 PROVE  /\ processes[a] \in DOMAIN pstate' /\ owner[processes[a]] = a
                        /\ pstate'[processes[a]] = "deleted" =>
                              \E j \in Clients : pc'[j] = "remove" /\ arg'[j].key = a
      BY <2>1 DEF InUse
    <3>1. CASE a = key
      BY <3>1, <2>2, <2>3, <2>4, <2>5
    <3>2. CASE a # key
      <4>1. /\ processes[a] \in DOMAIN pstate /\ owner[processes[a]] = a
            /\ pstate[processes[a]] = "deleted" =>
                 \E j \in Clients : pc[j] = "remove" /\ arg[j].key = a
        BY DEF IdInv, InUse
      <4>2. pstate'[processes[a]] = pstate[processes[a]]
        BY <4>1, <3>2, <2>3, <2>5
      <4> QED
        BY <4>1, <4>2, <2>1, <2>3, <2>4
    <3> QED
      BY <3>1, <3>2
  <2>7. Calls'
    <3> SUFFICES ASSUME NEW j \in Clients
                 PROVE  /\ pc'[j] = "add" => processes[arg'[j].key] = 0
                        /\ pc'[j] = "remove" => /\ processes[arg'[j].key] # 0
                                                /\ pstate'[processes[arg'[j].key]] = "deleted"
      BY <2>1 DEF Calls
    <3>1. CASE j = k
      BY <3>1, <2>1, <2>3, <2>4, <2>5
    <3>2. CASE j # k
      <4>1. pc'[j] = pc[j] /\ arg'[j] = arg[j] /\ (pc[j] # "idle" => arg[j].key \in Keys)
        BY <3>2, <2>4, KeyFacts DEF TypeInv
      <4>2. pc[j] = "remove" => processes[arg[j].key] \in DOMAIN pstate
        BY <4>1 DEF IdInv, InUse, Calls
      <4> QED
        BY <4>1, <4>2, <2>3, <2>1 DEF IdInv, Calls
    <3> QED
      BY <3>1, <3>2
  <2>8. Reachable'
    BY <2>1, <2>2, <2>3 DEF IdInv, Reachable
  <2> QED
    BY <2>6, <2>7, <2>8 DEF IdInv
<1>4. ASSUME NEW k \in Clients, ProcessAdd(k)
      PROVE  IdInv'
  <2> DEFINE p == Len(pstate) + 1
             key == arg[k].key
  <2>1. /\ pstate' = Append(pstate, "created") /\ owner' = Append(owner, key)
        /\ processes' = [processes EXCEPT ![key] = p] /\ Call(k, key, p, "announce")
        /\ key \in Uses[k] /\ key \in Keys /\ p \in 0 .. MaxProcs /\ pc[k] = "add"
    BY <1>4, KeyFacts DEF ProcessAdd, TypeInv, Procs
  <2>2. /\ \A j \in Clients \ {k} : pc'[j] = pc[j] /\ arg'[j] = arg[j]
        /\ pc'[k] = "announce" /\ arg'[k].key = key
    BY <2>1, CallType
  <2>3. processes[key] = 0
    BY <2>1 DEF IdInv, Calls
  <2>4. /\ DOMAIN pstate' = DOMAIN pstate \cup {p} /\ p \notin DOMAIN pstate /\ p # 0
        /\ pstate'[p] = "created" /\ owner'[p] = key
        /\ \A q \in DOMAIN pstate : pstate'[q] = pstate[q] /\ owner'[q] = owner[q]
    BY <2>1, <1>0 DEF TypeInv
  <2>5. processes'[key] = p /\ \A a \in Keys : a # key => processes'[a] = processes[a]
    BY <2>1 DEF TypeInv
  <2>6. \A j \in Clients \ {k} : pc[j] # "idle" => arg[j].key # key /\ arg[j].key \in Keys
    BY <2>1, Mine, KeyFacts DEF TypeInv
  <2>60. \A j \in Clients \ {k} : pc[j] # "idle" => processes'[arg[j].key] = processes[arg[j].key]
    BY <2>5, <2>6
  <2> HIDE DEF p, key
  <2>7. InUse'
    <3> SUFFICES ASSUME NEW a \in Keys, processes'[a] # 0
                 PROVE  /\ processes'[a] \in DOMAIN pstate' /\ owner'[processes'[a]] = a
                        /\ pstate'[processes'[a]] = "deleted" =>
                              \E j \in Clients : pc'[j] = "remove" /\ arg'[j].key = a
      BY DEF InUse
    <3>1. CASE a = key
      BY <3>1, <2>4, <2>5
    <3>2. CASE a # key
      <4>1. /\ processes[a] \in DOMAIN pstate /\ owner[processes[a]] = a
            /\ pstate[processes[a]] = "deleted" =>
                 \E j \in Clients : pc[j] = "remove" /\ arg[j].key = a
        BY <3>2, <2>5 DEF IdInv, InUse
      <4> QED
        BY <4>1, <3>2, <2>1, <2>2, <2>4, <2>5
    <3> QED
      BY <3>1, <3>2
  <2>8. Calls'
    <3>1. \A j \in Clients \ {k} : pc[j] = "remove" => processes[arg[j].key] \in DOMAIN pstate
      BY <2>6 DEF IdInv, InUse, Calls
    <3> QED
      BY <3>1, <2>2, <2>4, <2>60 DEF IdInv, Calls
  <2>9. Reachable'
    <3>1. ASSUME NEW q \in DOMAIN pstate, pstate[q] # "deleted"
          PROVE  processes'[owner[q]] = q
      <4>1. processes[owner[q]] = q /\ owner[q] \in Keys /\ q # 0
        BY <3>1, <1>0 DEF IdInv, Reachable, TypeInv
      <4> QED
        BY <4>1, <2>3, <2>5
    <3> QED
      BY <3>1, <2>4, <2>5 DEF Reachable
  <2> QED
    BY <2>7, <2>8, <2>9 DEF IdInv
<1>5. ASSUME NEW k \in Clients, ExecAdded(k)
      PROVE  IdInv'
  <2>1. /\ Return(k) /\ arg[k].key \in Uses[k] /\ 0 \in 0 .. MaxProcs /\ pc[k] = "announce"
        /\ UNCHANGED <<processes, owner, pstate>>
    BY <1>5 DEF ExecAdded, TypeInv
  <2>2. /\ \A j \in Clients \ {k} : pc'[j] = pc[j] /\ arg'[j] = arg[j]
        /\ pc'[k] = "idle"
    BY <2>1, CallType
  <2>3. \A j \in Clients : pc[j] = "remove" => pc'[j] = pc[j] /\ arg'[j] = arg[j]
    BY <2>1, <2>2
  <2> QED
    BY <2>1, <2>2, <2>3 DEF IdInv, InUse, Calls, Reachable
<1>6. ASSUME NEW k \in Clients, ProcessRemove(k)
      PROVE  IdInv'
  <2> DEFINE key == arg[k].key
  <2>1. /\ Return(k) /\ key \in Uses[k] /\ 0 \in 0 .. MaxProcs /\ pc[k] = "remove" /\ key \in Keys
        /\ processes' = [processes EXCEPT ![key] = 0] /\ UNCHANGED <<owner, pstate>>
    BY <1>6, KeyFacts DEF ProcessRemove, TypeInv
  <2>2. /\ \A j \in Clients \ {k} : pc'[j] = pc[j] /\ arg'[j] = arg[j]
        /\ pc'[k] = "idle"
    BY <2>1, CallType
  <2>3. processes[key] # 0 /\ pstate[processes[key]] = "deleted"
    BY <2>1 DEF IdInv, Calls
  <2>4. processes'[key] = 0 /\ \A a \in Keys : a # key => processes'[a] = processes[a]
    BY <2>1 DEF TypeInv
  <2>5. \A j \in Clients \ {k} : pc[j] # "idle" => arg[j].key # key /\ arg[j].key \in Keys
    BY <2>1, Mine, KeyFacts DEF TypeInv
  <2>50. \A j \in Clients \ {k} : pc[j] # "idle" => processes'[arg[j].key] = processes[arg[j].key]
    BY <2>4, <2>5
  <2>51. arg[k].key = key
    OBVIOUS
  <2> HIDE DEF key
  <2>6. InUse'
    <3> SUFFICES ASSUME NEW a \in Keys, processes'[a] # 0
                 PROVE  /\ processes[a] \in DOMAIN pstate /\ owner[processes[a]] = a
                        /\ pstate[processes[a]] = "deleted" =>
                              \E j \in Clients : pc'[j] = "remove" /\ arg'[j].key = a
                        /\ processes'[a] = processes[a]
      BY <2>1 DEF InUse
    <3>1. a # key /\ processes'[a] = processes[a]
      BY <2>4
    <3> QED
      BY <3>1, <2>2, <2>51 DEF IdInv, InUse
  <2>7. Calls'
    BY <2>1, <2>2, <2>50 DEF IdInv, Calls
  <2>8. Reachable'
    <3> SUFFICES ASSUME NEW q \in DOMAIN pstate, pstate[q] # "deleted"
                 PROVE  processes'[owner[q]] = q
      BY <2>1 DEF Reachable
    <3>1. processes[owner[q]] = q /\ owner[q] \in Keys
      BY <1>0 DEF IdInv, Reachable, TypeInv
    <3> QED
      BY <3>1, <2>3, <2>4
  <2> QED
    BY <2>6, <2>7, <2>8 DEF IdInv
<1>7. ASSUME NEW p \in DOMAIN pstate, ExecExit(p)
      PROVE  IdInv'
  <2>1. /\ pstate' = [pstate EXCEPT ![p] = "ended"] /\ pstate[p] = "running"
        /\ UNCHANGED <<processes, owner, pc, arg>>
    BY <1>7 DEF ExecExit
  <2>2. /\ DOMAIN pstate' = DOMAIN pstate
        /\ \A q \in DOMAIN pstate : pstate'[q] = "deleted" <=> pstate[q] = "deleted"
    BY <2>1, StateType DEF PStates
  <2> QED
    BY <2>1, <2>2, KeyFacts DEF IdInv, InUse, Calls, Reachable, TypeInv
<1>8. CASE FindExited
  BY <1>8 DEF FindExited, IdInv, InUse, Calls, Reachable
<1>9. CASE ReportExit
  <2>1. PICK h \in handling :
           pstate' = [pstate EXCEPT ![h.found] = IF pstate[h.found] = "deleted" THEN "deleted" ELSE "stopped"]
    BY <1>9 DEF ReportExit
  <2>2. /\ DOMAIN pstate' = DOMAIN pstate
        /\ \A q \in DOMAIN pstate : pstate'[q] = "deleted" <=> pstate[q] = "deleted"
    BY <2>1, StateType DEF PStates
  <2>3. UNCHANGED <<processes, owner, pc, arg>>
    BY <1>9 DEF ReportExit
  <2> QED
    BY <2>2, <2>3, KeyFacts DEF IdInv, InUse, Calls, Reachable, TypeInv
<1>10. CASE UNCHANGED vars
  BY <1>10 DEF vars, IdInv, InUse, Calls, Reachable
<1> QED
  BY <1>1, <1>2, <1>3, <1>4, <1>5, <1>6, <1>7, <1>8, <1>9, <1>10 DEF Next, Service, Exits

-----------------------------------------------------------------------------
(* Exits *)

\* Appending to a sequence.
LEMMA AppendFacts ==
    ASSUME NEW S, NEW s \in Seq(S), NEW e \in S
    PROVE  /\ DOMAIN s = 1 .. Len(s) /\ Len(s) \in Nat
           /\ DOMAIN Append(s, e) = 1 .. Len(s) + 1
           /\ \A i \in DOMAIN s : i \in DOMAIN Append(s, e) /\ Append(s, e)[i] = s[i]
           /\ Append(s, e)[Len(s) + 1] = e
           /\ \A i \in DOMAIN Append(s, e) : i \in DOMAIN s \/ i = Len(s) + 1
OBVIOUS

\* What checkProcesses finds for an exit is the process that ended.
LEMMA FoundEnded ==
    ASSUME UniqueIds, TypeInv, IdInv, NEW e, Ended(e), NEW key \in Keys,
           processes[key] # 0, key[2] = e.id
    PROVE  processes[key] = e.proc /\ key[1] = owner[e.proc][1]
<1>0. DOMAIN owner = DOMAIN pstate
  BY DEF TypeInv
<1>1. processes[owner[e.proc]] = e.proc
  BY DEF Ended, IdInv, Reachable
<1>2. processes[key] \in DOMAIN pstate /\ owner[processes[key]] = key
  BY DEF IdInv, InUse
<1>3. PICK k \in Clients : key \in Uses[k]
  BY <1>0, <1>2 DEF TypeInv
<1>4. PICK l \in Clients : owner[e.proc] \in Uses[l]
  BY <1>0 DEF Ended, TypeInv
<1>5. key[2] = owner[e.proc][2]
  BY DEF Ended
<1>6. key = owner[e.proc]
  BY <1>3, <1>4, <1>5 DEF UniqueIds
<1> QED
  BY <1>1, <1>6

\* Steps that leave exits and the stream alone and change only processes
\* that have not ended.
LEMMA ExitingSame ==
    ASSUME TypeInv, ExitInv,
           exitCh' = exitCh, handling' = handling, stream' = stream,
           DOMAIN pstate \subseteq DOMAIN pstate',
           \A q \in DOMAIN pstate : /\ owner'[q] = owner[q]
                                    /\ pstate[q] = "ended" => pstate'[q] = "ended"
    PROVE  Exiting' /\ Reported' /\ ExitReachesItsProcess'
<1>1. ASSUME NEW e, Ended(e)
      PROVE  Ended(e)' /\ owner'[e.proc] = owner[e.proc]
  BY <1>1 DEF Ended
<1>2. Exiting'
  <2>1. \A i \in DOMAIN exitCh : Ended(exitCh[i])'
    BY <1>1 DEF ExitInv, Exiting
  <2>2. \A h \in handling : Ended(h.e)' /\ owner'[h.e.proc] = owner[h.e.proc]
    BY <1>1 DEF ExitInv, Exiting
  <2> QED
    BY <2>1, <2>2 DEF ExitInv, Exiting, Ended
<1> QED
  BY <1>2 DEF ExitInv, Reported, ExitReachesItsProcess

LEMMA NextExits ==
    ASSUME OwnKeys, UniqueIds, TypeInv, TypeInv', IdInv, ExitInv, [Next]_vars
    PROVE  ExitInv'
<1>0. /\ DOMAIN owner = DOMAIN pstate /\ DOMAIN pstate = 1 .. Len(pstate) /\ Len(pstate) \in Nat
      /\ 0 \notin DOMAIN pstate
  BY DEF TypeInv
<1>1. ASSUME NEW k \in Clients, NEW key \in Uses[k], ExecCheck(k, key)
      PROVE  ExitInv'
  <2>1. /\ Call(k, key, 0, "add") /\ 0 \in 0 .. MaxProcs /\ pc[k] = "idle"
        /\ UNCHANGED <<owner, pstate, exitCh, handling, stream>>
    BY <1>1 DEF ExecCheck
  <2> QED
    BY <2>1, ExitingSame DEF ExitInv
<1>2. ASSUME NEW k \in Clients, NEW key \in Uses[k], StartExec(k, key)
      PROVE  ExitInv'
  <2>1. /\ pstate' = [pstate EXCEPT ![processes[key]] = "running"]
        /\ pstate[processes[key]] = "created" /\ processes[key] # 0 /\ pc[k] = "idle"
        /\ UNCHANGED <<owner, pc, arg, exitCh, handling, stream>>
    BY <1>2 DEF StartExec
  <2>3. /\ DOMAIN pstate' = DOMAIN pstate
        /\ \A q \in DOMAIN pstate : q # processes[key] => pstate'[q] = pstate[q]
    BY <2>1, StateType DEF PStates
  <2>5. \A q \in DOMAIN pstate : pstate[q] = "ended" => pstate'[q] = "ended"
    BY <2>1, <2>3
  <2> QED
    BY <2>1, <2>3, <2>5, ExitingSame DEF ExitInv
<1>3. ASSUME NEW k \in Clients, NEW key \in Uses[k], DeleteExec(k, key)
      PROVE  ExitInv'
  <2>1. /\ pstate' = [pstate EXCEPT ![processes[key]] = "deleted"]
        /\ pstate[processes[key]] \in {"created", "stopped"} /\ processes[key] # 0 /\ pc[k] = "idle"
        /\ Call(k, key, processes[key], "remove") /\ UNCHANGED <<owner, exitCh, handling, stream>>
    BY <1>3 DEF DeleteExec
  <2>3. /\ DOMAIN pstate' = DOMAIN pstate
        /\ \A q \in DOMAIN pstate : q # processes[key] => pstate'[q] = pstate[q]
    BY <2>1, StateType DEF PStates
  <2>7. \A q \in DOMAIN pstate : pstate[q] = "ended" => pstate'[q] = "ended"
    BY <2>1, <2>3
  <2> QED
    BY <2>1, <2>3, <2>7, ExitingSame DEF ExitInv
<1>4. ASSUME NEW k \in Clients, ProcessAdd(k)
      PROVE  ExitInv'
  <2> DEFINE p == Len(pstate) + 1
             key == arg[k].key
  <2>1. /\ pstate' = Append(pstate, "created") /\ owner' = Append(owner, key)
        /\ Call(k, key, p, "announce") /\ key \in Uses[k] /\ key \in Keys
        /\ p \in 0 .. MaxProcs /\ pc[k] = "add"
        /\ exitCh' = exitCh /\ handling' = handling /\ stream' = stream
    BY <1>4, KeyFacts DEF ProcessAdd, TypeInv, Procs
  <2>4. /\ DOMAIN pstate' = DOMAIN pstate \cup {p}
        /\ pstate'[p] = "created" /\ owner'[p] = key
        /\ \A q \in DOMAIN pstate : pstate'[q] = pstate[q] /\ owner'[q] = owner[q]
    <3>1. pstate \in Seq(PStates) /\ owner \in Seq(Keys) /\ Len(owner) = Len(pstate)
      BY DEF TypeInv, PStates
    <3>2. key \in Keys /\ "created" \in PStates
      BY <2>1 DEF PStates
    <3> QED
      BY <2>1, <3>1, <3>2, AppendFacts
  <2> HIDE DEF p, key
  <2>5. /\ DOMAIN pstate \subseteq DOMAIN pstate'
        /\ \A q \in DOMAIN pstate : /\ owner'[q] = owner[q]
                                    /\ pstate[q] = "ended" => pstate'[q] = "ended"
    BY <2>4
  <2>6. exitCh' = exitCh /\ handling' = handling /\ stream' = stream
    BY <2>1
  <2> QED
    BY <2>5, <2>6, ExitingSame DEF ExitInv
<1>5. ASSUME NEW k \in Clients, ExecAdded(k)
      PROVE  ExitInv'
  <2> DEFINE ev == [type |-> "added", c |-> arg[k].key[1], proc |-> arg[k].proc, by |-> arg[k].proc]
  <2>1. /\ Return(k) /\ arg[k].key \in Uses[k] /\ 0 \in 0 .. MaxProcs /\ pc[k] = "announce"
        /\ stream' = Append(stream, ev)
        /\ UNCHANGED <<owner, pstate, exitCh, handling>>
    BY <1>5 DEF ExecAdded, TypeInv
  <2>3. ev \in Events
    <3>1. arg[k].key \in Keys /\ arg[k].proc \in 0 .. MaxProcs
      BY <2>1, KeyFacts DEF TypeInv
    <3> QED
      BY <3>1, KeyFacts DEF Events
  <2>4. ev.type = "added" /\ ev.proc = arg[k].proc
    OBVIOUS
  <2> HIDE DEF ev
  <2>5. /\ DOMAIN stream = 1 .. Len(stream) /\ Len(stream) \in Nat
        /\ \A i \in DOMAIN stream : i \in DOMAIN stream' /\ stream'[i] = stream[i]
        /\ Len(stream) + 1 \in DOMAIN stream' /\ stream'[Len(stream) + 1] = ev
        /\ \A i \in DOMAIN stream' : i \in DOMAIN stream \/ i = Len(stream) + 1
    BY <2>1, <2>3, AppendFacts DEF TypeInv
  <2>7. \A i \in DOMAIN stream' : stream'[i].type = "exit" =>
           i \in DOMAIN stream /\ stream'[i] = stream[i]
    BY <2>4, <2>5
  <2>8. ExitReachesItsProcess' /\ Reported'
    BY <2>1, <2>7 DEF ExitInv, ExitReachesItsProcess, Reported
  <2>10. Exiting'
    BY <2>1 DEF ExitInv, Exiting, Ended
  <2> QED
    BY <2>8, <2>10 DEF ExitInv
<1>6. ASSUME NEW k \in Clients, ProcessRemove(k)
      PROVE  ExitInv'
  <2>1. /\ Return(k) /\ arg[k].key \in Uses[k] /\ 0 \in 0 .. MaxProcs /\ pc[k] = "remove"
        /\ UNCHANGED <<owner, pstate, exitCh, handling, stream>>
    BY <1>6 DEF ProcessRemove, TypeInv
  <2> QED
    BY <2>1, ExitingSame DEF ExitInv
<1>7. ASSUME NEW p \in DOMAIN pstate, ExecExit(p)
      PROVE  ExitInv'
  <2>0. PICK e : e = [id |-> owner[p][2], proc |-> p]
    OBVIOUS
  <2>1. /\ pstate' = [pstate EXCEPT ![p] = "ended"] /\ pstate[p] = "running"
        /\ exitCh' = Append(exitCh, e)
        /\ UNCHANGED <<owner, pc, arg, handling, stream>>
    BY <1>7, <2>0 DEF ExecExit
  <2>2. /\ DOMAIN pstate' = DOMAIN pstate /\ pstate'[p] = "ended"
        /\ \A q \in DOMAIN pstate : q # p => pstate'[q] = pstate[q]
    BY <2>1, StateType DEF PStates
  <2>4. e \in Exit /\ e.proc = p /\ e.id = owner[p][2]
    <3>1. owner[p] \in Keys /\ p \in 1 .. MaxProcs
      BY <1>0 DEF TypeInv
    <3> QED
      BY <2>0, <3>1, KeyFacts DEF Exit
  <2>5. /\ \A i \in DOMAIN exitCh : i \in DOMAIN exitCh' /\ exitCh'[i] = exitCh[i]
        /\ exitCh'[Len(exitCh) + 1] = e
        /\ \A i \in DOMAIN exitCh' : i \in DOMAIN exitCh \/ i = Len(exitCh) + 1
    BY <2>1, <2>4, AppendFacts DEF TypeInv
  <2>6. ASSUME NEW f, Ended(f)
        PROVE  Ended(f)' /\ f.proc # p
    BY <2>6, <2>1, <2>2 DEF Ended
  <2>7. Ended(e)'
    BY <2>1, <2>2, <2>4 DEF Ended
  <2>8. \A i \in DOMAIN exitCh : Ended(exitCh[i])
    BY DEF ExitInv, Exiting
  <2>9. \A i \in DOMAIN exitCh' :
           \/ (i \in DOMAIN exitCh /\ exitCh'[i] = exitCh[i] /\ exitCh[i].proc # p)
           \/ (i = Len(exitCh) + 1 /\ exitCh'[i].proc = p /\ exitCh'[i] = e)
    BY <2>4, <2>5, <2>6, <2>8
  <2>10. Exiting'
    <3>1. ASSUME NEW i \in DOMAIN exitCh', NEW f, f = exitCh'[i]
          PROVE  Ended(f)'
      <4>1. CASE i \in DOMAIN exitCh
        BY <3>1, <4>1, <2>8, <2>5, <2>6
      <4>2. CASE i = Len(exitCh) + 1
        BY <3>1, <4>2, <2>5, <2>7
      <4> QED
        BY <4>1, <4>2, <2>5
    <3>2. \A i, j \in DOMAIN exitCh' : i # j => exitCh'[i].proc # exitCh'[j].proc
      BY <2>9 DEF ExitInv, Exiting
    <3>3. \A h \in handling : Ended(h.e)' /\ h.e.proc # p
      BY <2>6 DEF ExitInv, Exiting
    <3>4. \A h \in handling : \A i \in DOMAIN exitCh' : exitCh'[i].proc # h.e.proc
      BY <2>9, <3>3 DEF ExitInv, Exiting
    <3> QED
      BY <3>1, <3>2, <3>3, <3>4, <2>1 DEF ExitInv, Exiting, Ended
  <2>11. Reported' /\ ExitReachesItsProcess'
    BY <2>1, <2>2 DEF ExitInv, Reported, ExitReachesItsProcess
  <2> QED
    BY <2>10, <2>11 DEF ExitInv
<1>8. CASE FindExited
  <2> DEFINE e == Head(exitCh)
  <2>1. /\ exitCh # << >> /\ exitCh' = Tail(exitCh) /\ handling = {}
        /\ UNCHANGED <<owner, pstate, pc, arg, stream>>
    BY <1>8 DEF FindExited
  <2>2. /\ \A i \in DOMAIN exitCh' : i + 1 \in DOMAIN exitCh /\ i + 1 # 1 /\ exitCh'[i] = exitCh[i + 1]
        /\ e = exitCh[1] /\ 1 \in DOMAIN exitCh
        /\ \A i, j \in DOMAIN exitCh' : i # j => i + 1 # j + 1
    BY <2>1 DEF TypeInv
  <2> HIDE DEF e
  <2>3. Ended(e) /\ \A i \in DOMAIN exitCh' : Ended(exitCh'[i]) /\ exitCh'[i].proc # e.proc
    BY <2>2 DEF ExitInv, Exiting
  <2>4. handling' = {} \/ \E key \in Keys : /\ processes[key] # 0 /\ key[2] = e.id
                                           /\ handling' = {[e |-> e, c |-> key[1], found |-> processes[key]]}
    BY <1>8 DEF FindExited, e
  <2>5. /\ \A h \in handling' : h.e = e /\ h.found = e.proc /\ h.c = owner[e.proc][1]
        /\ \A g, h \in handling' : g = h
    <3>1. CASE handling' = {}
      BY <3>1
    <3>2. ASSUME NEW key \in Keys, processes[key] # 0, key[2] = e.id,
                 handling' = {[e |-> e, c |-> key[1], found |-> processes[key]]}
          PROVE  /\ \A h \in handling' : h.e = e /\ h.found = e.proc /\ h.c = owner[e.proc][1]
                 /\ \A g, h \in handling' : g = h
      <4>1. processes[key] = e.proc /\ key[1] = owner[e.proc][1]
        BY <2>3, <3>2, FoundEnded
      <4> QED
        BY <3>2, <4>1
    <3> QED
      BY <2>4, <3>1, <3>2
  <2>6. Exiting'
    <3>1. \A i, j \in DOMAIN exitCh' : i # j => exitCh'[i].proc # exitCh'[j].proc
      BY <2>2 DEF ExitInv, Exiting
    <3> QED
      BY <2>1, <2>3, <2>5, <3>1 DEF Exiting, Ended
  <2> QED
    BY <2>1, <2>6 DEF ExitInv, Reported, ExitReachesItsProcess
<1>9. CASE ReportExit
  <2> DEFINE ev(h) == [type |-> "exit", c |-> h.c, proc |-> h.found, by |-> h.e.proc]
  <2>1. PICK h \in handling :
           /\ pstate' = [pstate EXCEPT ![h.found] =
                            IF pstate[h.found] = "deleted" THEN "deleted" ELSE "stopped"]
           /\ stream' = Append(stream, ev(h)) /\ handling' = {}
           /\ UNCHANGED <<owner, pc, arg, exitCh>>
    BY <1>9 DEF ReportExit
  <2>2. /\ Ended(h.e) /\ h.found = h.e.proc /\ h.c = owner[h.e.proc][1]
        /\ \A i \in DOMAIN exitCh : exitCh[i].proc # h.e.proc
    BY DEF ExitInv, Exiting
  <2> DEFINE p == h.e.proc
  <2>3. p \in DOMAIN pstate /\ pstate[p] = "ended"
    BY <2>2 DEF Ended
  <2>4. /\ DOMAIN pstate' = DOMAIN pstate /\ pstate'[p] = "stopped"
        /\ \A q \in DOMAIN pstate : q # p => pstate'[q] = pstate[q]
    BY <2>1, <2>2, <2>3, StateType DEF PStates
  <2>5. ev(h) \in Events
    <3>1. h \in [e : Exit, c : Containers, found : 0 .. MaxProcs]
      BY DEF TypeInv
    <3>2. h.c \in Containers /\ h.found \in 0 .. MaxProcs /\ h.e.proc \in 0 .. MaxProcs
      BY <3>1 DEF Exit
    <3> QED
      BY <3>2 DEF Events
  <2>6. ev(h).type = "exit" /\ ev(h).proc = p /\ ev(h).by = p /\ ev(h).c = owner[p][1]
    BY <2>2
  <2> HIDE DEF ev, p
  <2>7. /\ DOMAIN stream = 1 .. Len(stream) /\ Len(stream) \in Nat
        /\ \A i \in DOMAIN stream : i \in DOMAIN stream' /\ stream'[i] = stream[i]
        /\ stream'[Len(stream) + 1] = ev(h)
        /\ \A i \in DOMAIN stream' : i \in DOMAIN stream \/ i = Len(stream) + 1
    BY <2>1, <2>5, AppendFacts DEF TypeInv
  <2>11. Exiting'
    <3>1. \A i \in DOMAIN exitCh : Ended(exitCh[i]) /\ exitCh[i].proc # p
      BY <2>2 DEF ExitInv, Exiting, p
    <3>2. \A i \in DOMAIN exitCh : Ended(exitCh[i])'
      BY <3>1, <2>1, <2>4 DEF Ended
    <3> QED
      BY <3>2, <2>1 DEF ExitInv, Exiting, Ended
  <2>12. Reported'
    BY <2>1, <2>3, <2>4, <2>6, <2>7 DEF ExitInv, Reported
  <2>13. ExitReachesItsProcess'
    BY <2>1, <2>6, <2>7 DEF ExitInv, ExitReachesItsProcess
  <2> QED
    BY <2>11, <2>12, <2>13 DEF ExitInv
<1>10. CASE UNCHANGED vars
  BY <1>10 DEF vars, ExitInv, Exiting, Ended, Reported,
               ExitReachesItsProcess
<1> QED
  BY <1>1, <1>2, <1>3, <1>4, <1>5, <1>6, <1>7, <1>8, <1>9, <1>10 DEF Next, Service, Exits

-----------------------------------------------------------------------------

\* Every variable has its type and a client's call is about a process of its
\* own: Exec, Start and Delete keep the maps and the process objects apart.
THEOREM ExecTypeCorrect == Spec => []TypeOK
<1>1. Init => TypeInv
  BY InitExec
<1>2. TypeInv /\ [Next]_vars => TypeInv'
  BY NextTypes
<1>3. TypeInv => TypeOK
  BY DEF TypeInv, TypeOK
<1> QED
  BY <1>1, <1>2, <1>3, PTL DEF Spec

\* Exec's check of the id (runsc_service.go) makes an added process reachable
\* through its id until it has been deleted, when no two clients work with
\* one process.
THEOREM ReachableCorrect == OwnKeys => (Spec => []Reachable)
<1>1. Init => TypeInv /\ IdInv
  BY InitExec
<1>2. OwnKeys /\ TypeInv /\ IdInv /\ [Next]_vars => TypeInv' /\ IdInv'
  BY NextTypes, NextIds
<1>3. IdInv => Reachable
  BY DEF IdInv
<1>4. CASE OwnKeys
  <2>1. TypeInv /\ IdInv /\ [Next]_vars => TypeInv' /\ IdInv'
    BY <1>2, <1>4
  <2> QED
    BY <1>1, <2>1, <1>3, PTL DEF Spec
<1> QED
  BY <1>4

LEMMA ExitsAlways == OwnKeys /\ UniqueIds => (Spec => []ExitInv)
<1>1. Init => TypeInv /\ IdInv /\ ExitInv
  BY InitExec
<1>2. ASSUME OwnKeys, UniqueIds, TypeInv, IdInv, ExitInv, [Next]_vars
      PROVE  TypeInv' /\ IdInv' /\ ExitInv'
  <2>1. TypeInv'
    BY <1>2, NextTypes
  <2> QED
    BY <1>2, <2>1, NextIds, NextExits
<1>3. CASE OwnKeys /\ UniqueIds
  <2>1. TypeInv /\ IdInv /\ ExitInv /\ [Next]_vars => TypeInv' /\ IdInv' /\ ExitInv'
    BY <1>2, <1>3
  <2> QED
    BY <1>1, <2>1, PTL DEF Spec
<1> QED
  BY <1>3

\* The exit that checkProcesses takes from ExitCh by its exec id alone reaches
\* the process that ended, when moreover no exec id is used in two containers.
THEOREM ExitReachesCorrect == OwnKeys /\ UniqueIds => (Spec => []ExitReachesItsProcess)
<1>1. ExitInv => ExitReachesItsProcess
  BY DEF ExitInv
<1> QED
  BY <1>1, ExitsAlways, PTL
=============================================================================
