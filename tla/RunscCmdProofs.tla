---------------------------- MODULE RunscCmdProofs ---------------------------
(***************************************************************************)
(* Proofs about RunscCmd, for any number of goroutines and buffers, any    *)
(* commands and outputs of any length.                                     *)
(***************************************************************************)
EXTENDS RunscCmd, TLAPS

USE CmdAssumption, OutLenAssumption

PCs == {"idle", "output", "starting", "running", "returned", "failed", "piped"}

\* What the proofs need of the types.
TypeInv ==
    /\ pool \subseteq Bufs
    /\ mem \in [Bufs -> [1 .. OutLen -> Commands \cup {None}]]
    /\ len \in [Bufs -> 0 .. OutLen]
    /\ pc \in [Goroutines -> PCs]
    /\ cmd \in [Goroutines -> Commands \cup {None}]
    /\ stdin \in [Goroutines -> Bufs \cup {None}]
    /\ stdout \in [Goroutines -> Bufs \cup {None}]
    /\ stderr \in [Goroutines -> Bufs \cup {None}]

\* cmdOutput holds its buffers from the start of the command to its end only,
\* and the method holds the buffer of its input until it returns.
HoldInv ==
    \A g \in Goroutines :
        /\ pc[g] \notin {"starting", "running"} => stdout[g] = None /\ stderr[g] = None
        /\ pc[g] = "idle" => stdin[g] = None

\* No buffer has two holders, and one in the pool has none and is empty.
ApartInv ==
    /\ \A g \in Goroutines : \A b \in Held(g) : b \notin pool
    /\ \A g, h \in Goroutines : \A b \in Held(g) \cap Held(h) : g = h
    /\ \A g \in Goroutines : stdin[g] # None => stdin[g] \notin {stdout[g], stderr[g]}
    /\ \A b \in pool : len[b] = 0

\* Every buffer is in the pool or has a holder.
NoneLost == \A b \in Bufs : b \in pool \/ \E g \in Goroutines : b \in Held(g)

CmdInv == TypeInv /\ HoldInv /\ ApartInv /\ NoneLost /\ OwnBuffers

-----------------------------------------------------------------------------

\* At first every buffer is in the pool.
LEMMA InitCmd == Init => CmdInv
BY DEF Init, CmdInv, TypeInv, HoldInv, ApartInv, NoneLost, OwnBuffers, Held, PCs

\* A buffer held by a goroutine is one, and only that goroutine's step moves it.
LEMMA HeldType ==
    ASSUME TypeInv, NEW g \in Goroutines
    PROVE  Held(g) \subseteq Bufs
BY DEF TypeInv, Held

\* Taking buffers out of the pool: those taken are empty and nobody else's.
LEMMA TakeStep ==
    ASSUME CmdInv, NEW g \in Goroutines, NEW B \in SUBSET pool, TypeInv', HoldInv',
           pool' = pool \ B, Held(g)' = Held(g) \cup B,
           \A h \in Goroutines \ {g} : Held(h)' = Held(h) /\ cmd'[h] = cmd[h],
           stdin'[g] # None => stdin'[g] \notin {stdout'[g], stderr'[g]},
           \A h \in Goroutines \ {g} : stdin'[h] = stdin[h] /\ stdout'[h] = stdout[h] /\ stderr'[h] = stderr[h],
           \A b \in Bufs \ B : len'[b] = len[b] /\ mem'[b] = mem[b],
           Held(g) = {} \/ cmd'[g] = cmd[g],
           \A b \in B : \A i \in 1 .. len'[b] : mem'[b][i] = cmd'[g]
    PROVE  CmdInv'
<1>1. ApartInv'
  <2>1. \A h \in Goroutines : \A b \in Held(h)' : b \notin pool'
    BY DEF CmdInv, ApartInv
  <2>2. ASSUME NEW h \in Goroutines, NEW k \in Goroutines, NEW b \in Held(h)' \cap Held(k)'
        PROVE  h = k
    BY DEF CmdInv, ApartInv
  <2>3. \A h \in Goroutines : stdin'[h] # None => stdin'[h] \notin {stdout'[h], stderr'[h]}
    BY DEF CmdInv, ApartInv
  <2>4. \A b \in pool' : len'[b] = 0
    BY DEF CmdInv, ApartInv, TypeInv
  <2> QED
    BY <2>1, <2>2, <2>3, <2>4 DEF ApartInv
<1>2. NoneLost'
  BY DEF CmdInv, NoneLost
<1>3. OwnBuffers'
  <2>1. ASSUME NEW h \in Goroutines, NEW b \in Held(h)', b \notin B
        PROVE  \A i \in 1 .. len'[b] : mem'[b][i] = cmd'[h]
    <3>1. b \in Held(h) /\ b \in Bufs /\ cmd'[h] = cmd[h]
      BY <2>1, HeldType DEF CmdInv
    <3> QED
      BY <2>1, <3>1 DEF CmdInv, OwnBuffers
  <2>2. ASSUME NEW h \in Goroutines, NEW b \in Held(h)', b \in B
        PROVE  h = g
    BY <2>2 DEF CmdInv, ApartInv
  <2> QED
    BY <2>1, <2>2 DEF OwnBuffers
<1> QED
  BY <1>1, <1>2, <1>3 DEF CmdInv

\* Giving buffers back: putBuf resets them.
LEMMA GiveStep ==
    ASSUME CmdInv, NEW g \in Goroutines, NEW B \in SUBSET Held(g), TypeInv', HoldInv',
           pool' = pool \cup B, Held(g)' = Held(g) \ B,
           len' = [b \in Bufs |-> IF b \in B THEN 0 ELSE len[b]], mem' = mem,
           \A h \in Goroutines \ {g} : Held(h)' = Held(h) /\ cmd'[h] = cmd[h],
           \A h \in Goroutines \ {g} : stdin'[h] = stdin[h] /\ stdout'[h] = stdout[h] /\ stderr'[h] = stderr[h],
           stdin'[g] # None => stdin'[g] \notin {stdout'[g], stderr'[g]},
           Held(g) = B \/ cmd'[g] = cmd[g]
    PROVE  CmdInv'
<1>1. ApartInv'
  <2>1. ASSUME NEW h \in Goroutines, NEW b \in Held(h)'
        PROVE  b \notin pool'
    BY DEF CmdInv, ApartInv
  <2>2. ASSUME NEW h \in Goroutines, NEW k \in Goroutines, NEW b \in Held(h)' \cap Held(k)'
        PROVE  h = k
    BY DEF CmdInv, ApartInv
  <2>3. \A h \in Goroutines : stdin'[h] # None => stdin'[h] \notin {stdout'[h], stderr'[h]}
    BY DEF CmdInv, ApartInv
  <2>4. \A b \in pool' : len'[b] = 0
    BY HeldType DEF CmdInv, ApartInv, TypeInv
  <2> QED
    BY <2>1, <2>2, <2>3, <2>4 DEF ApartInv
<1>2. NoneLost'
  BY DEF CmdInv, NoneLost
<1>3. OwnBuffers'
  <2>1. ASSUME NEW h \in Goroutines, NEW b \in Held(h)'
        PROVE  \A i \in 1 .. len'[b] : mem'[b][i] = cmd'[h]
    <3>1. b \in Held(h) /\ b \in Bufs /\ b \notin B /\ cmd'[h] = cmd[h]
      BY <2>1, HeldType DEF CmdInv, ApartInv
    <3> QED
      BY <3>1 DEF CmdInv, OwnBuffers
  <2> QED
    BY <2>1 DEF OwnBuffers
<1> QED
  BY <1>1, <1>2, <1>3 DEF CmdInv

-----------------------------------------------------------------------------

\* Update takes a buffer for its input; the other commands take none.
LEMMA BeginCmd ==
    ASSUME CmdInv, NEW g \in Goroutines, NEW c \in Commands, Begin(g, c)
    PROVE  CmdInv'
<1>0. Held(g) = {} /\ stdin[g] = None /\ stdout[g] = None /\ stderr[g] = None
  BY DEF CmdInv, HoldInv, Begin, Held
<1>1. HoldInv'
  BY DEF CmdInv, HoldInv, TypeInv, Begin, Encode
<1>2. PICK b \in Bufs \cup {None} : Encode(g, c, b)
  BY DEF Begin
<1>3. CASE Encodes(c)
  <2>1. b \in pool /\ b # None
    BY <1>2, <1>3 DEF Encode, CmdInv, TypeInv
  <2>3. /\ stdin' = [stdin EXCEPT ![g] = b] /\ pool' = pool \ {b}
        /\ cmd' = [cmd EXCEPT ![g] = c] /\ UNCHANGED <<stdout, stderr>>
        /\ mem' = [mem EXCEPT ![b] = [i \in 1 .. OutLen |-> c]]
        /\ len' = [len EXCEPT ![b] = OutLen]
    BY <1>2, <1>3 DEF Begin, Encode
  <2>2. TypeInv'
    <3>1. pc' \in [Goroutines -> PCs]
      BY DEF Begin, CmdInv, TypeInv, PCs
    <3>2. OutLen \in 0 .. OutLen /\ [i \in 1 .. OutLen |-> c] \in [1 .. OutLen -> Commands \cup {None}]
      OBVIOUS
    <3>3. mem' \in [Bufs -> [1 .. OutLen -> Commands \cup {None}]] /\ len' \in [Bufs -> 0 .. OutLen]
      <4> DEFINE m == [i \in 1 .. OutLen |-> c]
      <4>1. m \in [1 .. OutLen -> Commands \cup {None}] /\ mem' = [mem EXCEPT ![b] = m]
        BY <2>3
      <4> HIDE DEF m
      <4>2. mem' \in [Bufs -> [1 .. OutLen -> Commands \cup {None}]]
        BY <4>1 DEF CmdInv, TypeInv
      <4>3. len' \in [Bufs -> 0 .. OutLen]
        BY <2>3, <3>2 DEF CmdInv, TypeInv
      <4> QED
        BY <4>2, <4>3
    <3> QED
      BY <2>1, <2>3, <3>1, <3>3 DEF CmdInv, TypeInv
  <2>4. Held(g)' = {b}
    BY <1>0, <2>1, <2>3 DEF Held, CmdInv, TypeInv
  <2>5. \A h \in Goroutines \ {g} : Held(h)' = Held(h)
    BY <2>3 DEF Held, CmdInv, TypeInv
  <2> DEFINE B == {b}
  <2>6. \A d \in B : \A i \in 1 .. len'[d] : mem'[d][i] = cmd'[g]
    BY <2>1, <2>3 DEF CmdInv, TypeInv
  <2>7. /\ \A h \in Goroutines \ {g} : /\ cmd'[h] = cmd[h] /\ stdin'[h] = stdin[h]
                                       /\ stdout'[h] = stdout[h] /\ stderr'[h] = stderr[h]
        /\ \A d \in Bufs \ B : len'[d] = len[d] /\ mem'[d] = mem[d]
        /\ stdin'[g] \notin {stdout'[g], stderr'[g]}
    BY <1>0, <2>1, <2>3 DEF CmdInv, TypeInv
  <2>8. B \in SUBSET pool /\ Held(g)' = Held(g) \cup B /\ pool' = pool \ B
    BY <1>0, <2>1, <2>3, <2>4
  <2> HIDE DEF B
  <2> QED
    BY <1>0, <1>1, <2>2, <2>5, <2>6, <2>7, <2>8, TakeStep
<1>4. CASE ~Encodes(c)
  <2>1. UNCHANGED <<pool, stdin, stdout, stderr, mem, len>> /\ cmd' = [cmd EXCEPT ![g] = c]
    BY <1>2, <1>4 DEF Begin, Encode
  <2>2. TypeInv'
    BY <2>1 DEF Begin, CmdInv, TypeInv, PCs
  <2>3. \A h \in Goroutines : Held(h)' = Held(h)
    BY <2>1 DEF Held
  <2>4. \A h \in Goroutines \ {g} : cmd'[h] = cmd[h]
    BY <2>1 DEF CmdInv, TypeInv
  <2> QED
    BY <1>0, <1>1, <2>1, <2>2, <2>3, <2>4 DEF CmdInv, ApartInv, NoneLost, OwnBuffers
<1> QED
  BY <1>3, <1>4

\* cmdOutput takes one buffer, or two.
LEMMA CmdOutputCmd ==
    ASSUME CmdInv, NEW g \in Goroutines, CmdOutput(g)
    PROVE  CmdInv'
<1>0. stdout[g] = None /\ stderr[g] = None
  BY DEF CmdInv, HoldInv, CmdOutput
<1>1. PICK o \in pool, e \in pool \cup {None} :
        /\ o # e
        /\ pool' = pool \ {o, e}
        /\ stdout' = [stdout EXCEPT ![g] = o]
        /\ stderr' = [stderr EXCEPT ![g] = e]
  BY DEF CmdOutput
<1>2. UNCHANGED <<mem, len, cmd, stdin>> /\ pc' = [pc EXCEPT ![g] = "starting"]
  BY DEF CmdOutput
<1>3. TypeInv' /\ HoldInv'
  BY <1>1, <1>2 DEF CmdInv, TypeInv, HoldInv, PCs
<1> DEFINE B == {o, e} \ {None}
<1>4. B \in SUBSET pool /\ pool' = pool \ B
  BY <1>1 DEF CmdInv, TypeInv
<1>5. Held(g)' = Held(g) \cup B
  BY <1>0, <1>1, <1>2 DEF Held, CmdInv, TypeInv
<1>6. \A h \in Goroutines \ {g} : Held(h)' = Held(h) /\ stdout'[h] = stdout[h] /\ stderr'[h] = stderr[h]
  BY <1>1, <1>2 DEF Held, CmdInv, TypeInv
<1>7. stdin'[g] # None => stdin'[g] \notin {stdout'[g], stderr'[g]}
  <2>1. stdin[g] # None => stdin[g] \notin pool
    BY DEF CmdInv, ApartInv, Held
  <2> QED
    BY <1>1, <1>2, <2>1 DEF CmdInv, TypeInv
<1>8. \A b \in B : \A i \in 1 .. len'[b] : mem'[b][i] = cmd'[g]
  BY <1>2, <1>4 DEF CmdInv, ApartInv
<1> HIDE DEF B
<1> QED
  BY <1>2, <1>3, <1>4, <1>5, <1>6, <1>7, <1>8, TakeStep

\* runsc writes to a buffer of the command it runs for.
LEMMA WriteCmd ==
    ASSUME CmdInv, NEW g \in Goroutines, Write(g)
    PROVE  CmdInv'
<1>1. PICK b \in Held(g) :
        /\ len[b] < OutLen
        /\ mem' = [mem EXCEPT ![b][len[b] + 1] = cmd[g]]
        /\ len' = [len EXCEPT ![b] = @ + 1]
  BY DEF Write, WriteTo, Held
<1>2. UNCHANGED <<pool, pc, cmd, stdin, stdout, stderr>> /\ pc[g] = "running"
  BY DEF Write
<1>3. b \in Bufs /\ b \notin pool
  BY HeldType DEF CmdInv, ApartInv
<1>4. \A h \in Goroutines : Held(h)' = Held(h)
  BY <1>2 DEF Held
<1>5. cmd[g] \in Commands \cup {None}
  BY DEF CmdInv, TypeInv
<1>6. mem'[b] = [mem[b] EXCEPT ![len[b] + 1] = cmd[g]] /\ len'[b] = len[b] + 1
  BY <1>1, <1>3 DEF CmdInv, TypeInv
<1>7. \A d \in Bufs \ {b} : mem'[d] = mem[d] /\ len'[d] = len[d]
  BY <1>1, <1>3 DEF CmdInv, TypeInv
<1>8. TypeInv'
  <2>1. len[b] \in 0 .. OutLen /\ mem[b] \in [1 .. OutLen -> Commands \cup {None}]
    BY <1>3 DEF CmdInv, TypeInv
  <2>2. len' \in [Bufs -> 0 .. OutLen]
    BY <1>1, <1>3, <2>1 DEF CmdInv, TypeInv
  <2>3. mem'[b] \in [1 .. OutLen -> Commands \cup {None}]
    BY <1>5, <1>6, <2>1
  <2>4. mem' \in [Bufs -> [1 .. OutLen -> Commands \cup {None}]]
    BY <1>1, <1>3, <1>6, <2>3 DEF CmdInv, TypeInv
  <2> QED
    BY <1>2, <2>2, <2>4 DEF CmdInv, TypeInv
<1>9. HoldInv' /\ ApartInv' /\ NoneLost'
  BY <1>2, <1>3, <1>4, <1>7 DEF CmdInv, HoldInv, ApartInv, NoneLost, TypeInv
<1>10. OwnBuffers'
  <2>1. ASSUME NEW h \in Goroutines, NEW d \in Held(h)', NEW i \in 1 .. len'[d]
        PROVE  mem'[d][i] = cmd'[h]
    <3>0. d \in Held(h) /\ d \in Bufs /\ cmd'[h] = cmd[h]
      BY <1>2, <1>4, HeldType DEF CmdInv
    <3>1. CASE d = b
      <4>1. h = g
        BY <3>0, <3>1 DEF CmdInv, ApartInv
      <4>2. len[b] \in 0 .. OutLen /\ mem[b] \in [1 .. OutLen -> Commands \cup {None}]
        BY <1>3 DEF CmdInv, TypeInv
      <4>3. \A k \in 1 .. len[b] : mem[b][k] = cmd[g]
        BY DEF CmdInv, OwnBuffers
      <4> QED
        BY <1>1, <1>6, <2>1, <3>0, <3>1, <4>1, <4>2, <4>3
    <3>2. CASE d # b
      BY <1>7, <3>0, <3>2 DEF CmdInv, OwnBuffers
    <3> QED
      BY <3>1, <3>2
  <2> QED
    BY <2>1 DEF OwnBuffers
<1> QED
  BY <1>8, <1>9, <1>10 DEF CmdInv

\* cmdOutput returns, whatever became of the command: both buffers go back.
LEMMA LeaveCmd ==
    ASSUME CmdInv, NEW g \in Goroutines, NEW s, LeaveOutput(g, s),
           NEW l \in {"returned", "failed"}, pc' = [pc EXCEPT ![g] = l]
    PROVE  CmdInv'
<1> DEFINE B == {stdout[g], stderr[g]} \ {None}
<1>1. /\ pool' = pool \cup B
      /\ len' = [b \in Bufs |-> IF b \in {stdout[g], stderr[g]} THEN 0 ELSE len[b]]
      /\ stdout' = [stdout EXCEPT ![g] = None] /\ stderr' = [stderr EXCEPT ![g] = None]
      /\ UNCHANGED <<mem, cmd, stdin>>
  BY DEF LeaveOutput, putBuf, Reset
<1>2. B \in SUBSET Held(g) /\ B \subseteq Bufs
  BY HeldType DEF Held, CmdInv
<1>3. len' = [b \in Bufs |-> IF b \in B THEN 0 ELSE len[b]]
  BY <1>1
<1>4. Held(g)' = Held(g) \ B
  BY <1>1 DEF Held, CmdInv, TypeInv, ApartInv
<1>5. \A h \in Goroutines \ {g} : /\ Held(h)' = Held(h) /\ cmd'[h] = cmd[h] /\ stdin'[h] = stdin[h]
                                  /\ stdout'[h] = stdout[h] /\ stderr'[h] = stderr[h]
  BY <1>1 DEF Held, CmdInv, TypeInv
<1>6. stdin'[g] # None => stdin'[g] \notin {stdout'[g], stderr'[g]}
  BY <1>1 DEF CmdInv, TypeInv
<1>7. pool' \subseteq Bufs
  BY <1>1, <1>2 DEF CmdInv, TypeInv
<1>8. HoldInv' /\ TypeInv'
  BY <1>1, <1>7 DEF CmdInv, HoldInv, TypeInv, PCs
<1> HIDE DEF B
<1> QED
  BY <1>1, <1>2, <1>3, <1>4, <1>5, <1>6, <1>8, GiveStep

\* A method returns: only the buffer of its input is left to give back.
LEMMA FinishCmd ==
    ASSUME CmdInv, NEW g \in Goroutines, NEW a, Finish(g, a),
           pc[g] \in {"returned", "failed", "piped"}
    PROVE  CmdInv'
<1>0. stdout[g] = None /\ stderr[g] = None
  BY DEF CmdInv, HoldInv
<1> DEFINE B == {stdin[g]} \ {None}
<1>1. Held(g) = B /\ B \subseteq Bufs
  BY <1>0 DEF Held, CmdInv, TypeInv
<1>2. /\ stdin' = [stdin EXCEPT ![g] = None] /\ cmd' = [cmd EXCEPT ![g] = None]
      /\ pc' = [pc EXCEPT ![g] = "idle"] /\ UNCHANGED <<mem, stdout, stderr>>
  BY DEF Finish
<1>3. pool' = pool \cup B /\ len' = [b \in Bufs |-> IF b \in B THEN 0 ELSE len[b]]
  <2>1. CASE stdin[g] # None
    BY <2>1 DEF Finish, putBuf, Reset
  <2>2. CASE stdin[g] = None
    BY <2>2 DEF Finish, CmdInv, TypeInv
  <2> QED
    BY <2>1, <2>2
<1>4. Held(g)' = {}
  BY <1>0, <1>2 DEF Held, CmdInv, TypeInv
<1>5. \A h \in Goroutines \ {g} : /\ Held(h)' = Held(h) /\ cmd'[h] = cmd[h] /\ stdin'[h] = stdin[h]
                                  /\ stdout'[h] = stdout[h] /\ stderr'[h] = stderr[h]
  BY <1>2 DEF Held, CmdInv, TypeInv
<1>6. stdin'[g] = None
  BY <1>2 DEF CmdInv, TypeInv
<1>7. pool' \subseteq Bufs
  BY <1>1, <1>3 DEF CmdInv, TypeInv
<1>8. TypeInv'
  BY <1>2, <1>3, <1>7 DEF CmdInv, TypeInv, PCs
<1>9. HoldInv'
  BY <1>0, <1>2 DEF CmdInv, HoldInv, TypeInv
<1>10. B \in SUBSET Held(g) /\ Held(g)' = Held(g) \ B
  BY <1>1, <1>4
<1> HIDE DEF B
<1> QED
  BY <1>1, <1>2, <1>3, <1>5, <1>6, <1>8, <1>9, <1>10, GiveStep

\* Every step keeps the invariant.
LEMMA NextCmd ==
    ASSUME CmdInv, [Next]_vars
    PROVE  CmdInv'
<1>1. ASSUME NEW g \in Goroutines, MonitorStart(g)
      PROVE  CmdInv'
  <2>1. UNCHANGED <<pool, mem, len, cmd, stdin, stdout, stderr>> /\ pc' = [pc EXCEPT ![g] = "running"]
    BY <1>1 DEF MonitorStart
  <2>2. \A h \in Goroutines : Held(h)' = Held(h)
    BY <2>1 DEF Held
  <2>3. TypeInv' /\ HoldInv'
    BY <1>1, <2>1 DEF MonitorStart, CmdInv, TypeInv, HoldInv, PCs
  <2> QED
    BY <2>1, <2>2, <2>3 DEF CmdInv, ApartInv, NoneLost, OwnBuffers
<1>2. ASSUME NEW g \in Goroutines, StartErr(g) \/ WaitOk(g) \/ WaitErr(g)
      PROVE  CmdInv'
  BY <1>2, LeaveCmd DEF StartErr, WaitOk, WaitErr
<1>3. ASSUME NEW g \in Goroutines, Parse(g) \/ FormatErr(g) \/ PipedDone(g)
      PROVE  CmdInv'
  BY <1>3, FinishCmd DEF Parse, FormatErr, PipedDone
<1>4. CASE UNCHANGED vars
  BY <1>4 DEF vars, CmdInv, TypeInv, HoldInv, ApartInv, NoneLost, OwnBuffers, Held
<1> QED
  BY <1>1, <1>2, <1>3, <1>4, BeginCmd, CmdOutputCmd, WriteCmd DEF Next, Step

LEMMA AlwaysCmd == Spec => []CmdInv
  BY InitCmd, NextCmd, PTL DEF Spec

\* Buffers are neither shared nor lost on any path of cmdOutput, of its callers
\* and of Update (runsccmd_runsc.go), whatever fails.
THEOREM PoolPartitionCorrect == Spec => []PoolPartition
<1>1. CmdInv => PoolPartition
  <2> SUFFICES ASSUME CmdInv PROVE PoolPartition
    OBVIOUS
  <2>1. (UNION {Held(g) : g \in Goroutines}) \cup pool = Bufs
    BY HeldType DEF CmdInv, NoneLost, TypeInv
  <2>2. ASSUME NEW g \in Goroutines
        PROVE  /\ Held(g) \cap pool = {}
               /\ \A h \in Goroutines \ {g} : Held(g) \cap Held(h) = {}
               /\ stdin[g] # None => stdin[g] \notin {stdout[g], stderr[g]}
    BY DEF CmdInv, ApartInv
  <2>3. \A g \in Goroutines : pc[g] = "idle" => Held(g) = {}
    BY DEF CmdInv, HoldInv, Held
  <2> QED
    BY <2>1, <2>2, <2>3 DEF CmdInv, TypeInv, PoolPartition
<1> QED
  BY <1>1, AlwaysCmd, PTL

\* While a command runs, its buffers hold its own input and output only.
THEOREM OwnBuffersCorrect == Spec => []OwnBuffers
<1>1. CmdInv => OwnBuffers
  BY DEF CmdInv
<1> QED
  BY <1>1, AlwaysCmd, PTL
=============================================================================
