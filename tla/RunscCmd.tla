------------------------------ MODULE RunscCmd ------------------------------
(***************************************************************************)
(* The runsc command wrapper (runsccmd_runsc.go): goroutines of one shim   *)
(* run runsc commands side by side and take the buffers for input and      *)
(* output from one pool.                                                   *)
(*                                                                         *)
(* A command is a record of its verb and its container id.  What a command *)
(* reads or writes is abstracted to chunks that say which command they     *)
(* belong to; an output has OutLen chunks.  A buffer keeps its memory when *)
(* it is reset, and a byte slice taken from it names the buffer and a      *)
(* length: what the slice reads is what the memory holds at that time.     *)
(* Buffers are as large as any output, which every buffer is once it has   *)
(* been used.                                                              *)
(*                                                                         *)
(* External: the pool (getBuf, putBuf), the process monitor and runsc.     *)
(***************************************************************************)
EXTENDS Naturals, FiniteSets

CONSTANTS
    Goroutines, \* goroutines of the shim that run commands
    Bufs,       \* buffers the pool can hand out
    Commands,   \* the commands run: records [verb, id]
    OutLen,     \* chunks of an output
    None

ASSUME CmdAssumption ==
    /\ IsFiniteSet(Bufs) /\ None \notin Bufs \cup Commands
    /\ \A c \in Commands : c.verb \in {"state", "wait", "kill", "update", "create"}
ASSUME OutLenAssumption == OutLen \in Nat \ {0}

VARIABLES
    pool,       \* buffers in the pool
    mem,        \* memory of each buffer
    len,        \* length of each buffer
    pc,         \* step of each goroutine
    cmd,        \* the command it runs
    stdin, stdout, stderr,  \* the buffers it holds, or None
    data,       \* the slice cmdOutput returned: [buf, len], or None
    answer      \* the last result: [ok, asked, read], or None

vars == <<pool, mem, len, pc, cmd, stdin, stdout, stderr, data, answer>>

\* How a verb is run.  State, Wait, List, Stats, Ps and Top parse stdout and
\* put stderr into the error; Kill, Delete, Pause, Resume, Checkpoint, and
\* Create, Start, Restore and Exec without I/O, put both into the error;
\* Update encodes its input into a buffer first; Create, Start, Restore and
\* Exec with I/O use no buffer.
Parses(c)  == c.verb \in {"state", "wait"}
Encodes(c) == c.verb = "update"
Piped(c)   == c.verb = "create"

Init ==
    /\ pool = Bufs
    /\ mem = [b \in Bufs |-> [i \in 1 .. OutLen |-> None]]
    /\ len = [b \in Bufs |-> 0]
    /\ pc = [g \in Goroutines |-> "idle"]
    /\ cmd = [g \in Goroutines |-> None]
    /\ stdin = [g \in Goroutines |-> None]
    /\ stdout = [g \in Goroutines |-> None]
    /\ stderr = [g \in Goroutines |-> None]
    /\ data = [g \in Goroutines |-> None]
    /\ answer = [g \in Goroutines |-> None]

-----------------------------------------------------------------------------

\* Fault: buffers go back to the pool without Reset.
MutReset(B) == len' = len
\* putBuf resets a buffer, which keeps its memory.
Reset(B) == len' = [b \in Bufs |-> IF b \in B THEN 0 ELSE len[b]]

putBuf(B) == Reset(B) /\ pool' = pool \cup (B \ {None})

\* Update encodes the resources into a buffer it holds until it returns.
Encode(g, c, b) ==
    IF Encodes(c)
    THEN /\ b \in pool /\ pool' = pool \ {b}
         /\ stdin' = [stdin EXCEPT ![g] = b]
         /\ mem' = [mem EXCEPT ![b] = [i \in 1 .. OutLen |-> c]]
         /\ len' = [len EXCEPT ![b] = OutLen]
    ELSE b = None /\ UNCHANGED <<pool, stdin, mem, len>>

\* A method of Runsc is called; the last answer is forgotten.
Begin(g, c) ==
    /\ pc[g] = "idle"
    /\ \E b \in Bufs \cup {None} : Encode(g, c, b)
    /\ cmd' = [cmd EXCEPT ![g] = c]
    /\ answer' = [answer EXCEPT ![g] = None]
    /\ pc' = [pc EXCEPT ![g] = IF Piped(c) THEN "piped" ELSE "output"]
    /\ UNCHANGED <<stdout, stderr, data>>

\* cmdOutput takes a buffer for stdout, which serves stderr too when combined.
CmdOutput(g) ==
    /\ pc[g] = "output"
    /\ \E o \in pool, e \in pool \cup {None} :
          /\ o # e /\ (e # None <=> Parses(cmd[g]))
          /\ pool' = pool \ {o, e}
          /\ stdout' = [stdout EXCEPT ![g] = o]
          /\ stderr' = [stderr EXCEPT ![g] = e]
    /\ pc' = [pc EXCEPT ![g] = "starting"]
    /\ UNCHANGED <<mem, len, cmd, stdin, data, answer>>

\* Monitor.Start succeeds.
MonitorStart(g) ==
    /\ pc[g] = "starting"
    /\ pc' = [pc EXCEPT ![g] = "running"]
    /\ UNCHANGED <<pool, mem, len, cmd, stdin, stdout, stderr, data, answer>>

\* runsc writes a chunk of its output to buffer b.
WriteTo(b, c) ==
    /\ b # None /\ len[b] < OutLen
    /\ mem' = [mem EXCEPT ![b][len[b] + 1] = c]
    /\ len' = [len EXCEPT ![b] = @ + 1]

Write(g) ==
    /\ pc[g] = "running"
    /\ WriteTo(stdout[g], cmd[g]) \/ WriteTo(stderr[g], cmd[g])
    /\ UNCHANGED <<pool, pc, cmd, stdin, stdout, stderr, data, answer>>

\* The deferred putBuf calls of cmdOutput, and the slice it returns.
LeaveOutput(g, slice) ==
    /\ putBuf({stdout[g], stderr[g]})
    /\ stdout' = [stdout EXCEPT ![g] = None]
    /\ stderr' = [stderr EXCEPT ![g] = None]
    /\ data' = [data EXCEPT ![g] = slice]
    /\ UNCHANGED <<mem, cmd, stdin, answer>>

\* Fault: the error return of cmdOutput does not give back stderr's buffer.
MutStartErr(g) ==
    /\ pc[g] = "starting"
    /\ putBuf({stdout[g]})
    /\ stdout' = [stdout EXCEPT ![g] = None]
    /\ stderr' = [stderr EXCEPT ![g] = None]
    /\ pc' = [pc EXCEPT ![g] = "failed"]
    /\ UNCHANGED <<mem, cmd, stdin, data, answer>>
\* Monitor.Start fails: no slice.
StartErr(g) ==
    /\ pc[g] = "starting"
    /\ LeaveOutput(g, None)
    /\ pc' = [pc EXCEPT ![g] = "failed"]

\* The command exits with status 0 and its whole output, or fails with what
\* it wrote; Monitor.Wait returns and cmdOutput returns the buffer's bytes.
WaitOk(g) ==
    /\ pc[g] = "running" /\ len[stdout[g]] = OutLen
    /\ LeaveOutput(g, [buf |-> stdout[g], len |-> OutLen])
    /\ pc' = [pc EXCEPT ![g] = "returned"]

WaitErr(g) ==
    /\ pc[g] = "running"
    /\ LET b == IF Parses(cmd[g]) THEN stderr[g] ELSE stdout[g]
       IN  LeaveOutput(g, [buf |-> b, len |-> len[b]])
    /\ pc' = [pc EXCEPT ![g] = "failed"]

-----------------------------------------------------------------------------

\* The commands whose bytes slice s reads now.
Bytes(s) == IF s = None THEN {} ELSE {mem[s.buf][i] : i \in 1 .. s.len}

Result(g, ok, bytes) == [ok |-> ok, asked |-> cmd[g], read |-> bytes]

\* The method returns to its caller, and Update's deferred putBuf runs.
Finish(g, a) ==
    /\ answer' = [answer EXCEPT ![g] = a]
    /\ pc' = [pc EXCEPT ![g] = "idle"]
    /\ cmd' = [cmd EXCEPT ![g] = None]
    /\ data' = [data EXCEPT ![g] = None]
    /\ IF stdin[g] # None THEN putBuf({stdin[g]}) ELSE UNCHANGED <<len, pool>>
    /\ stdin' = [stdin EXCEPT ![g] = None]
    /\ UNCHANGED <<mem, stdout, stderr>>

\* json.Unmarshal reads the slice of a successful command; bytes of two
\* commands do not parse.  The commands that parse nothing are done.
Parse(g) ==
    /\ pc[g] = "returned"
    /\ LET read == IF Parses(cmd[g]) THEN Bytes(data[g]) ELSE {}
       IN  Finish(g, Result(g, Cardinality(read) <= 1, read))

\* The error is formatted with the slice of a failed command.
FormatErr(g) ==
    /\ pc[g] = "failed"
    /\ Finish(g, Result(g, FALSE, Bytes(data[g])))

\* With I/O of its own the command runs without buffers.  If Monitor.Start
\* or CloseAfterStart fails the method returns at once.
PipedDone(g) ==
    /\ pc[g] = "piped"
    /\ \E ok \in BOOLEAN : Finish(g, Result(g, ok, {}))

Step(g) ==
    \/ \E c \in Commands : Begin(g, c)
    \/ CmdOutput(g) \/ MonitorStart(g) \/ StartErr(g)
    \/ Write(g) \/ WaitOk(g) \/ WaitErr(g)
    \/ Parse(g) \/ FormatErr(g) \/ PipedDone(g)

Next == \E g \in Goroutines : Step(g)

Spec == Init /\ [][Next]_vars

-----------------------------------------------------------------------------
(* Properties *)

Held(g) == {stdin[g], stdout[g], stderr[g]} \ {None}

\* Buffers are neither shared nor lost: each one is in the pool or held by
\* exactly one command in exactly one role, on every error path too.
PoolPartition ==
    /\ pool \subseteq Bufs
    /\ \A g \in Goroutines :
          /\ Held(g) \cap pool = {}
          /\ \A h \in Goroutines \ {g} : Held(g) \cap Held(h) = {}
          /\ stdin[g] # None => stdin[g] \notin {stdout[g], stderr[g]}
          /\ pc[g] = "idle" => Held(g) = {}
    /\ (UNION {Held(g) : g \in Goroutines}) \cup pool = Bufs

\* A running command sees nothing of another one: what its buffers hold is
\* its own input and its own output.
OwnBuffers ==
    \A g \in Goroutines : \A b \in Held(g) :
        \A i \in 1 .. len[b] : mem[b][i] = cmd[g]

\* The comments on State and Wait: what they return is the state or the exit
\* status of the container asked about, never what another command wrote.
OwnAnswer ==
    \A g \in Goroutines :
        answer[g] # None /\ answer[g].ok => answer[g].read \subseteq {answer[g].asked}
=============================================================================
