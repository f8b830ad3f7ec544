-------------------------------- MODULE Task --------------------------------
(***************************************************************************)
(* What the shim promises containerd about a task, without goroutines,     *)
(* locks, channels or the order of the steps inside an RPC: the life of    *)
(* each container and of its process, and the one exit that is told.       *)
(* Shim implements this specification (Shim!TaskSpec).                     *)
(***************************************************************************)
EXTENDS Integers, Sequences

CONSTANTS
    Containers,     \* container ids
    Codes,          \* exit statuses
    NoCode,         \* no exit status yet
    LostCode        \* the status told when the end could not be observed

VARIABLES
    phase,      \* none, created, running, stopped or deleted
    live,       \* the containers that have a process running in runsc
    code,       \* the recorded exit status, or NoCode
    stream,     \* the TaskOOM and TaskExit events sent, in order
    answers     \* the statuses Wait has answered with

taskVars == <<phase, live, code, stream, answers>>

\* The TaskExit of c has been sent.
Told(c) == \E i \in DOMAIN stream : stream[i].type = "exit" /\ stream[i].id = c

TaskInit ==
    /\ phase = [c \in Containers |-> "none"]
    /\ live = {}
    /\ code = [c \in Containers |-> NoCode]
    /\ stream = << >>
    /\ answers = [c \in Containers |-> {}]

Create(c) ==
    /\ phase[c] = "none"
    /\ phase' = [phase EXCEPT ![c] = "created"]
    /\ UNCHANGED <<live, code, stream, answers>>

\* The one launch of a container's process.
Launch(c) ==
    /\ phase[c] = "created" /\ code[c] = NoCode /\ ~Told(c)
    /\ live' = live \cup {c}
    /\ UNCHANGED <<phase, code, stream, answers>>

\* A launch that reported a failure, with or without having started the
\* process.  Nobody waits for that process and its end is not observed.
FailedLaunch(c) ==
    /\ phase[c] = "created" /\ code[c] = NoCode /\ ~Told(c)
    /\ live' \in {live, live \cup {c}}
    /\ code' = [code EXCEPT ![c] = LostCode]
    /\ phase' = [phase EXCEPT ![c] = "stopped"]
    /\ UNCHANGED <<stream, answers>>

\* The task counts as running; its process may be dead already.
Started(c) ==
    /\ phase[c] = "created" /\ code[c] = NoCode
    /\ phase' = [phase EXCEPT ![c] = "running"]
    /\ UNCHANGED <<live, code, stream, answers>>

\* Processes end by themselves, by a signal or with their sandbox.
Die(D) ==
    /\ live' = live \ D
    /\ UNCHANGED <<phase, code, stream, answers>>

\* A dead process is noticed before its exit status is known.
FoundDead(c) ==
    /\ phase[c] \in {"created", "running"} /\ c \notin live
    /\ phase' = [phase EXCEPT ![c] = "stopped"]
    /\ UNCHANGED <<live, code, stream, answers>>

\* The exit status is recorded, once.  A status other than LostCode is that of
\* a process that has ended.
Record(c, s) ==
    /\ phase[c] \in {"created", "running", "stopped"}
    /\ code[c] = NoCode /\ (s = LostCode \/ c \notin live)
    /\ code' = [code EXCEPT ![c] = s]
    /\ phase' = [phase EXCEPT ![c] = "stopped"]
    /\ UNCHANGED <<live, stream, answers>>

\* An OOM kill is told before the exit, never after it.
TellOOM(c) ==
    /\ ~Told(c)
    /\ stream' = Append(stream, [type |-> "oom", id |-> c, status |-> 0])
    /\ UNCHANGED <<phase, live, code, answers>>

\* The exit is told once, with the recorded status; a task deleted before its
\* exit was recorded has no status the event could contradict.
TellExit(c, s) ==
    /\ ~Told(c) /\ (s = LostCode \/ c \notin live)
    /\ code[c] = s \/ (code[c] = NoCode /\ phase[c] = "deleted")
    /\ stream' = Append(stream, [type |-> "exit", id |-> c, status |-> s])
    /\ UNCHANGED <<phase, live, code, answers>>

\* Wait answers with the recorded status and never earlier.
Answer(c) ==
    /\ code[c] # NoCode
    /\ answers' = [answers EXCEPT ![c] = {code[c]}]
    /\ UNCHANGED <<phase, live, code, stream>>

Delete(c) ==
    /\ phase[c] \in {"created", "stopped"} /\ c \notin live
    /\ phase' = [phase EXCEPT ![c] = "deleted"]
    /\ UNCHANGED <<live, code, stream, answers>>

TaskNext ==
    \/ \E c \in Containers :
          \/ Create(c) \/ Launch(c) \/ FailedLaunch(c) \/ Started(c)
          \/ FoundDead(c) \/ TellOOM(c) \/ Answer(c) \/ Delete(c)
          \/ \E s \in Codes : Record(c, s) \/ TellExit(c, s)
    \/ \E D \in SUBSET Containers : Die(D)

TaskSpec == TaskInit /\ [][TaskNext]_taskVars
=============================================================================
