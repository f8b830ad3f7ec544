----------------------------- MODULE PodRestore -----------------------------
(***************************************************************************)
(* Forking a pod: a source pod is checkpointed while its containers come   *)
(* up, and another pod is started.  If that one carries the restore        *)
(* annotation, which is pod-wide, all its containers are restored from the *)
(* image (runsc_service.go, Start and shouldRestore; docs/HLD.md).         *)
(*                                                                         *)
(* External: CRI and kubelet (the pause container first, containers that   *)
(* ended restarted or not) and the sentry of the forked sandbox, which     *)
(* counts restored containers and resumes when container_count are there.  *)
(* Containers are named as in the pod spec; the source and the fork use    *)
(* the same names.                                                         *)
(***************************************************************************)
EXTENDS Naturals, FiniteSets

CONSTANTS
    Containers,     \* container names of the pod
    Root,           \* the pause container
    Mishaps         \* bound on mishaps: a spec cannot be read, runsc fails, a
                    \* process ends, kubelet restarts a container

ASSUME PodAssumption ==
    Root \in Containers /\ IsFiniteSet(Containers) /\ Mishaps \in Nat

VARIABLES
    up,         \* containers running in the source pod
    writing,    \* runsc checkpoint is running
    image,      \* container names in the image, {} while there is none
    annotated,  \* the second pod carries the annotation: it is a fork
    task,       \* its tasks in the shim: absent, created, starting, ...
    how,        \* what Start decided: "none", "restore" or "cold"
    sentry,     \* created, cold, restoring, restored or failed
    held,       \* containers restored and waiting for the others
    mem,        \* what runs in a container: "none", "image" or "cold"
    mishaps,    \* how many of them so far
    unread,     \* containers whose spec a Start could not read
    restarted   \* containers kubelet has started once more

sourceVars == <<up, writing, image, annotated>>
sentryVars == <<sentry, held, mem>>
histVars   == <<unread, restarted>>
vars == <<sourceVars, task, how, sentryVars, mishaps, histVars>>

Init ==
    /\ up = {} /\ writing = FALSE /\ image = {}
    /\ annotated \in BOOLEAN
    /\ task = [c \in Containers |-> "absent"]
    /\ how = [c \in Containers |-> "none"]
    /\ sentry = "created" /\ held = {}
    /\ mem = [c \in Containers |-> "none"]
    /\ mishaps = 0 /\ unread = {} /\ restarted = {}

-----------------------------------------------------------------------------
(* The source pod *)

SourceStart(c) ==
    /\ c \notin up /\ (c = Root \/ Root \in up)
    /\ up' = up \cup {c}
    /\ UNCHANGED <<writing, image, annotated, task, how, sentryVars, mishaps,
                   histVars>>

\* Container.Checkpoint: any running task will do, also while others of the
\* pod are still to come up.
Checkpoint ==
    /\ up # {} /\ image = {} /\ ~writing
    /\ writing' = TRUE
    /\ UNCHANGED <<up, image, annotated, task, how, sentryVars, mishaps,
                   histVars>>

\* runsc checkpoint --leave-running has returned: the image has the whole
\* sandbox and container_count, and the source goes on.
CheckpointDone ==
    /\ writing
    /\ writing' = FALSE /\ image' = up
    /\ UNCHANGED <<up, annotated, task, how, sentryVars, mishaps,
                   histVars>>

-----------------------------------------------------------------------------
(* The second pod *)

\* CRI creates the pause container and starts it before it creates the others.
Create(c) ==
    /\ task[c] = "absent" /\ (c = Root \/ task[Root] = "running")
    /\ task' = [task EXCEPT ![c] = "created"]
    /\ UNCHANGED <<sourceVars, how, sentryVars, mishaps, histVars>>

\* kubelet starts a container that ended once more, in the same sandbox and
\* with the same annotations.
Restart(c) ==
    /\ task[c] = "stopped" /\ c # Root /\ task[Root] = "running"
    /\ mishaps < Mishaps /\ mishaps' = mishaps + 1
    /\ task' = [task EXCEPT ![c] = "created"]
    /\ restarted' = restarted \cup {c}
    /\ UNCHANGED <<sourceVars, how, sentryVars, unread>>

\* Fault: only the pause container is restored.
MutShouldRestore(c) == IF annotated /\ c = Root THEN "restore" ELSE "cold"
\* shouldRestore: the annotation of the pod is in the spec of each container.
shouldRestore(c) == IF annotated THEN "restore" ELSE "cold"

\* Start takes the restore path or the cold one by what it reads in the spec.
\* If it cannot read it, it takes the cold one.
Start(c) ==
    /\ task[c] = "created" /\ (annotated => image # {})
    /\ \/ /\ how' = [how EXCEPT ![c] = shouldRestore(c)]
          /\ UNCHANGED <<mishaps, unread>>
       \/ /\ how' = [how EXCEPT ![c] = "cold"]
          /\ mishaps < Mishaps /\ mishaps' = mishaps + 1
          /\ unread' = unread \cup {c}
    /\ task' = [task EXCEPT ![c] = "starting"]
    /\ UNCHANGED <<sourceVars, sentryVars, restarted>>

Running(c) == task' = [task EXCEPT ![c] = "running"]

\* The sentry adds a container.  With container_count of them it resumes; the
\* names must be those of the image (the comment on the annotation).
Add(c) ==
    LET all == held \cup {c} IN
    IF Cardinality(all) < Cardinality(image)
    THEN held' = all /\ sentry' = "restoring" /\ mem' = mem
    ELSE /\ held' = {}
         /\ IF all = image
            THEN /\ sentry' = "restored"
                 /\ mem' = [d \in Containers |-> IF d \in all THEN "image" ELSE mem[d]]
            ELSE sentry' = "failed" /\ mem' = mem

\* The root's restore begins the restore of the sandbox; a sub-container can
\* only be restored into a sandbox that is being restored.
CanRestore(c) == sentry = IF c = Root THEN "created" ELSE "restoring"

\* Container.Restore, runsc restore --detach.
Restore(c) ==
    /\ task[c] = "starting" /\ how[c] = "restore" /\ CanRestore(c)
    /\ Add(c) /\ Running(c)
    /\ UNCHANGED <<sourceVars, how, mishaps, histVars>>

\* Container.Start, runsc start.
CanStart(c) == IF c = Root THEN sentry = "created" ELSE sentry \in {"cold", "restored"}

ColdStart(c) ==
    /\ task[c] = "starting" /\ how[c] = "cold" /\ CanStart(c)
    /\ sentry' = IF c = Root THEN "cold" ELSE sentry
    /\ mem' = [mem EXCEPT ![c] = "cold"]
    /\ Running(c)
    /\ UNCHANGED <<sourceVars, how, held, mishaps, histVars>>

\* A failed start: a sub-container counts as stopped, the root as created.
StartFailed(c) ==
    task' = [task EXCEPT ![c] = IF c = Root THEN "created" ELSE "stopped"]

\* The sentry refuses.
Refuse(c) ==
    /\ task[c] = "starting"
    /\ IF how[c] = "restore" THEN ~CanRestore(c) ELSE ~CanStart(c)
    /\ StartFailed(c)
    /\ UNCHANGED <<sourceVars, how, sentryVars, mishaps, histVars>>

\* runsc fails for another reason.
RunscFails(c) ==
    /\ task[c] = "starting" /\ mishaps < Mishaps /\ mishaps' = mishaps + 1
    /\ StartFailed(c)
    /\ UNCHANGED <<sourceVars, how, sentryVars, histVars>>

\* A process ends; with the root's, the sandbox.
Exit(c) ==
    /\ mem[c] # "none" /\ mishaps < Mishaps /\ mishaps' = mishaps + 1
    /\ LET gone == IF c = Root THEN Containers ELSE {c} IN
       /\ mem' = [d \in Containers |-> IF d \in gone THEN "none" ELSE mem[d]]
       /\ task' = [d \in Containers |-> IF d \in gone /\ task[d] # "absent"
                                        THEN "stopped" ELSE task[d]]
    /\ sentry' = IF c = Root THEN "failed" ELSE sentry
    /\ UNCHANGED <<sourceVars, how, held, histVars>>

-----------------------------------------------------------------------------

Serve(c) == Start(c) \/ Restore(c) \/ ColdStart(c) \/ Refuse(c)

Next ==
    \/ \E c \in Containers : \/ SourceStart(c) \/ Create(c) \/ Restart(c)
                             \/ Serve(c) \/ RunscFails(c) \/ Exit(c)
    \/ Checkpoint \/ CheckpointDone

Spec == Init /\ [][Next]_vars

\* Both pods come up and calls return; nothing makes kubelet restart a
\* container, a process end or runsc fail.
FairSpec ==
    /\ Spec
    /\ WF_vars(Checkpoint) /\ WF_vars(CheckpointDone)
    /\ \A c \in Containers : /\ WF_vars(SourceStart(c)) /\ WF_vars(Create(c))
                             /\ WF_vars(Serve(c))

-----------------------------------------------------------------------------
(* Properties *)

\* A pod forks as a unit (README.md): a container runs from scratch beside one
\* that has the memory of the source only if its spec could not be read, and
\* only if the sandbox had resumed before it was started: it is not in the
\* image or kubelet started it once more.  However the specs fail to be read,
\* a sandbox never comes to life half restored and half cold.
MixedOnlyLate ==
    \A c, d \in Containers :
        mem[c] = "image" /\ mem[d] = "cold" =>
            d \in unread /\ (d \notin image \/ d \in restarted)

\* A pod comes up with what it should run: forked from a checkpoint of the
\* whole source pod it comes to life, no order of its starts leaves it waiting
\* for a container that never comes or makes the sentry refuse one, and without
\* the annotation it starts cold.
PodComesUp ==
    \A c \in Containers :
        (task[Root] = "created" /\ image = Containers) ~>
            mem[c] = (IF annotated THEN "image" ELSE "cold") \/ mishaps > 0
=============================================================================
