-------------------------- MODULE PodRestoreProofs --------------------------
(***************************************************************************)
(* A pod forks as a unit: proved of PodRestore for pods of any size, any   *)
(* number of mishaps, checkpoints taken at any time and specs that cannot  *)
(* be read.                                                                *)
(***************************************************************************)
EXTENDS PodRestore, TLAPS

USE PodAssumption

TypeInv ==
    /\ annotated \in BOOLEAN
    /\ task \in [Containers -> {"absent", "created", "starting", "running", "stopped"}]
    /\ how \in [Containers -> {"none", "restore", "cold"}]
    /\ mem \in [Containers -> {"none", "image", "cold"}]
    /\ sentry \in {"created", "cold", "restoring", "restored", "failed"}
    /\ held \subseteq Containers

\* In a fork only a container whose spec could not be read starts cold; without
\* the annotation none is restored.
DecisionInv ==
    \A c \in Containers :
        IF annotated THEN how[c] = "cold" \/ mem[c] = "cold" => c \in unread
                     ELSE how[c] # "restore" /\ mem[c] # "image"

\* What runs in the containers by the state of the sentry: nothing before it is
\* started or has resumed, and the memory of the source only after that.
SentryInv ==
    /\ sentry \in {"created", "restoring", "failed"} =>
           \A c \in Containers : mem[c] = "none"
    /\ sentry = "cold" => \A c \in Containers : mem[c] # "image"
    /\ sentry # "restoring" => held = {}
    /\ \A c \in held : task[c] = "running"

\* Once the sentry has resumed, every container of the image has been started,
\* and the image stays as it is.
ResumeInv ==
    /\ writing => image = {}
    /\ sentry = "restored" =>
           /\ image # {}
           /\ \A c \in Containers \cap image :
                  c \in restarted \/ (task[c] \in {"running", "stopped"} /\ mem[c] # "cold")

ForkInv == TypeInv /\ DecisionInv /\ SentryInv /\ ResumeInv

-----------------------------------------------------------------------------

\* Both pods start with nothing decided and nothing running.
LEMMA InitFork == Init => ForkInv
BY DEF Init, ForkInv, TypeInv, DecisionInv, SentryInv, ResumeInv

\* Steps of the source pod: an image is written once.
LEMMA SourceFork ==
    ASSUME ForkInv, (\E c \in Containers : SourceStart(c)) \/ Checkpoint \/ CheckpointDone
    PROVE  ForkInv'
<1>1. UNCHANGED <<annotated, task, how, sentry, held, mem, unread, restarted>>
  BY DEF SourceStart, Checkpoint, CheckpointDone, sentryVars, histVars
<1>2. (writing' => image' = {}) /\ (image # {} => image' = image)
  BY DEF SourceStart, Checkpoint, CheckpointDone, ForkInv, ResumeInv
<1> QED
  BY <1>1, <1>2 DEF ForkInv, TypeInv, DecisionInv, SentryInv, ResumeInv

\* CRI creates a container that was absent, which none in the image is once
\* the sentry has resumed; kubelet's restarts are on record.
LEMMA CreateFork ==
    ASSUME ForkInv, NEW c \in Containers, Create(c) \/ Restart(c)
    PROVE  ForkInv'
<1>1. /\ UNCHANGED <<writing, image, annotated, how, sentry, held, mem, unread>>
      /\ task' = [task EXCEPT ![c] = "created"]
      /\ \/ task[c] = "absent" /\ restarted' = restarted
         \/ task[c] = "stopped" /\ restarted' = restarted \cup {c}
  BY DEF Create, Restart, sourceVars, sentryVars, histVars
<1> QED
  BY <1>1 DEF ForkInv, TypeInv, DecisionInv, SentryInv, ResumeInv

\* Start decides by the annotation, or starts cold when it cannot read the spec.
LEMMA StartFork ==
    ASSUME ForkInv, NEW c \in Containers, Start(c)
    PROVE  ForkInv'
<1>1. /\ UNCHANGED <<writing, image, annotated, sentry, held, mem, restarted>>
      /\ task[c] = "created" /\ task' = [task EXCEPT ![c] = "starting"]
      /\ \/ /\ how' = [how EXCEPT ![c] = IF annotated THEN "restore" ELSE "cold"]
            /\ unread' = unread
         \/ how' = [how EXCEPT ![c] = "cold"] /\ unread' = unread \cup {c}
  BY DEF Start, shouldRestore, sourceVars, sentryVars
<1> QED
  BY <1>1 DEF ForkInv, TypeInv, DecisionInv, SentryInv, ResumeInv

\* The sentry gives containers the memory of the source all at once, and only
\* those that were decided to be restored and have come.
LEMMA RestoreFork ==
    ASSUME ForkInv, NEW c \in Containers, Restore(c)
    PROVE  ForkInv'
<1>1. /\ UNCHANGED <<writing, image, annotated, how, unread, restarted>>
      /\ task[c] = "starting" /\ task' = [task EXCEPT ![c] = "running"]
      /\ sentry \in {"created", "restoring"} /\ annotated
  BY DEF Restore, Running, CanRestore, sourceVars, histVars, ForkInv, DecisionInv
<1>2. \A d \in Containers : mem[d] = "none"
  BY <1>1 DEF ForkInv, SentryInv
<1>3. CASE held' = held \cup {c} /\ sentry' = "restoring" /\ mem' = mem
  BY <1>1, <1>2, <1>3 DEF ForkInv, TypeInv, DecisionInv, SentryInv, ResumeInv
<1>4. CASE held' = {} /\ sentry' = "failed" /\ mem' = mem
  BY <1>1, <1>2, <1>4 DEF ForkInv, TypeInv, DecisionInv, SentryInv, ResumeInv
<1>5. CASE /\ held' = {} /\ sentry' = "restored" /\ held \cup {c} = image
           /\ mem' = [d \in Containers |-> IF d \in held \cup {c} THEN "image" ELSE mem[d]]
  <2>1. /\ mem' \in [Containers -> {"none", "image", "cold"}]
        /\ \A d \in Containers : mem'[d] # "cold"
    BY <1>2, <1>5 DEF ForkInv, TypeInv
  <2>2. \A d \in image : d \in Containers /\ task'[d] = "running"
    BY <1>1, <1>5 DEF ForkInv, TypeInv, SentryInv
  <2>3. image # {}
    BY <1>5
  <2> QED
    BY <1>1, <1>5, <2>1, <2>2, <2>3 DEF ForkInv, TypeInv, DecisionInv, SentryInv, ResumeInv
<1>6. \/ held' = held \cup {c} /\ sentry' = "restoring" /\ mem' = mem
      \/ held' = {} /\ sentry' = "failed" /\ mem' = mem
      \/ /\ held' = {} /\ sentry' = "restored" /\ held \cup {c} = image
         /\ mem' = [d \in Containers |-> IF d \in held \cup {c} THEN "image" ELSE mem[d]]
  BY DEF Restore, Add
<1> QED
  BY <1>3, <1>4, <1>5, <1>6

\* A container that starts cold in a sandbox that has resumed was not there when
\* it did.
LEMMA ColdStartFork ==
    ASSUME ForkInv, NEW c \in Containers, ColdStart(c)
    PROVE  ForkInv'
<1>1. /\ UNCHANGED <<writing, image, annotated, how, held, unread, restarted>>
      /\ task[c] = "starting" /\ task' = [task EXCEPT ![c] = "running"]
      /\ how[c] = "cold" /\ mem' = [mem EXCEPT ![c] = "cold"]
      /\ \/ sentry = "created" /\ sentry' = "cold"
         \/ sentry \in {"cold", "restored"} /\ sentry' = sentry
  BY DEF ColdStart, CanStart, Running, sourceVars, histVars
<1>2. TypeInv' /\ DecisionInv'
  BY <1>1 DEF ForkInv, TypeInv, DecisionInv
<1>3. SentryInv'
  <2>1. CASE sentry' = "cold"
    BY <1>1, <2>1 DEF ForkInv, TypeInv, SentryInv
  <2>2. CASE sentry' = "restored"
    BY <1>1, <2>2 DEF ForkInv, TypeInv, SentryInv
  <2> QED
    BY <1>1, <2>1, <2>2
<1>4. ResumeInv'
  <2>1. sentry' = "restored" => sentry = "restored" /\ (c \in image => c \in restarted)
    BY <1>1 DEF ForkInv, ResumeInv
  <2>2. \A x \in Containers \ {c} : task'[x] = task[x] /\ mem'[x] = mem[x]
    BY <1>1 DEF ForkInv, TypeInv
  <2>3. CASE sentry' # "restored"
    BY <1>1, <2>3 DEF ForkInv, ResumeInv
  <2>4. CASE sentry' = "restored"
    <3>1. sentry = "restored" /\ image # {}
      BY <2>1, <2>4 DEF ForkInv, ResumeInv
    <3>2. \A x \in Containers \cap image :
             x \in restarted \/ (task'[x] \in {"running", "stopped"} /\ mem'[x] # "cold")
      <4>1. \A x \in Containers \cap image :
               x \in restarted \/ (task[x] \in {"running", "stopped"} /\ mem[x] # "cold")
        BY <3>1 DEF ForkInv, ResumeInv
      <4> QED
        BY <2>1, <2>2, <2>4, <4>1
    <3>3. writing' => image' = {}
      BY <1>1 DEF ForkInv, ResumeInv
    <3> QED
      BY <1>1, <3>1, <3>2, <3>3 DEF ResumeInv
  <2> QED
    BY <2>3, <2>4
<1> QED
  BY <1>2, <1>3, <1>4 DEF ForkInv

\* A start that fails leaves what runs as it is.
LEMMA FailedFork ==
    ASSUME ForkInv, NEW c \in Containers, Refuse(c) \/ RunscFails(c)
    PROVE  ForkInv'
<1>1. UNCHANGED <<writing, image, annotated, how, sentry, held, mem, unread, restarted>>
  BY DEF Refuse, RunscFails, sourceVars, sentryVars, histVars
<1>2. /\ task[c] = "starting"
      /\ task' = [task EXCEPT ![c] = "created"] \/ task' = [task EXCEPT ![c] = "stopped"]
  BY DEF Refuse, RunscFails, StartFailed
<1> QED
  BY <1>1, <1>2 DEF ForkInv, TypeInv, DecisionInv, SentryInv, ResumeInv

\* A process that ends leaves nothing running; with the root's, the sandbox is
\* gone and starts nothing any more.
LEMMA ExitFork ==
    ASSUME ForkInv, NEW c \in Containers, Exit(c)
    PROVE  ForkInv'
<1>1. /\ UNCHANGED <<writing, image, annotated, how, held, unread, restarted>>
      /\ mem[c] # "none"
  BY DEF Exit, sourceVars, histVars
<1>2. held = {} /\ sentry \in {"cold", "restored"}
  BY <1>1 DEF ForkInv, TypeInv, SentryInv
<1>3. CASE c = Root
  <2>1. /\ mem' = [d \in Containers |-> "none"] /\ sentry' = "failed"
        /\ task' = [d \in Containers |-> IF task[d] # "absent" THEN "stopped" ELSE task[d]]
    BY <1>3 DEF Exit
  <2> QED
    BY <1>1, <1>2, <2>1 DEF ForkInv, TypeInv, DecisionInv, SentryInv, ResumeInv
<1>4. CASE c # Root
  <2>1. /\ mem' = [d \in Containers |-> IF d = c THEN "none" ELSE mem[d]]
        /\ sentry' = sentry
        /\ task' = [d \in Containers |-> IF d = c /\ task[d] # "absent" THEN "stopped" ELSE task[d]]
    BY <1>4 DEF Exit
  <2>2. CASE sentry = "cold"
    BY <1>1, <1>2, <2>1, <2>2 DEF ForkInv, TypeInv, DecisionInv, SentryInv, ResumeInv
  <2>3. CASE sentry = "restored"
    BY <1>1, <1>2, <2>1, <2>3 DEF ForkInv, TypeInv, DecisionInv, SentryInv, ResumeInv
  <2> QED
    BY <1>2, <2>2, <2>3
<1> QED
  BY <1>3, <1>4

\* Every step keeps the invariant.
LEMMA NextFork ==
    ASSUME ForkInv, [Next]_vars
    PROVE  ForkInv'
<1>1. CASE UNCHANGED vars
  BY <1>1 DEF vars, sourceVars, sentryVars, histVars,
              ForkInv, TypeInv, DecisionInv, SentryInv, ResumeInv
<1>2. CASE Next
  BY <1>2, SourceFork, CreateFork, StartFork, RestoreFork, ColdStartFork, FailedFork, ExitFork
     DEF Next, Serve
<1> QED
  BY <1>1, <1>2

-----------------------------------------------------------------------------

\* A container that runs from scratch beside one with the memory of the source
\* has a spec that could not be read and came after the sandbox had resumed,
\* whatever fails, ends or is restarted and whenever the source was checkpointed
\* (runsc_service.go:272-282).
THEOREM MixedOnlyLateCorrect == Spec => []MixedOnlyLate
<1>1. ForkInv /\ [Next]_vars => ForkInv'
  BY NextFork
<1>2. ForkInv => MixedOnlyLate
  <2> SUFFICES ASSUME ForkInv, NEW c \in Containers, NEW d \in Containers,
                      mem[c] = "image", mem[d] = "cold"
               PROVE  d \in unread /\ (d \notin image \/ d \in restarted)
    BY DEF MixedOnlyLate
  <2>1. annotated /\ d \in unread
    BY DEF ForkInv, TypeInv, DecisionInv
  <2>2. sentry = "restored"
    BY DEF ForkInv, TypeInv, SentryInv
  <2> QED
    BY <2>1, <2>2 DEF ForkInv, ResumeInv
<1> QED
  BY <1>1, <1>2, InitFork, PTL DEF Spec
=============================================================================
