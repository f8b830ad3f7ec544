---------------------------- MODULE ReleaseProofs ----------------------------
(***************************************************************************)
(* Proofs about Release, for any number of runs, arches, moves of the pull *)
(* request's head and failing commands.                                    *)
(***************************************************************************)
EXTENDS Release, TLAPS

USE ReleaseAssumption

Steps == JobSteps \cup {"idle", "done", "failed", "skipped", "none"}

\* A stack, by the pin it was built from, or none.
StackIds == 0 .. MaxHead

\* A run or a developer's command.
Job == [at : Steps, files : Files, rewrite : BOOLEAN, write : BOOLEAN, dry : BOOLEAN,
        lease : StackIds, leased : BOOLEAN, sha : StackIds,
        built : [Assets -> StackIds], sent : SUBSET Assets,
        failedAt : JobSteps \cup {"none"}]

TypeInv ==
    /\ head \in 1 .. MaxHead /\ copy \in Files /\ main \in Files
    /\ fork \in [{"mirror", "branch"} -> StackIds]
    /\ release \in [state : {"none", "draft", "published"}, notes : StackIds,
                    assets : [Assets -> StackIds]]
    /\ job \in [Procs -> Job]
    /\ last \in Procs

-----------------------------------------------------------------------------
(* Types *)

\* Every pin is a stack, and so is none.
LEMMA StackIdsFacts ==
    /\ 0 \in StackIds /\ 1 .. MaxHead \subseteq StackIds
    /\ Files = [pin : 1 .. MaxHead, lock : StackIds, frozen : BOOLEAN]
BY DEF StackIds, Files

\* Where nothing is queued or built yet.
LEMMA NoJobType == NoJob \in Job
BY StackIdsFacts DEF NoJob, Job, Steps, JobSteps, Files, StackIds

\* At first nothing has been released.
LEMMA InitType == Init => TypeInv
BY NoJobType DEF Init, TypeInv, Files, Procs, Dev, StackIds

\* A job of which one field gets another value of its kind is a job.
LEMMA FieldType ==
    ASSUME NEW j \in Job
    PROVE  /\ \A s \in Steps : [j EXCEPT !.at = s] \in Job
           /\ \A f \in Files : [j EXCEPT !.files = f] \in Job
           /\ \A b \in BOOLEAN : [j EXCEPT !.rewrite = b] \in Job
           /\ \A b \in BOOLEAN : [j EXCEPT !.write = b] \in Job
           /\ \A b \in BOOLEAN : [j EXCEPT !.dry = b] \in Job
           /\ \A i \in StackIds : [j EXCEPT !.lease = i] \in Job
           /\ \A b \in BOOLEAN : [j EXCEPT !.leased = b] \in Job
           /\ \A i \in StackIds : [j EXCEPT !.sha = i] \in Job
           /\ \A b \in [Assets -> StackIds] : [j EXCEPT !.built = b] \in Job
           /\ \A x \in SUBSET Assets : [j EXCEPT !.sent = x] \in Job
           /\ \A s \in JobSteps \cup {"none"} : [j EXCEPT !.failedAt = s] \in Job
<1>1. \A s \in Steps : [j EXCEPT !.at = s] \in Job
  BY DEF Job
<1>2. \A f \in Files : [j EXCEPT !.files = f] \in Job
  BY DEF Job
<1>3. \A b \in BOOLEAN : [j EXCEPT !.rewrite = b] \in Job
  BY DEF Job
<1>4. \A b \in BOOLEAN : [j EXCEPT !.write = b] \in Job
  BY DEF Job
<1>5. \A b \in BOOLEAN : [j EXCEPT !.dry = b] \in Job
  BY DEF Job
<1>6. \A i \in StackIds : [j EXCEPT !.lease = i] \in Job
  BY DEF Job
<1>7. \A b \in BOOLEAN : [j EXCEPT !.leased = b] \in Job
  BY DEF Job
<1>8. \A i \in StackIds : [j EXCEPT !.sha = i] \in Job
  BY DEF Job
<1>9. \A b \in [Assets -> StackIds] : [j EXCEPT !.built = b] \in Job
  BY DEF Job
<1>10. \A x \in SUBSET Assets : [j EXCEPT !.sent = x] \in Job
  BY DEF Job
<1>11. \A s \in JobSteps \cup {"none"} : [j EXCEPT !.failedAt = s] \in Job
  BY DEF Job
<1> QED
  BY <1>1, <1>2, <1>3, <1>4, <1>5, <1>6, <1>7, <1>8, <1>9, <1>10, <1>11

\* Changing one job to another one keeps the table of jobs.
LEMMA PutType ==
    ASSUME TypeInv, NEW p \in Procs, NEW j \in Job, job' = [job EXCEPT ![p] = j]
    PROVE  job' \in [Procs -> Job]
BY DEF TypeInv

\* A command or a run that goes on or stops stays a job.
LEMMA GoType ==
    ASSUME TypeInv, NEW p \in Procs, NEW s \in Steps, Go(p, s)
    PROVE  job' \in [Procs -> Job]
<1> DEFINE j == [job[p] EXCEPT !.at = s, !.leased = FALSE, !.lease = 0]
<1>1. j \in Job
  BY StackIdsFacts, FieldType DEF TypeInv
<1>2. job' = [job EXCEPT ![p] = j]
  BY DEF Go
<1> HIDE DEF j
<1> QED
  BY <1>1, <1>2, PutType

LEMMA StopType ==
    ASSUME TypeInv, NEW p \in Procs, Stop(p), job[p].at \in JobSteps
    PROVE  job' \in [Procs -> Job]
<1> DEFINE j == [job[p] EXCEPT !.at = "failed", !.failedAt = job[p].at, !.leased = FALSE, !.lease = 0]
<1>1. j \in Job
  <2>1. job[p] \in Job /\ 0 \in StackIds /\ "failed" \in Steps
    BY StackIdsFacts DEF TypeInv, Steps
  <2> QED
    BY <2>1, FieldType
<1>2. job' = [job EXCEPT ![p] = IF p = Dev THEN NoJob ELSE j]
  BY DEF Stop
<1>3. (IF p = Dev THEN NoJob ELSE j) \in Job
  BY <1>1, NoJobType
<1> HIDE DEF j
<1> QED
  BY <1>2, <1>3, PutType

LEMMA QueuedType ==
    ASSUME TypeInv, main' \in Files, NEW r \in Runs, NEW w \in BOOLEAN, Queued(r, w)
    PROVE  job' \in [Procs -> Job] /\ last' \in Procs
<1> DEFINE j == [NoJob EXCEPT !.at = "pick", !.files = main', !.rewrite = w]
<1>1. j \in Job
  <2>1. NoJob \in Job /\ "pick" \in Steps
    BY NoJobType DEF Steps, JobSteps
  <2> QED
    BY <2>1, FieldType
<1>2. job' = [job EXCEPT ![r] = j] /\ r \in Procs /\ last' = r
  BY DEF Queued, Procs
<1> HIDE DEF j
<1> QED
  BY <1>1, <1>2, PutType

\* What people do keeps the types.
LEMMA PeopleType ==
    ASSUME TypeInv, People
    PROVE  TypeInv'
<1>1. CASE HeadMoves
  BY <1>1 DEF HeadMoves, TypeInv, forkVars
<1>2. CASE Repin
  BY <1>2, StackIdsFacts DEF Repin, TypeInv, forkVars
<1>3. CASE RunLocally
  <2>1. job' \in [Procs -> Job]
    <3>1. PICK write \in BOOLEAN, rewrite \in BOOLEAN, dry \in {TRUE, ~DevPushes} :
            job' = [job EXCEPT ![Dev] = [NoJob EXCEPT !.at = "combine", !.files = copy,
                      !.write = write, !.rewrite = rewrite, !.dry = dry]]
      BY <1>3 DEF RunLocally
    <3> DEFINE j == [NoJob EXCEPT !.at = "combine", !.files = copy,
                      !.write = write, !.rewrite = rewrite, !.dry = dry]
    <3>2. dry \in BOOLEAN
      BY ReleaseAssumption
    <3>3. NoJob \in Job /\ "combine" \in Steps /\ copy \in Files
      BY NoJobType DEF Steps, JobSteps, StackSteps, TypeInv
    <3>4. j \in Job
      BY <3>2, <3>3, FieldType
    <3>5. job' = [job EXCEPT ![Dev] = j] /\ Dev \in Procs
      BY <3>1 DEF Procs
    <3> HIDE DEF j
    <3> QED
      BY <3>4, <3>5, PutType
  <2> QED
    BY <1>3, <2>1 DEF RunLocally, TypeInv, forkVars
<1>4. CASE Commit
  <2>1. main' \in Files
    BY <1>4 DEF Commit, TypeInv
  <2>2. job' \in [Procs -> Job] /\ last' \in Procs
    <3>1. CASE UNCHANGED <<job, last>>
      BY <3>1 DEF TypeInv
    <3>2. CASE \E r \in Runs : Queued(r, FALSE)
      BY <3>2, <2>1, QueuedType
    <3> QED
      BY <1>4, <3>1, <3>2 DEF Commit
  <2> QED
    BY <1>4, <2>1, <2>2 DEF Commit, TypeInv, forkVars
<1>5. CASE Dispatch
  <2>1. job' \in [Procs -> Job] /\ last' \in Procs
    BY <1>5, QueuedType DEF Dispatch, TypeInv
  <2> QED
    BY <1>5, <2>1 DEF Dispatch, TypeInv, forkVars
<1>6. CASE Publish
  BY <1>6 DEF Publish, TypeInv, forkVars
<1>7. CASE Freeze
  BY <1>7, StackIdsFacts DEF Freeze, TypeInv, forkVars
<1>8. CASE MergeReview \/ DeleteBase
  BY <1>8 DEF MergeReview, DeleteBase, TypeInv
<1> QED
  BY <1>1, <1>2, <1>3, <1>4, <1>5, <1>6, <1>7, <1>8 DEF People

\* So does every step of stack.py.
LEMMA StackPyType ==
    ASSUME TypeInv, NEW p \in Procs, StackPy(p)
    PROVE  TypeInv'
<1>0. job[p] \in Job
  BY DEF TypeInv
<1>1. CASE Combine(p)
  <2>1. job' \in [Procs -> Job] /\ copy' \in Files
    <3>1. CASE Stop(p) /\ UNCHANGED copy
      BY <1>1, <3>1, StopType DEF Combine, JobSteps, StackSteps, TypeInv
    <3>2. CASE /\ copy' = IF p = Dev /\ job[p].write THEN [copy EXCEPT !.lock = job[p].files.pin] ELSE copy
               /\ job' = [job EXCEPT ![p] = IF job[p].dry THEN NoJob
                             ELSE [@ EXCEPT !.sha = job[p].files.pin, !.at = "base"]]
      <4>1. copy' \in Files
        BY <1>0, <3>2, StackIdsFacts DEF TypeInv, Job
      <4>2. [job[p] EXCEPT !.sha = job[p].files.pin, !.at = "base"] \in Job
        BY <1>0, StackIdsFacts DEF Job, Steps, JobSteps, StackSteps
      <4> QED
        BY <3>2, <4>1, <4>2, NoJobType DEF TypeInv
    <3> QED
      BY <1>1, <3>1, <3>2 DEF Combine
  <2> QED
    BY <1>1, <2>1 DEF Combine, TypeInv, forkVars
<1>2. CASE EnsureBase(p)
  <2>1. job' \in [Procs -> Job]
    BY <1>2, GoType, StopType DEF EnsureBase, Steps, JobSteps, StackSteps
  <2> QED
    BY <1>2, <2>1 DEF EnsureBase, TypeInv
<1>3. CASE ReadRef(p)
  <2>1. job' \in [Procs -> Job]
    BY <1>0, <1>3 DEF ReadRef, TypeInv, Job
  <2> QED
    BY <1>3, <2>1 DEF ReadRef, TypeInv, forkVars
<1>4. CASE PushRef(p)
  <2>1. job' \in [Procs -> Job] /\ fork' \in [{"mirror", "branch"} -> StackIds]
    <3>1. CASE Stop(p) /\ UNCHANGED fork
      BY <1>4, <3>1, StopType DEF PushRef, JobSteps, StackSteps, TypeInv
    <3>2. CASE /\ fork' = [fork EXCEPT ![job[p].at] = job[p].sha]
               /\ Go(p, IF job[p].at = "mirror" THEN "branch" ELSE "review")
      <4>1. fork' \in [{"mirror", "branch"} -> StackIds]
        BY <1>0, <3>2 DEF TypeInv, Job
      <4>2. (IF job[p].at = "mirror" THEN "branch" ELSE "review") \in Steps
        BY DEF Steps, JobSteps, StackSteps
      <4> QED
        BY <3>2, <4>1, <4>2, GoType
    <3> QED
      BY <1>4, <3>1, <3>2 DEF PushRef
  <2> QED
    BY <1>4, <2>1 DEF PushRef, TypeInv
<1>5. CASE Review(p)
  <2>1. job' \in [Procs -> Job]
    <3>1. CASE p = Dev
      BY <1>5, <3>1, NoJobType DEF Review, TypeInv
    <3>2. CASE p # Dev
      BY <1>5, <3>2, GoType DEF Review, Steps, JobSteps
    <3> QED
      BY <3>1, <3>2
  <2> QED
    BY <1>5, <2>1 DEF Review, TypeInv
<1> QED
  BY <1>1, <1>2, <1>3, <1>4, <1>5 DEF StackPy

\* Every step of the workflow.
LEMMA WorkflowType ==
    ASSUME TypeInv, NEW r \in Runs, Workflow(r)
    PROVE  TypeInv'
<1>0. r \in Procs /\ job[r] \in Job
  BY DEF TypeInv, Procs
<1>1. CASE Pick(r)
  <2>1. job' \in [Procs -> Job]
    BY <1>0, <1>1, GoType DEF Pick, Steps, JobSteps, StackSteps
  <2> QED
    BY <1>1, <2>1 DEF Pick, TypeInv, forkVars
<1>2. CASE Checksum(r)
  <2>1. job' \in [Procs -> Job]
    BY <1>0, <1>2 DEF Checksum, TypeInv, Job, Steps, JobSteps, Assets
  <2> QED
    BY <1>2, <2>1 DEF Checksum, TypeInv, forkVars
<1>3. CASE Notes(r)
  <2>1. job' \in [Procs -> Job]
    BY <1>0, <1>3, GoType DEF Notes, Steps, JobSteps
  <2>2. job[r].files.lock \in StackIds
    BY <1>0, StackIdsFacts DEF Job
  <2> QED
    BY <1>3, <2>1, <2>2 DEF Notes, TypeInv, forkVars
<1>4. ASSUME NEW a \in Arches, Build(r, a)
      PROVE  TypeInv'
  <2>1. job' \in [Procs -> Job]
    BY <1>0, <1>4 DEF Build, TypeInv, Job, Assets
  <2> QED
    BY <1>4, <2>1 DEF Build, TypeInv, forkVars
<1>5. ASSUME NEW x \in Assets, Upload(r, x)
      PROVE  TypeInv'
  <2>1. job' \in [Procs -> Job]
    <3> DEFINE sent == job[r].sent \cup {x}
               at == IF sent = Assets THEN "done" ELSE job[r].at
               j == [job[r] EXCEPT !.sent = sent, !.at = at]
    <3>1. sent \subseteq Assets /\ at \in Steps
      BY <1>0 DEF Job, Steps
    <3>2. job' = [job EXCEPT ![r] = j]
      BY <1>0, <1>5 DEF Upload, TypeInv, Job
    <3> HIDE DEF sent, at
    <3>3. j \in Job
      BY <1>0, <3>1 DEF Job
    <3> QED
      BY <1>0, <3>2, <3>3 DEF TypeInv
  <2>2. job[r].built[x] \in StackIds
    BY <1>0 DEF Job
  <2> QED
    BY <1>5, <2>1, <2>2 DEF Upload, TypeInv, forkVars
<1> QED
  BY <1>1, <1>2, <1>3, <1>4, <1>5 DEF Workflow

\* And a failure or a re-run.
LEMMA FaultType ==
    ASSUME TypeInv, NEW p \in Procs, Fault(p)
    PROVE  TypeInv'
<1>1. job' \in [Procs -> Job]
  BY StopType DEF Fault, Active
<1> QED
  BY <1>1 DEF Fault, TypeInv, forkVars

LEMMA RerunType ==
    ASSUME TypeInv, NEW r \in Runs, Rerun(r)
    PROVE  TypeInv'
<1>0. r \in Procs /\ job[r] \in Job
  BY DEF TypeInv, Procs
<1>1. job' \in [Procs -> Job]
  <2>1. PICK step \in JobSteps \cup {"none"} :
           job' = [job EXCEPT ![r].at = step, ![r].sent = {},
                     ![r].built = IF step \in {"build", "notes"} THEN @ ELSE NoJob.built]
    BY <1>0 DEF Rerun, Job, JobSteps, StackSteps
  <2> DEFINE b == IF step \in {"build", "notes"} THEN job[r].built ELSE NoJob.built
             j == [job[r] EXCEPT !.at = step, !.sent = {}, !.built = b]
  <2>2. b \in [Assets -> StackIds]
    BY <1>0, NoJobType DEF Job
  <2>3. step \in Steps
    BY DEF Steps
  <2>4. j \in Job
    BY <1>0, <2>2, <2>3, FieldType
  <2>5. job' = [job EXCEPT ![r] = j]
    BY <2>1
  <2> HIDE DEF j
  <2> QED
    BY <1>0, <2>4, <2>5, PutType
<1> QED
  BY <1>0, <1>1 DEF Rerun, TypeInv, forkVars

\* Every step keeps the types.
LEMMA NextType ==
    ASSUME TypeInv, [Next]_vars
    PROVE  TypeInv'
<1>1. CASE UNCHANGED vars
  BY <1>1 DEF vars, TypeInv, forkVars
<1> QED
  BY <1>1, PeopleType, StackPyType, WorkflowType, FaultType, RerunType DEF Next

-----------------------------------------------------------------------------
(* What a run builds *)

\* A run may not write the lock; what it combined is the pin of its files and,
\* unless it was asked to rewrite, what the lock of its files says; what it
\* built is what it combined.
Committed(j) ==
    /\ ~j.write
    /\ j.sha # 0 => j.sha = j.files.pin /\ (j.rewrite \/ j.files.lock = j.files.pin)
    /\ \A x \in Assets : j.built[x] # 0 => j.built[x] = j.sha

CommitInv == \A r \in Runs : Committed(job[r])

\* Where nothing is combined there is nothing to check.
LEMMA NoJobCommitted == Committed(NoJob)
BY DEF Committed, NoJob

\* No run is the developer.
LEMMA DevIsNoRun == Dev \notin Runs /\ Dev \in Procs /\ Runs \subseteq Procs
BY DEF Dev, Runs, Procs

\* A step puts a job in the place of one job and leaves the others.
LEMMA PutCommit ==
    ASSUME TypeInv, CommitInv, NEW p \in Procs, NEW j, p \in Runs => Committed(j),
           job' = [job EXCEPT ![p] = j]
    PROVE  CommitInv'
<1> SUFFICES ASSUME NEW r \in Runs PROVE Committed(job'[r])
  BY DEF CommitInv, Committed
<1>1. job'[r] = IF r = p THEN j ELSE job[r]
  BY DevIsNoRun DEF TypeInv
<1> QED
  BY <1>1 DEF CommitInv

\* A step that leaves alone what a run was asked, combined and built.
LEMMA KeepCommit ==
    ASSUME TypeInv, CommitInv, NEW p \in Procs, NEW j, job' = [job EXCEPT ![p] = j],
           \/ j = NoJob
           \/ /\ j.write = job[p].write /\ j.rewrite = job[p].rewrite
              /\ j.files = job[p].files /\ j.sha = job[p].sha /\ j.built = job[p].built
    PROVE  CommitInv'
<1>1. p \in Runs => Committed(j)
  BY NoJobCommitted DEF CommitInv, Committed
<1> QED
  BY <1>1, PutCommit

LEMMA GoCommit ==
    ASSUME TypeInv, CommitInv, NEW p \in Procs, NEW s \in Steps, Go(p, s)
    PROVE  CommitInv'
<1> DEFINE j == [job[p] EXCEPT !.at = s, !.leased = FALSE, !.lease = 0]
<1>1. /\ j.write = job[p].write /\ j.rewrite = job[p].rewrite
      /\ j.files = job[p].files /\ j.sha = job[p].sha /\ j.built = job[p].built
  BY DEF TypeInv, Job
<1>2. job' = [job EXCEPT ![p] = j]
  BY DEF Go
<1> HIDE DEF j
<1> QED
  BY <1>1, <1>2, KeepCommit

LEMMA StopCommit ==
    ASSUME TypeInv, CommitInv, NEW p \in Procs, Stop(p)
    PROVE  CommitInv'
<1> DEFINE k == [job[p] EXCEPT !.at = "failed", !.failedAt = job[p].at, !.leased = FALSE, !.lease = 0]
           j == IF p = Dev THEN NoJob ELSE k
<1>1. /\ k.write = job[p].write /\ k.rewrite = job[p].rewrite
      /\ k.files = job[p].files /\ k.sha = job[p].sha /\ k.built = job[p].built
  BY DEF TypeInv, Job
<1>2. job' = [job EXCEPT ![p] = j]
  BY DEF Stop
<1> HIDE DEF k
<1>3. j = NoJob \/ j = k
  OBVIOUS
<1> HIDE DEF j
<1> QED
  BY <1>1, <1>2, <1>3, KeepCommit

\* A run is queued with nothing combined.
LEMMA QueuedCommit ==
    ASSUME TypeInv, CommitInv, NEW r \in Runs, NEW w \in BOOLEAN, Queued(r, w)
    PROVE  CommitInv'
<1> DEFINE j == [NoJob EXCEPT !.at = "pick", !.files = main', !.rewrite = w]
<1>1. Committed(j)
  BY DEF Committed, NoJob
<1>2. job' = [job EXCEPT ![r] = j]
  BY DEF Queued
<1> HIDE DEF j
<1> QED
  BY <1>1, <1>2, PutCommit, DevIsNoRun

\* People queue runs and start commands; they change no run.
LEMMA PeopleCommit ==
    ASSUME TypeInv, CommitInv, People
    PROVE  CommitInv'
<1>1. CASE UNCHANGED job
  BY <1>1 DEF CommitInv, Committed
<1>2. CASE RunLocally
  <2>1. PICK j : job' = [job EXCEPT ![Dev] = j]
    BY <1>2 DEF RunLocally
  <2> QED
    BY <2>1, PutCommit, DevIsNoRun
<1>3. CASE \E r \in Runs, w \in BOOLEAN : Queued(r, w)
  BY <1>3, QueuedCommit
<1>4. UNCHANGED job \/ RunLocally \/ \E r \in Runs, w \in BOOLEAN : Queued(r, w)
  BY DEF People, HeadMoves, Repin, Commit, Dispatch, Publish, Freeze, MergeReview, DeleteBase
<1> QED
  BY <1>1, <1>2, <1>3, <1>4

\* Combine is where a run's stack is decided, and reconcile_lock is why it is
\* the one that was committed.
LEMMA CombineCommit ==
    ASSUME TypeInv, CommitInv, NEW p \in Procs, Combine(p)
    PROVE  CommitInv'
<1>1. CASE Stop(p)
  BY <1>1, StopCommit
<1>2. CASE ~LockRefuses(p) /\ job' = [job EXCEPT ![p] = NoJob]
  BY <1>2, KeepCommit
<1>3. CASE ~LockRefuses(p) /\ job' = [job EXCEPT ![p] = [@ EXCEPT !.sha = job[p].files.pin, !.at = "base"]]
  <2> DEFINE j == [job[p] EXCEPT !.sha = job[p].files.pin, !.at = "base"]
  <2>1. /\ j.write = job[p].write /\ j.rewrite = job[p].rewrite
        /\ j.files = job[p].files /\ j.sha = job[p].files.pin /\ j.built = job[p].built
    BY DEF TypeInv, Job
  <2>2. job' = [job EXCEPT ![p] = j]
    BY <1>3
  <2> HIDE DEF j
  <2>3. ASSUME p \in Runs
        PROVE  Committed(j)
    BY <1>3, <2>1, <2>3 DEF CommitInv, Committed, LockRefuses
  <2> QED
    BY <2>2, <2>3, PutCommit
<1>4. \/ Stop(p)
      \/ /\ ~LockRefuses(p)
         /\ job' = [job EXCEPT ![p] = IF job[p].dry THEN NoJob
                                      ELSE [@ EXCEPT !.sha = job[p].files.pin, !.at = "base"]]
  BY DEF Combine
<1> QED
  BY <1>1, <1>2, <1>3, <1>4

LEMMA StackPyCommit ==
    ASSUME TypeInv, CommitInv, NEW p \in Procs, StackPy(p)
    PROVE  CommitInv'
<1>1. CASE EnsureBase(p)
  BY <1>1, GoCommit, StopCommit DEF EnsureBase, Steps, JobSteps, StackSteps
<1>2. CASE ReadRef(p)
  <2> DEFINE j == [job[p] EXCEPT !.leased = TRUE, !.lease = fork[job[p].at]]
  <2>1. /\ j.write = job[p].write /\ j.rewrite = job[p].rewrite
        /\ j.files = job[p].files /\ j.sha = job[p].sha /\ j.built = job[p].built
    BY DEF TypeInv, Job
  <2>2. job' = [job EXCEPT ![p] = j]
    BY <1>2 DEF ReadRef
  <2> HIDE DEF j
  <2> QED
    BY <2>1, <2>2, KeepCommit
<1>3. CASE PushRef(p)
  BY <1>3, GoCommit, StopCommit DEF PushRef, Steps, JobSteps, StackSteps
<1>4. CASE Review(p)
  BY <1>4, GoCommit, KeepCommit DEF Review, Steps, JobSteps
<1> QED
  BY <1>1, <1>2, <1>3, <1>4, CombineCommit DEF StackPy

\* The jobs build what the run combined.
LEMMA WorkflowCommit ==
    ASSUME TypeInv, CommitInv, NEW r \in Runs, Workflow(r)
    PROVE  CommitInv'
<1>0. r \in Procs /\ job[r] \in Job /\ Committed(job[r])
  BY DEF TypeInv, Procs, CommitInv
<1>1. CASE Pick(r) \/ Notes(r)
  BY <1>0, <1>1, GoCommit DEF Pick, Notes, Steps, JobSteps, StackSteps
<1>2. ASSUME NEW x \in Assets, NEW s \in Steps,
             job' = [job EXCEPT ![r].built[x] = job[r].sha, ![r].at = s]
      PROVE  CommitInv'
  <2> DEFINE j == [job[r] EXCEPT !.built[x] = job[r].sha, !.at = s]
  <2>1. /\ j.write = job[r].write /\ j.rewrite = job[r].rewrite
        /\ j.files = job[r].files /\ j.sha = job[r].sha
        /\ j.built = [job[r].built EXCEPT ![x] = job[r].sha]
    BY <1>0 DEF Job
  <2>2. job' = [job EXCEPT ![r] = j]
    BY <1>0, <1>2 DEF TypeInv
  <2> HIDE DEF j
  <2>3. Committed(j)
    BY <1>0, <2>1 DEF Job, Committed
  <2> QED
    BY <1>0, <2>2, <2>3, PutCommit
<1>3. ASSUME NEW a \in Arches, Build(r, a)
      PROVE  CommitInv'
  <2> DEFINE j == [job[r] EXCEPT !.built[a] = job[r].sha]
  <2>1. /\ j.write = job[r].write /\ j.rewrite = job[r].rewrite
        /\ j.files = job[r].files /\ j.sha = job[r].sha
        /\ j.built = [job[r].built EXCEPT ![a] = job[r].sha]
    BY <1>0 DEF Job
  <2>2. job' = [job EXCEPT ![r] = j]
    BY <1>0, <1>3 DEF Build, TypeInv
  <2> HIDE DEF j
  <2>3. Committed(j)
    BY <1>0, <2>1 DEF Job, Committed
  <2> QED
    BY <1>0, <2>2, <2>3, PutCommit
<1>4. CASE Checksum(r)
  BY <1>2, <1>4 DEF Checksum, Assets, Steps, JobSteps
<1>5. ASSUME NEW x \in Assets, Upload(r, x)
      PROVE  CommitInv'
  <2> DEFINE at == IF job[r].sent \cup {x} = Assets THEN "done" ELSE job[r].at
             j == [job[r] EXCEPT !.sent = job[r].sent \cup {x}, !.at = at]
  <2> HIDE DEF at
  <2>1. /\ j.write = job[r].write /\ j.rewrite = job[r].rewrite
        /\ j.files = job[r].files /\ j.sha = job[r].sha /\ j.built = job[r].built
    BY <1>0 DEF Job
  <2>2. job' = [job EXCEPT ![r] = j]
    BY <1>0, <1>5 DEF Upload, TypeInv, at
  <2> HIDE DEF j
  <2> QED
    BY <1>0, <2>1, <2>2, KeepCommit
<1> QED
  BY <1>1, <1>3, <1>4, <1>5 DEF Workflow

\* A re-run starts over with nothing built, or with what its attempt built.
LEMMA RerunCommit ==
    ASSUME TypeInv, CommitInv, NEW r \in Runs, Rerun(r)
    PROVE  CommitInv'
<1>0. r \in Procs /\ job[r] \in Job /\ Committed(job[r])
  BY DEF TypeInv, Procs, CommitInv
<1>1. PICK step \in JobSteps \cup {"none"} :
         job' = [job EXCEPT ![r].at = step, ![r].sent = {},
                   ![r].built = IF step \in {"build", "notes"} THEN @ ELSE NoJob.built]
  BY <1>0 DEF Rerun, Job, JobSteps, StackSteps
<1> DEFINE b == IF step \in {"build", "notes"} THEN job[r].built ELSE NoJob.built
           j == [job[r] EXCEPT !.at = step, !.sent = {}, !.built = b]
<1>2. b = job[r].built \/ b = [x \in Assets |-> 0]
  BY DEF NoJob
<1> HIDE DEF b
<1>3. /\ j.write = job[r].write /\ j.rewrite = job[r].rewrite
      /\ j.files = job[r].files /\ j.sha = job[r].sha /\ j.built = b
  BY <1>0 DEF Job
<1>4. job' = [job EXCEPT ![r] = j]
  BY <1>1 DEF b
<1> HIDE DEF j
<1>5. Committed(j)
  BY <1>0, <1>2, <1>3 DEF Job, Committed
<1> QED
  BY <1>0, <1>4, <1>5, PutCommit

LEMMA NextCommit ==
    ASSUME TypeInv, CommitInv, [Next]_vars
    PROVE  CommitInv'
<1>1. CASE UNCHANGED vars
  BY <1>1 DEF vars, CommitInv, Committed
<1>2. ASSUME NEW p \in Procs, Fault(p)
      PROVE  CommitInv'
  BY <1>2, StopCommit DEF Fault
<1> QED
  BY <1>1, <1>2, PeopleCommit, StackPyCommit, WorkflowCommit, RerunCommit DEF Next

\* What a run built is what it combined and, unless it was asked to rewrite,
\* the stack that was committed (release.yml:146): for any number of runs at
\* once, developers who push meanwhile, and failures and re-runs.
THEOREM ExactCommitCorrect == Spec => []ExactCommit
<1>1. Init => TypeInv /\ CommitInv
  <2>1. Init => CommitInv
    BY NoJobCommitted, DevIsNoRun DEF Init, CommitInv
  <2> QED
    BY <2>1, InitType
<1>2. TypeInv /\ CommitInv /\ [Next]_vars => TypeInv' /\ CommitInv'
  BY NextType, NextCommit
<1>3. TypeInv /\ CommitInv => ExactCommit
  BY DEF CommitInv, Committed, ExactCommit
<1> QED
  BY <1>1, <1>2, <1>3, PTL DEF Spec

-----------------------------------------------------------------------------
(* A published release stays what it is *)

\* What a run or a command may still be doing once the release is published
\* unless it was asked to rewrite: a run that was queued for the frozen
\* manifest and will be skipped, or a command that will be refused or runs dry.
RunEnds(j) ==
    j.at \in JobSteps /\ ~j.rewrite => j.at = "pick" /\ j.files.frozen
DevEnds(j) ==
    j.at \in JobSteps /\ ~j.rewrite => j.at = "combine" /\ (j.dry \/ j.files.frozen)
\* A run that failed since then failed to read the frozen manifest.
FailedFrozen(j) ==
    j.at = "failed" /\ ~j.rewrite => j.files.frozen /\ j.failedAt = "pick"

\* Until the manifest is frozen on main nothing runs and only the freeze is
\* left to commit; after that every checkout has it frozen.
PublishedInv ==
    release.state = "published" =>
        /\ IF main.frozen
           THEN copy.frozen
           ELSE /\ copy = main \/ copy = [main EXCEPT !.frozen = TRUE]
                /\ \A p \in Procs : job[p].at \notin JobSteps
                /\ last \in Runs => job[last].at # "failed"
        /\ \A r \in Runs : RunEnds(job[r])
        /\ DevEnds(job[Dev])
        /\ last \in Runs => FailedFrozen(job[last])

LEMMA StepNames ==
    /\ JobSteps = {"pick", "combine", "base", "mirror", "branch", "review", "build", "notes", "upload"}
    /\ {"idle", "done", "failed", "skipped", "none"} \cap JobSteps = {}
BY DEF JobSteps, StackSteps

\* Every run is a job, and a failed one is not active.
LEMMA StepFacts ==
    /\ {"failed", "skipped", "idle", "done"} \cap JobSteps = {}
    /\ {"pick", "combine"} \subseteq JobSteps
    /\ NoJob.at = "idle"
BY DEF JobSteps, StackSteps, NoJob

\* Publishing finds nothing running and the checkout committed.
LEMMA PublishStep ==
    ASSUME Serial, TypeInv, Publish
    PROVE  PublishedInv'
<1>1. /\ copy = main /\ UNCHANGED <<copy, main, job, last>>
      /\ last \in Runs /\ job[last].at = "done"
      /\ \A p \in Procs : job[p].at \notin JobSteps
  BY DEF Publish, Offered, Quiet, Active
<1> QED
  BY <1>1, StepFacts, DevIsNoRun DEF PublishedInv, RunEnds, DevEnds, FailedFrozen, TypeInv, Files

\* What people do to a published release: freeze its manifest, and after that
\* commit, re-pin, run and dispatch what is frozen.
LEMMA PeoplePublished ==
    ASSUME Serial, TypeInv, PublishedInv, release.state = "published", People
    PROVE  PublishedInv' /\ UNCHANGED <<release, fork>>
<1>1. CASE UNCHANGED <<copy, main, job, last, release, fork>>
  BY <1>1 DEF PublishedInv, RunEnds, DevEnds, FailedFrozen
<1>2. CASE Repin
  BY <1>2 DEF Repin, Free, forkVars, PublishedInv, RunEnds, DevEnds, FailedFrozen, TypeInv, Files
<1>3. CASE RunLocally
  <2>1. PICK write \in BOOLEAN, rewrite \in BOOLEAN, dry \in {TRUE, ~DevPushes} :
          job' = [job EXCEPT ![Dev] = [NoJob EXCEPT !.at = "combine", !.files = copy,
                      !.write = write, !.rewrite = rewrite, !.dry = dry]]
    BY <1>3 DEF RunLocally
  <2> DEFINE j == [NoJob EXCEPT !.at = "combine", !.files = copy,
                     !.write = write, !.rewrite = rewrite, !.dry = dry]
  <2>2. main.frozen /\ copy.frozen
    BY <1>3 DEF RunLocally, Free, PublishedInv
  <2>3. DevEnds(j)
    <3>1. j.at = "combine" /\ j.files = copy /\ j.rewrite = rewrite /\ j.dry = dry
      BY NoJobType DEF Job
    <3> HIDE DEF j
    <3> QED
      BY <2>1, <2>2, <3>1 DEF DevEnds
  <2>4. job' = [job EXCEPT ![Dev] = j]
    BY <2>1
  <2> HIDE DEF j
  <2>5. job'[Dev] = j /\ \A r \in Runs : job'[r] = job[r]
    BY <2>4, DevIsNoRun DEF TypeInv
  <2>6. UNCHANGED <<copy, main, last, release, fork>>
    BY <1>3 DEF RunLocally, forkVars
  <2> QED
    BY <2>2, <2>3, <2>5, <2>6 DEF PublishedInv, RunEnds, FailedFrozen
<1>4. ASSUME NEW r \in Runs, NEW w \in BOOLEAN, Queued(r, w), main'.frozen, copy'.frozen, UNCHANGED <<release, fork>>
      PROVE  PublishedInv' /\ UNCHANGED <<release, fork>>
  <2> DEFINE j == [NoJob EXCEPT !.at = "pick", !.files = main', !.rewrite = w]
  <2>1. RunEnds(j) /\ j.at = "pick"
    BY <1>4 DEF RunEnds, NoJob
  <2>2. job' = [job EXCEPT ![r] = j] /\ last' = r
    BY <1>4 DEF Queued
  <2> HIDE DEF j
  <2>3. job'[r] = j /\ \A p \in Procs \ {r} : job'[p] = job[p]
    BY <2>2, DevIsNoRun DEF TypeInv
  <2> QED
    BY <1>4, <2>1, <2>2, <2>3, DevIsNoRun DEF PublishedInv, RunEnds, DevEnds, FailedFrozen
<1>5. CASE Commit
  <2>1. main'.frozen /\ copy'.frozen
    BY <1>5 DEF Commit, PublishedInv, TypeInv, Files
  <2>2. CASE UNCHANGED <<job, last>>
    BY <1>5, <2>1, <2>2 DEF Commit, forkVars, PublishedInv, RunEnds, DevEnds, FailedFrozen
  <2> QED
    BY <1>4, <1>5, <2>1, <2>2 DEF Commit, forkVars
<1>6. CASE Dispatch
  <2>1. main'.frozen /\ copy'.frozen
    BY <1>6 DEF Dispatch, Free, PublishedInv
  <2>2. PICK r \in Runs, w \in BOOLEAN : Queued(r, w)
    BY <1>6 DEF Dispatch
  <2> QED
    BY <1>4, <1>6, <2>1, <2>2 DEF Dispatch, forkVars
<1>7. CASE Freeze
  BY <1>7 DEF Freeze, forkVars, PublishedInv, RunEnds, DevEnds, FailedFrozen, TypeInv, Files
<1> QED
  BY <1>1, <1>2, <1>3, <1>5, <1>6, <1>7
  DEF People, HeadMoves, Publish, MergeReview, DeleteBase, forkVars

\* A step of a run or of a command that was still active.
LEMMA EndsStep ==
    ASSUME TypeInv, PublishedInv, release.state = "published", NEW p \in Procs,
           job[p].at \in JobSteps, \A q \in Procs \ {p} : job'[q] = job[q],
           IF p = Dev THEN DevEnds(job'[p]) ELSE RunEnds(job'[p]) /\ FailedFrozen(job'[p]),
           main' = main, last' = last, copy'.frozen = copy.frozen
    PROVE  PublishedInv'
<1>1. main.frozen /\ copy.frozen
  BY DEF PublishedInv
<1>2. \A r \in Runs : RunEnds(job'[r])
  BY DevIsNoRun DEF PublishedInv
<1>3. DevEnds(job'[Dev])
  BY DevIsNoRun DEF PublishedInv
<1>4. last \in Runs => FailedFrozen(job'[last])
  BY DevIsNoRun DEF PublishedInv
<1> QED
  BY <1>1, <1>2, <1>3, <1>4 DEF PublishedInv

\* The job of p is replaced, and what it was asked stays: a rewriting one may do
\* what it likes.
LEMMA RewriteStep ==
    ASSUME TypeInv, PublishedInv, release.state = "published", NEW p \in Procs, NEW j,
           job[p].at \in JobSteps, job' = [job EXCEPT ![p] = j],
           j = NoJob \/ j.rewrite,
           main' = main, last' = last, copy'.frozen = copy.frozen
    PROVE  PublishedInv'
<1>1. job'[p] = j /\ \A q \in Procs \ {p} : job'[q] = job[q]
  BY DEF TypeInv
<1>2. DevEnds(j) /\ RunEnds(j) /\ FailedFrozen(j)
  BY StepFacts DEF DevEnds, RunEnds, FailedFrozen
<1> QED
  BY <1>1, <1>2, EndsStep

\* The gate, a push or the review by whoever was asked to rewrite.
LEMMA StackPyRewrites ==
    ASSUME TypeInv, PublishedInv, release.state = "published", NEW p \in Procs, StackPy(p),
           job[p].rewrite
    PROVE  PublishedInv'
<1>1. /\ job[p].at \in JobSteps /\ job[p] \in Job
      /\ main' = main /\ last' = last /\ copy'.frozen = copy.frozen
  BY StepNames DEF StackPy, Combine, EnsureBase, ReadRef, PushRef, Review, forkVars, TypeInv, Files
<1>2. ASSUME NEW step, Go(p, step) PROVE PublishedInv'
  <2> DEFINE j == [job[p] EXCEPT !.at = step, !.leased = FALSE, !.lease = 0]
  <2>1. job' = [job EXCEPT ![p] = j]
    BY <1>2 DEF Go
  <2>2. j.rewrite
    BY <1>1 DEF Job
  <2> HIDE DEF j
  <2> QED
    BY <1>1, <2>1, <2>2, RewriteStep
<1>3. ASSUME Stop(p) PROVE PublishedInv'
  <2> DEFINE k == [job[p] EXCEPT !.at = "failed", !.failedAt = job[p].at, !.leased = FALSE, !.lease = 0]
             j == IF p = Dev THEN NoJob ELSE k
  <2>1. job' = [job EXCEPT ![p] = j]
    BY <1>3 DEF Stop
  <2>2. k.rewrite
    BY <1>1 DEF Job
  <2>3. j = NoJob \/ j.rewrite
    BY <2>2
  <2> HIDE DEF j
  <2> QED
    BY <1>1, <2>1, <2>3, RewriteStep
<1>4. ASSUME job' = [job EXCEPT ![p] = NoJob] PROVE PublishedInv'
  BY <1>1, <1>4, RewriteStep
<1>5. CASE Combine(p)
  <2>1. CASE Stop(p) \/ job' = [job EXCEPT ![p] = NoJob]
    BY <1>3, <1>4, <2>1
  <2>2. CASE ~(Stop(p) \/ job' = [job EXCEPT ![p] = NoJob])
    <3> DEFINE j == [job[p] EXCEPT !.sha = job[p].files.pin, !.at = "base"]
    <3>1. job' = [job EXCEPT ![p] = j]
      BY <1>5, <2>2 DEF Combine
    <3>2. j.rewrite
      BY <1>1 DEF Job
    <3> HIDE DEF j
    <3> QED
      BY <1>1, <3>1, <3>2, RewriteStep
  <2> QED
    BY <2>1, <2>2
<1>6. CASE EnsureBase(p)
  BY <1>2, <1>3, <1>6 DEF EnsureBase
<1>7. CASE ReadRef(p)
  <2> DEFINE j == [job[p] EXCEPT !.leased = TRUE, !.lease = fork[job[p].at]]
  <2>1. job' = [job EXCEPT ![p] = j]
    BY <1>7 DEF ReadRef
  <2>2. j.rewrite
    BY <1>1 DEF Job
  <2> HIDE DEF j
  <2> QED
    BY <1>1, <2>1, <2>2, RewriteStep
<1>8. CASE PushRef(p)
  BY <1>2, <1>3, <1>8 DEF PushRef
<1>9. CASE Review(p)
  BY <1>2, <1>4, <1>9 DEF Review
<1> QED
  BY <1>5, <1>6, <1>7, <1>8, <1>9 DEF StackPy

LEMMA StackPyPublished ==
    ASSUME TypeInv, PublishedInv, release.state = "published", NEW p \in Procs, StackPy(p)
    PROVE  PublishedInv' /\ (~Restamping => UNCHANGED <<release, fork>>)
<1>0. job[p].at \in JobSteps
  BY StepNames DEF StackPy, Combine, EnsureBase, ReadRef, PushRef, Review
<1>1. CASE job[p].rewrite
  BY <1>0, <1>1, StackPyRewrites DEF Restamping, Active
<1>2. CASE ~job[p].rewrite
  <2>1. p = Dev /\ job[p].at = "combine" /\ (job[p].dry \/ FrozenRefuses(p))
    BY <1>0, <1>2 DEF StackPy, Combine, EnsureBase, ReadRef, PushRef, Review, PublishedInv, RunEnds, DevEnds,
         JobSteps, StackSteps, Procs, FrozenRefuses
  <2>2. Combine(p)
    BY <2>1 DEF StackPy, EnsureBase, ReadRef, PushRef, Review
  <2>3. job' = [job EXCEPT ![p] = NoJob]
    BY <2>1, <2>2 DEF Combine, Stop
  <2>4. UNCHANGED <<main, last, release, fork>> /\ copy'.frozen = copy.frozen
    BY <2>2 DEF Combine, forkVars, TypeInv, Files
  <2> QED
    BY <1>0, <2>3, <2>4, RewriteStep
<1> QED
  BY <1>1, <1>2

\* A job of the workflow in a run that was asked to rewrite.
LEMMA WorkflowRewrites ==
    ASSUME TypeInv, PublishedInv, release.state = "published", NEW r \in Runs, Workflow(r),
           job[r].rewrite
    PROVE  PublishedInv'
<1>0. r \in Procs /\ r # Dev /\ job[r] \in Job
  BY DevIsNoRun DEF TypeInv
<1>1. job[r].at \in JobSteps /\ UNCHANGED <<main, last, copy>>
  BY StepNames DEF Workflow, Pick, Build, Checksum, Notes, Upload
<1>2. ASSUME NEW step, Go(r, step) PROVE PublishedInv'
  <2> DEFINE j == [job[r] EXCEPT !.at = step, !.leased = FALSE, !.lease = 0]
  <2>1. job' = [job EXCEPT ![r] = j]
    BY <1>2 DEF Go
  <2>2. j.rewrite
    BY <1>0 DEF Job
  <2> HIDE DEF j
  <2> QED
    BY <1>0, <1>1, <2>1, <2>2, RewriteStep
<1>3. ASSUME NEW a \in Arches, Build(r, a) PROVE PublishedInv'
  <2> DEFINE j == [job[r] EXCEPT !.built[a] = job[r].sha]
  <2>1. job' = [job EXCEPT ![r] = j]
    BY <1>3 DEF Build
  <2>2. j.rewrite
    BY <1>0 DEF Job
  <2> HIDE DEF j
  <2> QED
    BY <1>0, <1>1, <2>1, <2>2, RewriteStep
<1>4. ASSUME Checksum(r) PROVE PublishedInv'
  <2> DEFINE j == [job[r] EXCEPT !.built["sums"] = job[r].sha, !.at = "notes"]
  <2>1. job' = [job EXCEPT ![r] = j]
    BY <1>4 DEF Checksum
  <2>2. j.rewrite
    BY <1>0 DEF Job
  <2> HIDE DEF j
  <2> QED
    BY <1>0, <1>1, <2>1, <2>2, RewriteStep
<1>5. ASSUME NEW x \in Assets, Upload(r, x) PROVE PublishedInv'
  <2> DEFINE sent == job[r].sent \cup {x}
             j == [job[r] EXCEPT !.sent = sent, !.at = IF sent = Assets THEN "done" ELSE job[r].at]
  <2>1. job' = [job EXCEPT ![r] = j]
    BY <1>5 DEF Upload
  <2>2. j.rewrite
    BY <1>0 DEF Job
  <2> HIDE DEF j
  <2> QED
    BY <1>0, <1>1, <2>1, <2>2, RewriteStep
<1> QED
  BY <1>2, <1>3, <1>4, <1>5 DEF Workflow, Pick, Notes

LEMMA WorkflowPublished ==
    ASSUME TypeInv, PublishedInv, release.state = "published", NEW r \in Runs, Workflow(r)
    PROVE  PublishedInv' /\ (~Restamping => UNCHANGED <<release, fork>>)
<1>0. r \in Procs /\ r # Dev /\ RunEnds(job[r]) /\ job[r] \in Job
  BY DevIsNoRun DEF PublishedInv, TypeInv
<1>1. job[r].at \in JobSteps
  BY StepNames DEF Workflow, Pick, Build, Checksum, Notes, Upload
<1>2. CASE job[r].rewrite
  BY <1>0, <1>1, <1>2, WorkflowRewrites DEF Restamping, Active
<1>3. CASE ~job[r].rewrite
  <2>1. job[r].at = "pick" /\ job[r].files.frozen
    BY <1>0, <1>1, <1>3 DEF RunEnds
  <2>2. Pick(r)
    BY <2>1 DEF Workflow, Build, Checksum, Notes, Upload
  <2> DEFINE j == [job[r] EXCEPT !.at = "skipped", !.leased = FALSE, !.lease = 0]
  <2>3. job' = [job EXCEPT ![r] = j]
    BY <1>3, <2>1, <2>2 DEF Pick, Go
  <2>4. j.at = "skipped"
    BY <1>0 DEF Job
  <2> HIDE DEF j
  <2>5. job'[r] = j /\ \A q \in Procs \ {r} : job'[q] = job[q]
    BY <1>0, <2>3 DEF TypeInv
  <2>6. RunEnds(j) /\ FailedFrozen(j)
    BY <2>4, StepFacts DEF RunEnds, FailedFrozen
  <2>7. UNCHANGED <<main, copy, last, release, fork>>
    BY <2>2 DEF Pick, forkVars
  <2> QED
    BY <1>0, <1>1, <2>5, <2>6, <2>7, EndsStep
<1> QED
  BY <1>2, <1>3

LEMMA FaultPublished ==
    ASSUME TypeInv, PublishedInv, release.state = "published", NEW p \in Procs, Fault(p)
    PROVE  PublishedInv' /\ UNCHANGED <<release, fork>>
<1>1. job[p].at \in JobSteps /\ UNCHANGED <<main, copy, last, release, fork>>
  BY DEF Fault, Active, forkVars
<1> DEFINE k == [job[p] EXCEPT !.at = "failed", !.failedAt = job[p].at, !.leased = FALSE, !.lease = 0]
           j == IF p = Dev THEN NoJob ELSE k
<1>2. job' = [job EXCEPT ![p] = j]
  BY DEF Fault, Stop
<1>3. k.at = "failed" /\ k.failedAt = job[p].at /\ k.files = job[p].files /\ k.rewrite = job[p].rewrite
  BY DEF TypeInv, Job
<1> HIDE DEF k
<1>4. IF p = Dev THEN DevEnds(j) ELSE RunEnds(j) /\ FailedFrozen(j)
  <2>1. CASE p # Dev
    <3>1. p \in Runs
      BY <2>1 DEF Procs
    <3> QED
      BY <1>1, <1>3, <2>1, <3>1, StepFacts DEF PublishedInv, RunEnds, FailedFrozen
  <2>2. CASE p = Dev
    BY <2>2, StepFacts DEF DevEnds
  <2> QED
    BY <2>1, <2>2
<1> HIDE DEF j
<1>5. job'[p] = j /\ \A q \in Procs \ {p} : job'[q] = job[q]
  BY <1>2 DEF TypeInv
<1> QED
  BY <1>1, <1>4, <1>5, EndsStep

\* What failed to read the frozen manifest reads it again; a run that was asked
\* to rewrite goes on with that.
LEMMA RerunPublished ==
    ASSUME Serial, TypeInv, PublishedInv, release.state = "published", NEW r \in Runs, Rerun(r)
    PROVE  PublishedInv' /\ UNCHANGED <<release, fork>>
<1>0. r \in Procs /\ r # Dev /\ job[r] \in Job
  BY DevIsNoRun DEF TypeInv
<1>1. r = last /\ job[r].at = "failed" /\ UNCHANGED <<main, copy, last, release, fork>>
  BY DEF Rerun, forkVars
<1>2. main.frozen /\ FailedFrozen(job[r])
  BY <1>1 DEF PublishedInv
<1> DEFINE j(step) == [job[r] EXCEPT !.at = step, !.sent = {},
                        !.built = IF step \in {"build", "notes"} THEN job[r].built ELSE NoJob.built]
<1>3. PICK step : /\ job' = [job EXCEPT ![r] = j(step)]
                  /\ step \in {"pick", "combine", "notes", job[r].failedAt}
                  /\ job[r].failedAt = "pick" => step = "pick"
  BY DEF Rerun, StackSteps
<1>4. /\ j(step).at = step /\ j(step).files = job[r].files /\ j(step).rewrite = job[r].rewrite
  BY <1>0 DEF Job
<1>5. job'[r] = j(step) /\ \A q \in Procs \ {r} : job'[q] = job[q]
  BY <1>0, <1>3 DEF TypeInv
<1> HIDE DEF j
<1>6. RunEnds(job'[r]) /\ (~job[r].rewrite => FailedFrozen(job'[r]))
  BY <1>1, <1>2, <1>3, <1>4, <1>5 DEF RunEnds, FailedFrozen
<1>7. FailedFrozen(job'[r])
  BY <1>4, <1>5, <1>6 DEF FailedFrozen
<1> QED
  BY <1>0, <1>1, <1>2, <1>5, <1>6, <1>7, DevIsNoRun DEF PublishedInv

LEMMA NextPublished ==
    ASSUME Serial, TypeInv, PublishedInv, [Next]_vars
    PROVE  PublishedInv' /\ (release.state = "published" /\ ~Restamping => UNCHANGED <<release, fork>>)
<1>1. CASE UNCHANGED vars
  BY <1>1 DEF vars, forkVars, PublishedInv, RunEnds, DevEnds, FailedFrozen
<1>2. CASE Next /\ release.state = "published"
  BY <1>2, PeoplePublished, StackPyPublished, WorkflowPublished, FaultPublished, RerunPublished DEF Next
<1>3. CASE Next /\ release.state # "published"
  <2>1. CASE Publish
    BY <1>3, <2>1, PublishStep
  <2>2. CASE ~Publish
    <3>1. release'.state # "published"
      BY <1>3, <2>2
      DEF Next, People, StackPy, Workflow, HeadMoves, Repin, RunLocally, Commit, Dispatch, Freeze,
          MergeReview, DeleteBase, Combine, EnsureBase, ReadRef, PushRef, Review,
          Pick, Build, Checksum, Notes, Upload, Fault, Rerun, TypeInv
    <3> QED
      BY <1>3, <3>1 DEF PublishedInv
  <2> QED
    BY <1>3, <2>1, <2>2
<1> QED
  BY <1>1, <1>2, <1>3

\* "A published tag whose branch has moved is the drift this whole pipeline
\* exists to prevent, so a mismatch stops the run unless it is explicitly
\* authorised." (stack.py:397)  As long as people wait for a run to end before
\* they go on, and freeze what they published, nothing of a published release
\* changes, nor do the refs it was built from, except while somebody told to
\* rewrite it is at it, for any number of runs, re-runs, restamps, moves of the
\* pull request and failures.
THEOREM PublishedFixedCorrect == Serial => (Spec => PublishedFixed)
<1> SUFFICES ASSUME Serial PROVE Spec => PublishedFixed
  OBVIOUS
<1>1. Init => TypeInv /\ PublishedInv
  <2>1. Init => PublishedInv
    BY DEF Init, PublishedInv
  <2> QED
    BY <2>1, InitType
<1>2. TypeInv /\ PublishedInv /\ [Next]_vars => TypeInv' /\ PublishedInv'
  BY NextType, NextPublished
<1>3. TypeInv /\ PublishedInv /\ [Next]_vars
        => [release.state = "published" /\ ~Restamping => UNCHANGED <<release, fork>>]_vars
  BY NextPublished
<1> QED
  BY <1>1, <1>2, <1>3, PTL DEF Spec, PublishedFixed

-----------------------------------------------------------------------------
(* What a job has behind it *)

\* The step of a job that failed is the one it failed at.
Step(j) == IF j.at = "failed" THEN j.failedAt ELSE j.at

\* A lease is held for the push it was read for; a job past combine has a
\* stack, one past build has built everything, and one that is done has
\* uploaded everything.
Sound(j) ==
    /\ j.at # "none" /\ (j.at = "failed" => j.failedAt \in JobSteps)
    /\ j.leased => j.at \in {"mirror", "branch"}
    /\ (Step(j) \in JobSteps \ {"pick", "combine"} \/ Step(j) = "done") => j.sha # 0
    /\ Step(j) \in {"notes", "upload", "done"} => \A x \in Assets : j.built[x] # 0
    /\ j.at \in JobSteps \ {"upload"} => j.sent = {}
    /\ j.at = "done" => j.sent = Assets

SoundInv == \A p \in Procs : Sound(job[p])

LEMMA NoJobSound == Sound(NoJob)
BY StepNames DEF Sound, Step, NoJob

LEMMA PutSound ==
    ASSUME TypeInv, SoundInv, NEW p \in Procs, NEW j, Sound(j), job' = [job EXCEPT ![p] = j]
    PROVE  SoundInv'
<1> SUFFICES ASSUME NEW q \in Procs PROVE Sound(job'[q])
  BY DEF SoundInv, Sound, Step
<1>1. job'[q] = IF q = p THEN j ELSE job[q]
  BY DEF TypeInv
<1> QED
  BY <1>1 DEF SoundInv

\* A job that goes on has what its next step needs.
LEMMA GoSound ==
    ASSUME TypeInv, SoundInv, NEW p \in Procs, NEW s \in JobSteps \cup {"skipped"}, Go(p, s),
           s \notin {"pick", "combine", "skipped"} => job[p].sha # 0,
           s \in {"notes", "upload"} => \A x \in Assets : job[p].built[x] # 0,
           job[p].at \in JobSteps \ {"upload"}
    PROVE  SoundInv'
<1> DEFINE j == [job[p] EXCEPT !.at = s, !.leased = FALSE, !.lease = 0]
<1>1. /\ j.at = s /\ ~j.leased /\ j.sha = job[p].sha /\ j.built = job[p].built /\ j.sent = job[p].sent
  BY DEF TypeInv, Job
<1>2. job' = [job EXCEPT ![p] = j]
  BY DEF Go
<1> HIDE DEF j
<1>3. job[p].sent = {}
  BY DEF SoundInv, Sound
<1>4. Sound(j)
  BY <1>1, <1>3, StepNames DEF Sound, Step
<1> QED
  BY <1>2, <1>4, PutSound

LEMMA StopSound ==
    ASSUME TypeInv, SoundInv, NEW p \in Procs, Stop(p), job[p].at \in JobSteps
    PROVE  SoundInv'
<1> DEFINE k == [job[p] EXCEPT !.at = "failed", !.failedAt = job[p].at, !.leased = FALSE, !.lease = 0]
           j == IF p = Dev THEN NoJob ELSE k
<1>1. /\ k.at = "failed" /\ k.failedAt = job[p].at /\ ~k.leased
      /\ k.sha = job[p].sha /\ k.built = job[p].built
  BY DEF TypeInv, Job
<1>2. job' = [job EXCEPT ![p] = j]
  BY DEF Stop
<1> HIDE DEF k
<1>3. Sound(k)
  BY <1>1, StepNames DEF Sound, Step, SoundInv
<1>4. Sound(j)
  BY <1>3, NoJobSound
<1> HIDE DEF j
<1> QED
  BY <1>2, <1>4, PutSound

LEMMA PeopleSound ==
    ASSUME TypeInv, SoundInv, People
    PROVE  SoundInv'
<1>1. CASE UNCHANGED job
  BY <1>1 DEF SoundInv, Sound, Step
<1>2. CASE RunLocally
  <2>1. PICK write \in BOOLEAN, rewrite \in BOOLEAN, dry \in {TRUE, ~DevPushes} :
          job' = [job EXCEPT ![Dev] = [NoJob EXCEPT !.at = "combine", !.files = copy,
                    !.write = write, !.rewrite = rewrite, !.dry = dry]]
    BY <1>2 DEF RunLocally
  <2> DEFINE j == [NoJob EXCEPT !.at = "combine", !.files = copy,
                    !.write = write, !.rewrite = rewrite, !.dry = dry]
  <2>2. j.at = "combine" /\ ~j.leased /\ j.sent = {}
    BY DEF NoJob
  <2> HIDE DEF j
  <2>3. Sound(j)
    BY <2>2, StepNames DEF Sound, Step
  <2> QED
    BY <2>1, <2>3, PutSound, DevIsNoRun DEF j
<1>3. ASSUME NEW r \in Runs, NEW w \in BOOLEAN, Queued(r, w)
      PROVE  SoundInv'
  <2> DEFINE j == [NoJob EXCEPT !.at = "pick", !.files = main', !.rewrite = w]
  <2>1. j.at = "pick" /\ ~j.leased /\ j.sent = {}
    BY DEF NoJob
  <2>2. job' = [job EXCEPT ![r] = j]
    BY <1>3 DEF Queued
  <2> HIDE DEF j
  <2>3. Sound(j)
    BY <2>1, StepNames DEF Sound, Step
  <2> QED
    BY <2>2, <2>3, PutSound, DevIsNoRun
<1>4. UNCHANGED job \/ RunLocally \/ \E r \in Runs, w \in BOOLEAN : Queued(r, w)
  BY DEF People, HeadMoves, Repin, Commit, Dispatch, Publish, Freeze, MergeReview, DeleteBase
<1> QED
  BY <1>1, <1>2, <1>3, <1>4

LEMMA StackPySound ==
    ASSUME TypeInv, SoundInv, NEW p \in Procs, StackPy(p)
    PROVE  SoundInv'
<1>0. job[p] \in Job /\ Sound(job[p])
  BY DEF TypeInv, SoundInv
<1>1. CASE Combine(p)
  <2>1. CASE Stop(p)
    BY <1>1, <2>1, StopSound, StepNames DEF Combine
  <2>2. CASE job' = [job EXCEPT ![p] = NoJob]
    BY <2>2, NoJobSound, PutSound
  <2>3. CASE job' = [job EXCEPT ![p] = [@ EXCEPT !.sha = job[p].files.pin, !.at = "base"]]
    <3> DEFINE j == [job[p] EXCEPT !.sha = job[p].files.pin, !.at = "base"]
    <3>1. j.sha = job[p].files.pin /\ j.at = "base" /\ j.leased = job[p].leased /\ j.sent = job[p].sent
      BY <1>0 DEF Job
    <3>2. job[p].files.pin # 0 /\ ~job[p].leased /\ job[p].sent = {}
      BY <1>0, <1>1, StepNames DEF Combine, Sound, Job, Files
    <3>3. job' = [job EXCEPT ![p] = j]
      BY <2>3
    <3> HIDE DEF j
    <3>4. Sound(j)
      BY <3>1, <3>2, StepNames DEF Sound, Step
    <3> QED
      BY <3>3, <3>4, PutSound
  <2> QED
    BY <1>1, <2>1, <2>2, <2>3 DEF Combine
<1>2. CASE EnsureBase(p)
  <2>1. job[p].sha # 0
    BY <1>0, <1>2, StepNames DEF EnsureBase, Sound, Step
  <2> QED
    BY <1>2, <2>1, GoSound, StopSound, StepNames DEF EnsureBase
<1>3. CASE ReadRef(p)
  <2> DEFINE j == [job[p] EXCEPT !.leased = TRUE, !.lease = fork[job[p].at]]
  <2>1. /\ j.at = job[p].at /\ j.failedAt = job[p].failedAt /\ j.sha = job[p].sha
        /\ j.built = job[p].built /\ j.sent = job[p].sent
    BY <1>0 DEF Job
  <2>2. job' = [job EXCEPT ![p] = j]
    BY <1>0, <1>3 DEF ReadRef, TypeInv
  <2> HIDE DEF j
  <2>3. Sound(j)
    BY <1>0, <1>3, <2>1 DEF Sound, Step, ReadRef
  <2> QED
    BY <2>2, <2>3, PutSound
<1>4. CASE PushRef(p)
  <2>1. job[p].at \in {"mirror", "branch"} /\ job[p].sha # 0
    BY <1>0, <1>4, StepNames DEF PushRef, Sound, Step
  <2> QED
    BY <1>4, <2>1, GoSound, StopSound, StepNames DEF PushRef
<1>5. CASE Review(p)
  <2>1. job[p].at = "review" /\ job[p].sha # 0
    BY <1>0, <1>5, StepNames DEF Review, Sound, Step
  <2> QED
    BY <1>5, <2>1, GoSound, PutSound, NoJobSound, StepNames DEF Review
<1> QED
  BY <1>1, <1>2, <1>3, <1>4, <1>5 DEF StackPy

LEMMA WorkflowSound ==
    ASSUME TypeInv, SoundInv, NEW r \in Runs, Workflow(r)
    PROVE  SoundInv'
<1>0. r \in Procs /\ job[r] \in Job /\ Sound(job[r])
  BY DevIsNoRun DEF TypeInv, SoundInv
<1>1. CASE Pick(r)
  BY <1>0, <1>1, GoSound, StepNames DEF Pick
<1>2. CASE Notes(r)
  BY <1>0, <1>2, GoSound, StepNames DEF Notes, Sound, Step
<1>3. ASSUME NEW a \in Arches, Build(r, a)
      PROVE  SoundInv'
  <2> DEFINE j == [job[r] EXCEPT !.built[a] = job[r].sha]
  <2>1. j.at = "build" /\ j.leased = job[r].leased /\ j.sha = job[r].sha /\ j.sent = job[r].sent
    BY <1>0, <1>3 DEF Job, Build
  <2>2. job' = [job EXCEPT ![r] = j]
    BY <1>0, <1>3 DEF Build, TypeInv
  <2> HIDE DEF j
  <2>3. Sound(j)
    BY <1>0, <1>3, <2>1, StepNames DEF Sound, Step, Build
  <2> QED
    BY <1>0, <2>2, <2>3, PutSound
<1>4. CASE Checksum(r)
  <2> DEFINE j == [job[r] EXCEPT !.built["sums"] = job[r].sha, !.at = "notes"]
  <2>1. /\ j.at = "notes" /\ j.leased = job[r].leased /\ j.sha = job[r].sha /\ j.sent = job[r].sent
        /\ j.built = [job[r].built EXCEPT !["sums"] = job[r].sha]
    BY <1>0 DEF Job
  <2>2. job' = [job EXCEPT ![r] = j]
    BY <1>0, <1>4 DEF Checksum, TypeInv
  <2> HIDE DEF j
  <2>3. job[r].sha # 0 /\ ~job[r].leased /\ job[r].sent = {} /\ \A a \in Arches : job[r].built[a] # 0
    BY <1>0, <1>4, StepNames DEF Sound, Step, Checksum
  <2>4. \A x \in Assets : j.built[x] # 0
    BY <1>0, <2>1, <2>3 DEF Assets, Job
  <2>5. Sound(j)
    BY <2>1, <2>3, <2>4, StepNames DEF Sound, Step
  <2> QED
    BY <1>0, <2>2, <2>5, PutSound
<1>5. ASSUME NEW x \in Assets, Upload(r, x)
      PROVE  SoundInv'
  <2> DEFINE at == IF job[r].sent \cup {x} = Assets THEN "done" ELSE "upload"
             j == [job[r] EXCEPT !.sent = job[r].sent \cup {x}, !.at = at]
  <2>1. at \in {"upload", "done"} /\ (at = "done" => job[r].sent \cup {x} = Assets)
    OBVIOUS
  <2> HIDE DEF at
  <2>2. /\ j.at = at /\ j.leased = job[r].leased /\ j.sha = job[r].sha
        /\ j.built = job[r].built /\ j.sent = job[r].sent \cup {x}
    BY <1>0 DEF Job
  <2>3. job' = [job EXCEPT ![r] = j]
    BY <1>0, <1>5 DEF Upload, TypeInv, at
  <2> HIDE DEF j
  <2>4. Sound(j)
    BY <1>0, <1>5, <2>1, <2>2, StepNames DEF Sound, Step, Upload
  <2> QED
    BY <1>0, <2>3, <2>4, PutSound
<1> QED
  BY <1>1, <1>2, <1>3, <1>4, <1>5 DEF Workflow

\* A re-run starts where what the attempt before it left is enough.
LEMMA RerunSound ==
    ASSUME TypeInv, SoundInv, NEW r \in Runs, Rerun(r)
    PROVE  SoundInv'
<1>0. r \in Procs /\ job[r] \in Job /\ Sound(job[r])
  BY DevIsNoRun DEF TypeInv, SoundInv
<1>1. PICK step \in {"pick", "combine", "build", "notes"} :
        /\ job' = [job EXCEPT ![r].at = step, ![r].sent = {},
                     ![r].built = IF step \in {"build", "notes"} THEN @ ELSE NoJob.built]
        /\ step = "build" => job[r].failedAt = "build"
        /\ step = "notes" => job[r].failedAt \in {"notes", "upload"}
  BY <1>0, StepNames DEF Rerun, Sound, StackSteps
<1> DEFINE b == IF step \in {"build", "notes"} THEN job[r].built ELSE NoJob.built
           j == [job[r] EXCEPT !.at = step, !.sent = {}, !.built = b]
<1>2. step \in {"build", "notes"} => b = job[r].built
  OBVIOUS
<1> HIDE DEF b
<1>3. /\ j.at = step /\ j.leased = job[r].leased /\ j.sha = job[r].sha /\ j.built = b /\ j.sent = {}
  BY <1>0 DEF Job
<1>4. job' = [job EXCEPT ![r] = j]
  BY <1>1 DEF b
<1> HIDE DEF j
<1>5. ~job[r].leased /\ job[r].at = "failed"
  BY <1>0 DEF Rerun, Sound
<1>6. Sound(j)
  BY <1>0, <1>1, <1>2, <1>3, <1>5, StepNames DEF Sound, Step
<1> QED
  BY <1>0, <1>4, <1>6, PutSound

LEMMA NextSound ==
    ASSUME TypeInv, SoundInv, [Next]_vars
    PROVE  SoundInv'
<1>1. CASE UNCHANGED vars
  BY <1>1 DEF vars, SoundInv, Sound, Step
<1>2. ASSUME NEW p \in Procs, Fault(p)
      PROVE  SoundInv'
  BY <1>2, StopSound DEF Fault, Active
<1> QED
  BY <1>1, <1>2, PeopleSound, StackPySound, WorkflowSound, RerunSound DEF Next

LEMMA InitSound == Init => SoundInv
BY NoJobSound DEF Init, SoundInv

\* What types leave open about the rest of the state.
RestInv ==
    /\ base \in {"absent", "tag", "merged"} /\ review \in StackIds
    /\ faults \in 0 .. MaxFaults

LEMMA NextRest ==
    ASSUME TypeInv, RestInv, [Next]_vars
    PROVE  RestInv'
<1> USE DEF RestInv, forkVars
<1>1. CASE UNCHANGED vars
  BY <1>1 DEF vars
<1>2. CASE People
  BY <1>2 DEF People, HeadMoves, Repin, RunLocally, Commit, Dispatch, Publish, Freeze, MergeReview, DeleteBase
<1>3. ASSUME NEW p \in Procs, StackPy(p)
      PROVE  RestInv'
  <2>1. job[p].sha \in StackIds
    BY DEF TypeInv, Job
  <2> QED
    BY <1>3, <2>1 DEF StackPy, Combine, EnsureBase, ReadRef, PushRef, Review
<1>4. ASSUME NEW p \in Procs, Fault(p)
      PROVE  RestInv'
  BY <1>4 DEF Fault
<1>5. ASSUME NEW r \in Runs, Workflow(r) \/ Rerun(r)
      PROVE  RestInv'
  BY <1>5 DEF Workflow, Pick, Build, Checksum, Notes, Upload, Rerun
<1> QED
  BY <1>1, <1>2, <1>3, <1>4, <1>5 DEF Next

\* Types, and the lease of push_ref: it is held only by a job that is about to
\* push the ref it was read of (stack.py:429), for any number of runs and
\* developers' commands in each other's way.
THEOREM TypeCorrect == Spec => []TypeOK
<1>1. Init => TypeInv /\ SoundInv /\ RestInv
  <2>1. Init => RestInv
    BY StackIdsFacts DEF Init, RestInv
  <2> QED
    BY <2>1, InitType, InitSound
<1>2. TypeInv /\ SoundInv /\ RestInv /\ [Next]_vars => TypeInv' /\ SoundInv' /\ RestInv'
  BY NextType, NextSound, NextRest
<1>3. TypeInv /\ SoundInv /\ RestInv => TypeOK
  <2> SUFFICES ASSUME TypeInv, SoundInv, RestInv PROVE TypeOK
    OBVIOUS
  <2>1. ASSUME NEW p \in Procs
        PROVE  /\ job[p].at \in JobSteps \cup {"idle", "done", "failed", "skipped"}
               /\ job[p].files \in Files /\ job[p].sha \in StackIds
               /\ job[p].leased => job[p].at \in {"mirror", "branch"}
    BY <2>1 DEF TypeInv, SoundInv, Sound, Job, Steps
  <2> QED
    BY <2>1 DEF TypeOK, TypeInv, RestInv, StackIds
<1> QED
  BY <1>1, <1>2, <1>3, PTL DEF Spec

-----------------------------------------------------------------------------
(* What a release consists of *)

\* The run that last left the queue is the only one that is active, and what
\* it has attached is what it built and the lock of its files.
Attached ==
    /\ release.notes = job[last].files.lock
    /\ \A x \in job[last].sent : release.assets[x] = job[last].built[x]
LastInv ==
    /\ \A r \in Runs : job[r].at \in JobSteps => r = last
    /\ last \in Runs /\ job[last].at \in {"upload", "done"} => Attached

\* A step that attaches nothing, of a job that is not attaching after it.
LEMMA KeepLast ==
    ASSUME TypeInv, LastInv, NEW p \in Procs, NEW j, job' = [job EXCEPT ![p] = j],
           j.at \notin {"upload", "done"}, p \in Runs /\ j.at \in JobSteps => p = last,
           last' = last, release' = release
    PROVE  LastInv'
<1>1. \A r \in Runs : job'[r] = IF r = p THEN j ELSE job[r]
  BY DevIsNoRun DEF TypeInv
<1> QED
  BY <1>1 DEF LastInv, Attached

\* A run leaves the queue, or is run again, when nothing else is active.
LEMMA StartLast ==
    ASSUME TypeInv, LastInv, NEW r \in Runs, NEW j, job' = [job EXCEPT ![r] = j],
           j.at \notin {"upload", "done"}, Quiet, last' = r, release' = release
    PROVE  LastInv'
<1>1. \A q \in Runs : job'[q] = IF q = r THEN j ELSE job[q]
  BY DevIsNoRun DEF TypeInv
<1> QED
  BY <1>1, DevIsNoRun DEF LastInv, Quiet, Active

LEMMA PeopleLast ==
    ASSUME Serial, TypeInv, LastInv, People
    PROVE  LastInv'
<1> USE DEF forkVars
<1>1. CASE UNCHANGED <<job, last, release>>
  BY <1>1 DEF LastInv, Attached
<1>2. CASE RunLocally
  <2>1. PICK write \in BOOLEAN, rewrite \in BOOLEAN, dry \in {TRUE, ~DevPushes} :
          job' = [job EXCEPT ![Dev] = [NoJob EXCEPT !.at = "combine", !.files = copy,
                    !.write = write, !.rewrite = rewrite, !.dry = dry]]
    BY <1>2 DEF RunLocally
  <2> DEFINE j == [NoJob EXCEPT !.at = "combine", !.files = copy,
                    !.write = write, !.rewrite = rewrite, !.dry = dry]
  <2>2. j.at = "combine"
    BY DEF NoJob
  <2> HIDE DEF j
  <2>3. job' = [job EXCEPT ![Dev] = j] /\ last' = last /\ release' = release
    BY <1>2, <2>1 DEF RunLocally, j
  <2> QED
    BY <2>2, <2>3, KeepLast, DevIsNoRun
<1>3. ASSUME NEW r \in Runs, NEW w \in BOOLEAN, Queued(r, w), Quiet, release' = release
      PROVE  LastInv'
  <2> DEFINE j == [NoJob EXCEPT !.at = "pick", !.files = main', !.rewrite = w]
  <2>1. j.at = "pick"
    BY DEF NoJob
  <2>2. job' = [job EXCEPT ![r] = j] /\ last' = r
    BY <1>3 DEF Queued
  <2> HIDE DEF j
  <2> QED
    BY <1>3, <2>1, <2>2, StartLast
<1>4. CASE Publish
  <2>1. /\ UNCHANGED <<job, last>> /\ release'.notes = release.notes
        /\ release'.assets = release.assets
    BY <1>4 DEF Publish, TypeInv
  <2> QED
    BY <2>1 DEF LastInv, Attached
<1>5. CASE Commit \/ Dispatch
  BY <1>1, <1>3, <1>5 DEF Commit, Dispatch, Free
<1> QED
  BY <1>1, <1>2, <1>4, <1>5 DEF People, HeadMoves, Repin, Freeze, MergeReview, DeleteBase

\* Steps of a job that is active and does not attach.
LEMMA GoLast ==
    ASSUME TypeInv, LastInv, NEW p \in Procs, NEW s \in (JobSteps \cup {"skipped"}) \ {"upload"}, Go(p, s),
           job[p].at \in JobSteps, last' = last, release' = release
    PROVE  LastInv'
<1> DEFINE j == [job[p] EXCEPT !.at = s, !.leased = FALSE, !.lease = 0]
<1>1. j.at = s
  BY DEF TypeInv, Job
<1>2. job' = [job EXCEPT ![p] = j]
  BY DEF Go
<1> HIDE DEF j
<1> QED
  BY <1>1, <1>2, KeepLast, StepNames DEF LastInv

LEMMA StopLast ==
    ASSUME TypeInv, LastInv, NEW p \in Procs, Stop(p), job[p].at \in JobSteps,
           last' = last, release' = release
    PROVE  LastInv'
<1> DEFINE k == [job[p] EXCEPT !.at = "failed", !.failedAt = job[p].at, !.leased = FALSE, !.lease = 0]
           j == IF p = Dev THEN NoJob ELSE k
<1>1. k.at = "failed"
  BY DEF TypeInv, Job
<1>2. job' = [job EXCEPT ![p] = j]
  BY DEF Stop
<1> HIDE DEF k
<1>3. j.at \in {"failed", "idle"}
  BY <1>1 DEF NoJob
<1> HIDE DEF j
<1> QED
  BY <1>2, <1>3, KeepLast, StepNames

LEMMA StackPyLast ==
    ASSUME TypeInv, LastInv, NEW p \in Procs, StackPy(p)
    PROVE  LastInv'
<1>0. job[p] \in Job /\ NoJob.at = "idle"
  BY DEF TypeInv, NoJob
<1>1. job[p].at \in JobSteps /\ last' = last /\ release' = release
  BY StepNames DEF StackPy, Combine, EnsureBase, ReadRef, PushRef, Review
<1>2. CASE job' = [job EXCEPT ![p] = NoJob]
  BY <1>0, <1>1, <1>2, KeepLast, StepNames
<1>3. CASE Combine(p)
  <2>1. CASE job' = [job EXCEPT ![p] = [@ EXCEPT !.sha = job[p].files.pin, !.at = "base"]]
    <3> DEFINE j == [job[p] EXCEPT !.sha = job[p].files.pin, !.at = "base"]
    <3>1. j.at = "base" /\ job' = [job EXCEPT ![p] = j]
      BY <1>0, <2>1 DEF Job
    <3> HIDE DEF j
    <3> QED
      BY <1>1, <3>1, KeepLast DEF LastInv
  <2> QED
    BY <1>1, <1>2, <1>3, <2>1, StopLast DEF Combine
<1>4. CASE ReadRef(p)
  <2> DEFINE j == [job[p] EXCEPT !.leased = TRUE, !.lease = fork[job[p].at]]
  <2>1. j.at = job[p].at
    BY <1>0 DEF Job
  <2>2. job' = [job EXCEPT ![p] = j]
    BY <1>0, <1>4 DEF ReadRef, TypeInv
  <2> HIDE DEF j
  <2> QED
    BY <1>1, <1>4, <2>1, <2>2, KeepLast DEF LastInv, ReadRef
<1>5. CASE EnsureBase(p) \/ PushRef(p) \/ Review(p)
  BY <1>1, <1>2, <1>5, GoLast, StopLast, StepNames DEF EnsureBase, PushRef, Review
<1> QED
  BY <1>3, <1>4, <1>5 DEF StackPy

\* What the last run attaches is its own.
LEMMA WorkflowLast ==
    ASSUME TypeInv, SoundInv, LastInv, NEW r \in Runs, Workflow(r)
    PROVE  LastInv'
<1> USE DEF forkVars
<1>0. r \in Procs /\ job[r] \in Job /\ Sound(job[r])
  BY DevIsNoRun DEF TypeInv, SoundInv
<1>1. last' = last /\ job[r].at \in JobSteps /\ r = last
  BY StepNames DEF Workflow, Pick, Build, Checksum, Notes, Upload, LastInv
<1>2. ASSUME NEW j, job' = [job EXCEPT ![r] = j]
      PROVE  job'[r] = j /\ \A q \in Runs : q # r => job'[q] = job[q]
  BY <1>0, <1>2, DevIsNoRun DEF TypeInv
<1>3. CASE Pick(r)
  BY <1>0, <1>1, <1>3, GoLast, StepNames DEF Pick
<1>4. ASSUME NEW a \in Arches, Build(r, a)
      PROVE  LastInv'
  <2> DEFINE j == [job[r] EXCEPT !.built[a] = job[r].sha]
  <2>1. j.at = "build"
    BY <1>0, <1>4 DEF Job, Build
  <2>2. job' = [job EXCEPT ![r] = j] /\ release' = release
    BY <1>0, <1>4 DEF Build, TypeInv
  <2> HIDE DEF j
  <2> QED
    BY <1>0, <1>1, <2>1, <2>2, KeepLast
<1>5. CASE Checksum(r)
  <2> DEFINE j == [job[r] EXCEPT !.built["sums"] = job[r].sha, !.at = "notes"]
  <2>1. j.at = "notes"
    BY <1>0 DEF Job
  <2>2. job' = [job EXCEPT ![r] = j] /\ release' = release
    BY <1>0, <1>5 DEF Checksum, TypeInv
  <2> HIDE DEF j
  <2> QED
    BY <1>0, <1>1, <2>1, <2>2, KeepLast
<1>6. CASE Notes(r)
  <2> DEFINE j == [job[r] EXCEPT !.at = "upload", !.leased = FALSE, !.lease = 0]
  <2>1. j.at = "upload" /\ j.files = job[r].files /\ j.sent = job[r].sent
    BY <1>0 DEF Job
  <2>2. job' = [job EXCEPT ![r] = j] /\ release'.notes = job[r].files.lock
    BY <1>6 DEF Notes, Go, TypeInv
  <2> HIDE DEF j
  <2>3. job[r].sent = {}
    BY <1>0, <1>6, StepNames DEF Notes, Sound
  <2>4. Attached'
    BY <1>1, <1>2, <2>1, <2>2, <2>3 DEF Attached
  <2> QED
    BY <1>1, <1>2, <2>2, <2>4 DEF LastInv
<1>7. ASSUME NEW x \in Assets, Upload(r, x)
      PROVE  LastInv'
  <2> DEFINE at == IF job[r].sent \cup {x} = Assets THEN "done" ELSE "upload"
             j == [job[r] EXCEPT !.sent = job[r].sent \cup {x}, !.at = at]
  <2> HIDE DEF at
  <2>2. j.files = job[r].files /\ j.built = job[r].built /\ j.sent = job[r].sent \cup {x}
    BY <1>0 DEF Job
  <2>3. job' = [job EXCEPT ![r] = j]
    BY <1>0, <1>7 DEF Upload, TypeInv, at
  <2> HIDE DEF j
  <2>4. release'.notes = release.notes /\ release'.assets = [release.assets EXCEPT ![x] = job[r].built[x]]
    BY <1>7 DEF Upload, TypeInv
  <2>5. Attached
    BY <1>1, <1>7 DEF LastInv, Upload
  <2>6. Attached'
    BY <1>0, <1>1, <1>2, <2>2, <2>3, <2>4, <2>5 DEF Attached, TypeInv, Job
  <2> QED
    BY <1>1, <1>2, <2>3, <2>6 DEF LastInv
<1> QED
  BY <1>3, <1>4, <1>5, <1>6, <1>7 DEF Workflow

LEMMA NextLast ==
    ASSUME Serial, TypeInv, SoundInv, LastInv, [Next]_vars
    PROVE  LastInv'
<1>1. CASE UNCHANGED vars
  BY <1>1 DEF vars, LastInv, Attached
<1>2. ASSUME NEW p \in Procs, Fault(p)
      PROVE  LastInv'
  BY <1>2, StopLast DEF Fault, Active
<1>3. ASSUME NEW r \in Runs, Rerun(r)
      PROVE  LastInv'
  <2>1. PICK step \in JobSteps \ {"upload"} :
          /\ job' = [job EXCEPT ![r].at = step, ![r].sent = {},
                       ![r].built = IF step \in {"build", "notes"} THEN @ ELSE NoJob.built]
          /\ Quiet /\ last' = r /\ release' = release
    BY <1>3, StepNames, DevIsNoRun DEF Rerun, SoundInv, Sound, StackSteps
  <2> DEFINE b == IF step \in {"build", "notes"} THEN job[r].built ELSE NoJob.built
             j == [job[r] EXCEPT !.at = step, !.sent = {}, !.built = b]
  <2>2. job' = [job EXCEPT ![r] = j]
    BY <2>1
  <2> HIDE DEF b
  <2>3. j.at = step
    BY DevIsNoRun DEF TypeInv, Job
  <2> HIDE DEF j
  <2> QED
    BY <2>1, <2>2, <2>3, StartLast, StepNames
<1> QED
  BY <1>1, <1>2, <1>3, PeopleLast, StackPyLast, WorkflowLast DEF Next

\* What holds as long as people wait for a run to end before they go on.
ReleaseInv == TypeInv /\ CommitInv /\ SoundInv /\ LastInv

LEMMA ReleaseInductive ==
    ASSUME Serial
    PROVE  Spec => []ReleaseInv
<1>1. Init => ReleaseInv
  <2>1. Init => CommitInv /\ LastInv
    BY NoJobCommitted, DevIsNoRun, StepNames DEF Init, CommitInv, LastInv, NoJob
  <2> QED
    BY <2>1, InitType, InitSound DEF ReleaseInv
<1>2. ReleaseInv /\ [Next]_vars => ReleaseInv'
  BY NextType, NextCommit, NextSound, NextLast DEF ReleaseInv
<1> QED
  BY <1>1, <1>2, PTL DEF Spec

\* "One run produces one release" (release.yml:3): every asset of a release
\* that is offered for publishing is of the stack the last run combined, for
\* any number of runs, arches, failures and re-runs.
THEOREM OneReleaseCorrect == Serial => (Spec => []OneRelease)
<1> SUFFICES ASSUME Serial PROVE Spec => []OneRelease
  OBVIOUS
<1>1. ReleaseInv => OneRelease
  <2> SUFFICES ASSUME ReleaseInv, last \in Runs, job[last].at = "done"
               PROVE  \A x \in Assets : release.assets[x] = job[last].sha /\ job[last].sha # 0
    BY DEF OneRelease, Offered
  <2>1. Sound(job[last]) /\ Committed(job[last]) /\ Attached
    BY DevIsNoRun DEF ReleaseInv, SoundInv, CommitInv, LastInv
  <2> QED
    BY <2>1 DEF Sound, Step, Committed, Attached
<1> QED
  BY <1>1, ReleaseInductive, PTL

\* "runsc --version on a node must match the Version stamp in the release
\* notes" (docs/RELEASING.md:115), unless the run was asked to rewrite.
THEOREM StampAsPromisedCorrect == Serial => (Spec => []StampAsPromised)
<1> SUFFICES ASSUME Serial PROVE Spec => []StampAsPromised
  OBVIOUS
<1>1. ReleaseInv => StampAsPromised
  <2> SUFFICES ASSUME ReleaseInv, last \in Runs, job[last].at = "done", ~job[last].rewrite
               PROVE  \A x \in Assets : release.assets[x] = release.notes
    BY DEF StampAsPromised, Offered, Assets
  <2>1. Sound(job[last]) /\ Committed(job[last]) /\ Attached
    BY DevIsNoRun DEF ReleaseInv, SoundInv, CommitInv, LastInv
  <2> QED
    BY <2>1 DEF Sound, Step, Committed, Attached
<1> QED
  BY <1>1, ReleaseInductive, PTL

-----------------------------------------------------------------------------
(* What the world sees of the tag *)

\* The refs that a run or a command has pushed.
Pushed(j) ==
    IF Step(j) = "branch" THEN {"mirror"}
    ELSE IF Step(j) \in {"review", "build", "notes", "upload", "done"} THEN {"mirror", "branch"}
    ELSE {}

\* Pins only move on, from the checkout to main and to what runs.
PinsOf(j) ==
    /\ j.files.pin <= copy.pin
    /\ j.sha # 0 => j.sha = j.files.pin
    /\ j.at = "upload" => release.state # "none"

\* Only one job is active.  While the checkout is pinned to what the last run
\* was queued for, the refs which that run has pushed are still its stack: only
\* a checkout that was re-pinned can have replaced them.
TagInv ==
    /\ \A p, q \in Procs : job[p].at \in JobSteps /\ job[q].at \in JobSteps => p = q
    /\ copy.pin <= head /\ main.pin <= copy.pin
    /\ \A p \in Procs : PinsOf(job[p])
    /\ job[Dev].at \in JobSteps => job[Dev].files.pin = copy.pin
    /\ last \in Runs /\ copy.pin = job[last].files.pin =>
          \A ref \in Pushed(job[last]) : fork[ref] = copy.pin

LEMMA PinTypes ==
    ASSUME TypeInv
    PROVE  /\ head \in Nat /\ copy.pin \in Nat /\ main.pin \in Nat
           /\ \A p \in Procs : job[p].files.pin \in Nat
BY DEF TypeInv, Files, Job

\* A step of one job.
LEMMA PutTag ==
    ASSUME TypeInv, TagInv, NEW p \in Procs, NEW j, job' = [job EXCEPT ![p] = j],
           head' = head, main' = main, last' = last, copy'.pin = copy.pin,
           release.state # "none" => release'.state # "none",
           j.at \in JobSteps => job[p].at \in JobSteps /\ j.files = job[p].files,
           j.files.pin <= copy.pin, j.sha # 0 => j.sha = j.files.pin,
           j.at = "upload" => release'.state # "none",
           p = last /\ last \in Runs /\ copy.pin = j.files.pin =>
              \A ref \in Pushed(j) : fork'[ref] = copy.pin,
           p # last => \A ref \in {"mirror", "branch"} : fork'[ref] \in {fork[ref], copy.pin}
    PROVE  TagInv'
<1>1. job'[p] = j /\ \A q \in Procs \ {p} : job'[q] = job[q]
  BY DEF TypeInv
<1>2. \A q, r \in Procs : job'[q].at \in JobSteps /\ job'[r].at \in JobSteps => q = r
  BY <1>1 DEF TagInv
<1>3. copy'.pin <= head' /\ main'.pin <= copy'.pin
  BY DEF TagInv
<1>4. \A q \in Procs : PinsOf(job[q])'
  <2> SUFFICES ASSUME NEW q \in Procs
               PROVE  /\ job'[q].files.pin <= copy'.pin
                      /\ job'[q].sha # 0 => job'[q].sha = job'[q].files.pin
                      /\ job'[q].at = "upload" => release'.state # "none"
    BY DEF PinsOf
  <2>1. CASE q = p
    BY <1>1, <2>1
  <2>2. CASE q # p
    BY <1>1, <2>2 DEF TagInv, PinsOf
  <2> QED
    BY <2>1, <2>2
<1>5. job'[Dev].at \in JobSteps => job'[Dev].files.pin = copy'.pin
  BY <1>1, DevIsNoRun DEF TagInv
<1>6. ASSUME last' \in Runs, copy'.pin = job'[last'].files.pin
      PROVE  \A ref \in Pushed(job'[last']) : fork'[ref] = copy'.pin
  <2>1. CASE p = last
    BY <1>1, <1>6, <2>1
  <2>2. CASE p # last
    <3>1. job'[last] = job[last]
      BY <1>1, <1>6, <2>2, DevIsNoRun
    <3>2. \A ref \in Pushed(job[last]) : fork[ref] = copy.pin
      BY <1>6, <3>1 DEF TagInv
    <3>3. \A ref \in Pushed(job[last]) : fork'[ref] \in {fork[ref], copy.pin}
      BY <2>2 DEF Pushed
    <3> QED
      BY <3>1, <3>2, <3>3
  <2> QED
    BY <2>1, <2>2
<1> QED
  BY <1>2, <1>3, <1>4, <1>5, <1>6 DEF TagInv, Pushed, Step

\* A step that pushes nothing and after which a job is no further than before.
LEMMA RestTag ==
    ASSUME TypeInv, TagInv, NEW p \in Procs, NEW j, job' = [job EXCEPT ![p] = j],
           head' = head, main' = main, last' = last, copy'.pin = copy.pin, fork' = fork,
           release.state # "none" => release'.state # "none",
           j.at \in JobSteps => job[p].at \in JobSteps /\ j.files = job[p].files,
           j.files.pin <= copy.pin, j.sha # 0 => j.sha = j.files.pin,
           j.at = "upload" => release'.state # "none",
           p \in Runs => Pushed(j) \subseteq Pushed(job[p]) /\ j.files = job[p].files
    PROVE  TagInv'
<1>1. p = last /\ last \in Runs /\ copy.pin = j.files.pin =>
          \A ref \in Pushed(j) : fork'[ref] = copy.pin
  BY DEF TagInv
<1> QED
  BY <1>1, PutTag

LEMMA NoJobTag == ASSUME TypeInv PROVE NoJob.files.pin <= copy.pin /\ NoJob.sha = 0 /\ NoJob.at = "idle"
BY DEF NoJob, TypeInv, Files

LEMMA StopTag ==
    ASSUME TypeInv, TagInv, NEW p \in Procs, Stop(p), job[p].at \in JobSteps,
           UNCHANGED <<head, main, last, copy, fork, release>>
    PROVE  TagInv'
<1> DEFINE k == [job[p] EXCEPT !.at = "failed", !.failedAt = job[p].at, !.leased = FALSE, !.lease = 0]
           j == IF p = Dev THEN NoJob ELSE k
<1>1. /\ k.at = "failed" /\ k.failedAt = job[p].at /\ k.files = job[p].files /\ k.sha = job[p].sha
  BY DEF TypeInv, Job
<1>2. job' = [job EXCEPT ![p] = j]
  BY DEF Stop
<1> HIDE DEF k
<1>3. Step(k) = Step(job[p])
  BY <1>1, StepNames DEF Step
<1>4. Pushed(k) = Pushed(job[p])
  BY <1>3 DEF Pushed
<1>5. PinsOf(job[p])
  BY DEF TagInv
<1>6. /\ j.at \notin JobSteps /\ j.at # "upload"
      /\ j.files.pin <= copy.pin /\ (j.sha # 0 => j.sha = j.files.pin)
      /\ p \in Runs => j = k
  BY <1>1, <1>5, NoJobTag, StepNames, DevIsNoRun DEF PinsOf
<1> HIDE DEF j
<1> QED
  BY <1>1, <1>2, <1>4, <1>6, RestTag

\* A job that goes on to a step before which it has pushed the refs.
LEMMA GoTag ==
    ASSUME TypeInv, TagInv, NEW p \in Procs, NEW s \in JobSteps \cup {"skipped"}, Go(p, s),
           job[p].at \in JobSteps, UNCHANGED <<head, main, last, copy>>,
           release.state # "none" => release'.state # "none",
           s = "upload" => release'.state # "none",
           p = last /\ last \in Runs /\ copy.pin = job[p].files.pin =>
              \A ref \in {"mirror", "branch"} :
                 (ref = "mirror" /\ s = "branch") \/ s \in {"review", "build", "notes", "upload"}
                    => fork'[ref] = copy.pin,
           p # last => \A ref \in {"mirror", "branch"} : fork'[ref] \in {fork[ref], copy.pin}
    PROVE  TagInv'
<1> DEFINE j == [job[p] EXCEPT !.at = s, !.leased = FALSE, !.lease = 0]
<1>1. j.at = s /\ j.files = job[p].files /\ j.sha = job[p].sha
  BY DEF TypeInv, Job
<1>2. job' = [job EXCEPT ![p] = j]
  BY DEF Go
<1> HIDE DEF j
<1>3. PinsOf(job[p])
  BY DEF TagInv
<1>4. p = last /\ last \in Runs /\ copy.pin = j.files.pin =>
          \A ref \in Pushed(j) : fork'[ref] = copy.pin
  BY <1>1, StepNames DEF Pushed, Step
<1>5. /\ j.files.pin <= copy.pin /\ (j.sha # 0 => j.sha = j.files.pin)
      /\ j.at = "upload" => release'.state # "none"
      /\ j.at \in JobSteps => job[p].at \in JobSteps /\ j.files = job[p].files
  BY <1>1, <1>3 DEF PinsOf
<1> QED
  BY <1>2, <1>4, <1>5, PutTag

\* A job starts when nothing else is active.
LEMMA StartTag ==
    ASSUME TypeInv, TagInv, NEW p \in Procs, NEW j, job' = [job EXCEPT ![p] = j],
           Quiet, UNCHANGED <<head, copy, fork, release>>, main'.pin <= copy.pin,
           j.at \notin {"upload"}, j.files.pin = copy.pin \/ (p # Dev /\ j.files.pin <= copy.pin),
           j.sha # 0 => j.sha = j.files.pin,
           last' = p \/ (p = Dev /\ last' = last),
           p \in Runs => \A ref \in Pushed(j) : copy.pin = j.files.pin => fork[ref] = copy.pin
    PROVE  TagInv'
<1>1. job'[p] = j /\ \A q \in Procs \ {p} : job'[q] = job[q]
  BY DEF TypeInv
<1>2. \A q, r \in Procs : job'[q].at \in JobSteps /\ job'[r].at \in JobSteps => q = r
  BY <1>1 DEF Quiet, Active
<1>3. copy'.pin <= head' /\ main'.pin <= copy'.pin
  BY DEF TagInv
<1>4. \A q \in Procs : PinsOf(job[q])'
  <2> SUFFICES ASSUME NEW q \in Procs
               PROVE  /\ job'[q].files.pin <= copy'.pin
                      /\ job'[q].sha # 0 => job'[q].sha = job'[q].files.pin
                      /\ job'[q].at = "upload" => release'.state # "none"
    BY DEF PinsOf
  <2>1. CASE q = p
    BY <1>1, <2>1, PinTypes
  <2>2. CASE q # p
    BY <1>1, <2>2 DEF TagInv, PinsOf
  <2> QED
    BY <2>1, <2>2
<1>5. job'[Dev].at \in JobSteps => job'[Dev].files.pin = copy'.pin
  BY <1>1, DevIsNoRun DEF Quiet, Active
<1>6. ASSUME last' \in Runs, copy'.pin = job'[last'].files.pin
      PROVE  \A ref \in Pushed(job'[last']) : fork'[ref] = copy'.pin
  <2>1. CASE last' = p
    BY <1>1, <1>6, <2>1
  <2>2. CASE p = Dev /\ last' = last
    BY <1>1, <1>6, <2>2, DevIsNoRun DEF TagInv
  <2> QED
    BY <2>1, <2>2
<1> QED
  BY <1>2, <1>3, <1>4, <1>5, <1>6 DEF TagInv, Pushed, Step

LEMMA QueuedTag ==
    ASSUME TypeInv, TagInv, NEW r \in Runs, NEW w \in BOOLEAN, Queued(r, w), Quiet,
           UNCHANGED <<head, copy, fork, release>>, main' \in {main, copy}
    PROVE  TagInv'
<1> DEFINE j == [NoJob EXCEPT !.at = "pick", !.files = main', !.rewrite = w]
<1>1. j.at = "pick" /\ j.files = main' /\ j.sha = 0
  BY DEF NoJob
<1>2. job' = [job EXCEPT ![r] = j] /\ last' = r
  BY DEF Queued
<1> HIDE DEF j
<1>3. main'.pin <= copy.pin
  BY PinTypes DEF TagInv
<1>4. Pushed(j) = {}
  BY <1>1 DEF Pushed, Step
<1> QED
  BY <1>1, <1>2, <1>3, <1>4, DevIsNoRun, StartTag

\* Re-pinning moves the checkout beyond every pin a run was queued for.
LEMMA RepinTag ==
    ASSUME Serial, TypeInv, TagInv, Repin
    PROVE  TagInv'
<1>1. /\ Quiet /\ copy'.pin = head /\ copy.pin # head
      /\ UNCHANGED <<head, main, fork, release, job, last>>
  BY DEF Repin, Free, forkVars, TypeInv, Files
<1>2. copy.pin < head
  BY <1>1, PinTypes DEF TagInv
<1>3. \A p \in Procs : job[p].files.pin < head
  BY <1>2, PinTypes DEF TagInv, PinsOf
<1>4. copy'.pin <= head' /\ main'.pin <= copy'.pin
  BY <1>1, <1>2, PinTypes DEF TagInv
<1>5. \A p \in Procs : PinsOf(job[p])'
  BY <1>1, <1>3, PinTypes DEF TagInv, PinsOf
<1>6. last \in Runs => job[last].files.pin # copy'.pin
  BY <1>1, <1>3, PinTypes, DevIsNoRun
<1>7. /\ \A p, q \in Procs : job'[p].at \in JobSteps /\ job'[q].at \in JobSteps => p = q
      /\ job'[Dev].at \notin JobSteps
  BY <1>1, DevIsNoRun DEF Quiet, Active
<1>8. ~(last' \in Runs /\ copy'.pin = job'[last'].files.pin)
  BY <1>1, <1>6
<1> QED
  BY <1>4, <1>5, <1>7, <1>8 DEF TagInv

LEMMA PeopleTag ==
    ASSUME Serial, TypeInv, TagInv, People
    PROVE  TagInv'
<1> USE DEF forkVars
<1>1. ASSUME UNCHANGED <<job, last, fork>>, copy'.pin = copy.pin, copy.pin <= head', main'.pin <= copy.pin,
             release.state # "none" => release'.state # "none"
      PROVE  TagInv'
  BY <1>1 DEF TagInv, PinsOf, Pushed, Step
<1>2. CASE HeadMoves
  BY <1>1, <1>2, PinTypes DEF HeadMoves, TagInv
<1>3. CASE RunLocally
  <2>1. PICK write \in BOOLEAN, rewrite \in BOOLEAN, dry \in {TRUE, ~DevPushes} :
          job' = [job EXCEPT ![Dev] = [NoJob EXCEPT !.at = "combine", !.files = copy,
                    !.write = write, !.rewrite = rewrite, !.dry = dry]]
    BY <1>3 DEF RunLocally
  <2> DEFINE j == [NoJob EXCEPT !.at = "combine", !.files = copy,
                    !.write = write, !.rewrite = rewrite, !.dry = dry]
  <2>2. j.at = "combine" /\ j.files = copy /\ j.sha = 0
    BY DEF NoJob
  <2>3. job' = [job EXCEPT ![Dev] = j]
    BY <2>1
  <2> HIDE DEF j
  <2>4. Quiet /\ UNCHANGED <<head, copy, main, fork, release, last>>
    BY <1>3 DEF RunLocally, Free
  <2>5. main'.pin <= copy.pin
    BY <2>4 DEF TagInv
  <2> QED
    BY <2>2, <2>3, <2>4, <2>5, DevIsNoRun, StartTag
<1>4. CASE Commit
  <2>1. Quiet /\ main' = copy /\ UNCHANGED <<head, copy, fork, release>>
    BY <1>4 DEF Commit
  <2>2. CASE UNCHANGED <<job, last>>
    BY <1>1, <2>1, <2>2, PinTypes DEF TagInv
  <2>3. ASSUME NEW r \in Runs, Queued(r, FALSE)
        PROVE  TagInv'
    BY <2>1, <2>3, QueuedTag
  <2> QED
    BY <1>4, <2>2, <2>3 DEF Commit
<1>5. CASE Dispatch
  <2>1. Quiet /\ main' = main /\ UNCHANGED <<head, copy, fork, release>>
    BY <1>5 DEF Dispatch, Free
  <2>2. PICK r \in Runs, w \in BOOLEAN : Queued(r, w)
    BY <1>5 DEF Dispatch
  <2> QED
    BY <2>1, <2>2, QueuedTag
<1>6. CASE Publish
  <2>1. release'.state = "published"
    BY <1>6 DEF Publish, TypeInv
  <2> QED
    BY <1>1, <1>6, <2>1 DEF Publish, TagInv
<1>7. CASE Freeze
  <2>1. copy'.pin = copy.pin
    BY <1>7 DEF Freeze, TypeInv, Files
  <2> QED
    BY <1>1, <1>7, <2>1 DEF Freeze, TagInv
<1>8. CASE MergeReview \/ DeleteBase
  BY <1>1, <1>8 DEF MergeReview, DeleteBase, TagInv
<1> QED
  BY <1>2, <1>3, <1>4, <1>5, <1>6, <1>7, <1>8, RepinTag DEF People

LEMMA StackPyTag ==
    ASSUME TypeInv, CommitInv, SoundInv, LastInv, TagInv, NEW p \in Procs, StackPy(p)
    PROVE  TagInv'
<1> USE DEF forkVars
<1>0. job[p] \in Job /\ PinsOf(job[p]) /\ Sound(job[p])
  BY DEF TypeInv, TagInv, SoundInv
<1>1. job[p].at \in JobSteps /\ UNCHANGED <<head, main, last, release>>
  BY StepNames DEF StackPy, Combine, EnsureBase, ReadRef, PushRef, Review
<1>2. p # last => p = Dev
  BY <1>1 DEF LastInv, Procs
<1>3. CASE p = Dev /\ UNCHANGED fork /\ copy'.pin = copy.pin /\ job' = [job EXCEPT ![p] = NoJob]
  <2>1. NoJob.files.pin <= copy.pin /\ NoJob.sha = 0 /\ NoJob.at = "idle"
    BY NoJobTag
  <2> QED
    BY <1>1, <1>3, <2>1, RestTag, StepNames, DevIsNoRun
<1>4. CASE Combine(p)
  <2>1. CASE Stop(p) /\ UNCHANGED copy
    BY <1>1, <1>4, <2>1, StopTag DEF Combine
  <2>2. CASE ~(Stop(p) /\ UNCHANGED copy)
    <3>1. /\ copy' = IF p = Dev /\ job[p].write THEN [copy EXCEPT !.lock = job[p].files.pin] ELSE copy
          /\ job' = [job EXCEPT ![p] = IF job[p].dry THEN NoJob
                                        ELSE [job[p] EXCEPT !.sha = job[p].files.pin, !.at = "base"]]
          /\ UNCHANGED fork
      BY <1>0, <1>4, <2>2 DEF Combine, TypeInv
    <3>2. copy'.pin = copy.pin
      BY <3>1 DEF TypeInv, Files
    <3> DEFINE k == [job[p] EXCEPT !.sha = job[p].files.pin, !.at = "base"]
               j == IF job[p].dry THEN NoJob ELSE k
    <3>3. k.at = "base" /\ k.files = job[p].files /\ k.sha = job[p].files.pin
      BY <1>0 DEF Job
    <3>4. job' = [job EXCEPT ![p] = j]
      BY <3>1
    <3> HIDE DEF k
    <3>5. /\ j.at \in {"base", "idle"} /\ j.files.pin <= copy.pin /\ (j.sha # 0 => j.sha = j.files.pin)
          /\ j.at = "base" => j.files = job[p].files
      BY <1>0, <3>3, NoJobTag DEF PinsOf
    <3> HIDE DEF j
    <3>6. Pushed(j) = {}
      BY <3>5 DEF Pushed, Step
    <3> QED
      BY <1>1, <3>1, <3>2, <3>4, <3>5, <3>6, PutTag, StepNames
  <2> QED
    BY <2>1, <2>2
<1>5. CASE EnsureBase(p)
  <2>1. UNCHANGED <<copy, fork>>
    BY <1>5 DEF EnsureBase
  <2> QED
    BY <1>1, <1>5, <2>1, StopTag, GoTag, StepNames DEF EnsureBase
<1>6. CASE ReadRef(p)
  <2> DEFINE j == [job[p] EXCEPT !.leased = TRUE, !.lease = fork[job[p].at]]
  <2>1. j.at = job[p].at /\ j.files = job[p].files /\ j.sha = job[p].sha
    BY <1>0 DEF Job
  <2>2. job' = [job EXCEPT ![p] = j] /\ UNCHANGED <<copy, fork>>
    BY <1>0, <1>6 DEF ReadRef, TypeInv
  <2> HIDE DEF j
  <2>3. Pushed(j) = Pushed(job[p])
    BY <1>1, <2>1, StepNames DEF Pushed, Step
  <2> QED
    BY <1>0, <1>1, <2>1, <2>2, <2>3, RestTag DEF PinsOf
<1>7. CASE PushRef(p)
  <2>1. UNCHANGED copy /\ job[p].at \in {"mirror", "branch"}
    BY <1>7 DEF PushRef
  <2>2. CASE Stop(p) /\ UNCHANGED fork
    BY <1>1, <2>1, <2>2, StopTag
  <2>3. CASE /\ fork' = [fork EXCEPT ![job[p].at] = job[p].sha]
             /\ Go(p, IF job[p].at = "mirror" THEN "branch" ELSE "review")
    <3>1. job[p].sha = job[p].files.pin
      BY <1>0, <2>1, StepNames DEF Sound, Step, PinsOf
    <3>2. fork'[job[p].at] = job[p].files.pin
          /\ \A ref \in {"mirror", "branch"} : ref # job[p].at => fork'[ref] = fork[ref]
      BY <2>1, <2>3, <3>1 DEF TypeInv
    <3>3. p = Dev => job[p].files.pin = copy.pin
      BY <1>1 DEF TagInv
    <3>4. p # last => \A ref \in {"mirror", "branch"} : fork'[ref] \in {fork[ref], copy.pin}
      BY <1>2, <3>2, <3>3
    <3>5. CASE job[p].at = "mirror"
      <4>1. Go(p, "branch")
        BY <2>3, <3>5
      <4>2. p = last /\ last \in Runs /\ copy.pin = job[p].files.pin => fork'["mirror"] = copy.pin
        BY <3>2, <3>5
      <4> QED
        BY <1>1, <2>1, <3>4, <4>1, <4>2, GoTag, StepNames
    <3>6. CASE job[p].at = "branch"
      <4>1. Go(p, "review")
        BY <2>3, <3>6
      <4>2. ASSUME p = last, last \in Runs, copy.pin = job[p].files.pin
            PROVE  fork'["mirror"] = copy.pin /\ fork'["branch"] = copy.pin
        <5>1. "mirror" \in Pushed(job[p])
          BY <3>6 DEF Pushed, Step
        <5>2. fork["mirror"] = copy.pin
          BY <4>2, <5>1 DEF TagInv
        <5> QED
          BY <3>2, <3>6, <4>2, <5>2
      <4> QED
        BY <1>1, <2>1, <3>4, <4>1, <4>2, GoTag, StepNames
    <3> QED
      BY <2>1, <3>5, <3>6
  <2> QED
    BY <1>7, <2>2, <2>3 DEF PushRef
<1>8. CASE Review(p)
  <2>1. UNCHANGED <<copy, fork>> /\ job[p].at = "review"
    BY <1>8 DEF Review
  <2>2. CASE p = Dev
    BY <1>3, <1>8, <2>1, <2>2 DEF Review
  <2>3. CASE p # Dev
    <3>1. Go(p, "build") /\ Pushed(job[p]) = {"mirror", "branch"}
      BY <1>8, <2>1, <2>3 DEF Review, Pushed, Step
    <3>2. p = last /\ last \in Runs /\ copy.pin = job[p].files.pin =>
             \A ref \in {"mirror", "branch"} : fork'[ref] = copy.pin
      BY <2>1, <3>1 DEF TagInv
    <3> QED
      BY <1>1, <1>2, <2>1, <2>3, <3>1, <3>2, GoTag, StepNames
  <2> QED
    BY <2>2, <2>3
<1> QED
  BY <1>4, <1>5, <1>6, <1>7, <1>8 DEF StackPy

LEMMA WorkflowTag ==
    ASSUME TypeInv, CommitInv, SoundInv, LastInv, TagInv, NEW r \in Runs, Workflow(r)
    PROVE  TagInv'
<1> USE DEF forkVars
<1>0. r \in Procs /\ job[r] \in Job /\ PinsOf(job[r])
  BY DevIsNoRun DEF TypeInv, TagInv
<1>1. job[r].at \in JobSteps /\ r = last /\ UNCHANGED <<head, copy, main, last, fork>>
  BY StepNames DEF Workflow, Pick, Build, Checksum, Notes, Upload, LastInv
<1>2. ASSUME NEW j, job' = [job EXCEPT ![r] = j], j.files = job[r].files, j.sha = job[r].sha,
             j.at \in JobSteps \cup {"done"}, Pushed(j) \subseteq Pushed(job[r]),
             release.state # "none" => release'.state # "none",
             j.at = "upload" => release'.state # "none"
      PROVE  TagInv'
  <2>1. j.files.pin <= copy.pin /\ (j.sha # 0 => j.sha = j.files.pin)
    BY <1>0, <1>2 DEF PinsOf
  <2> QED
    BY <1>0, <1>1, <1>2, <2>1, RestTag
<1>3. CASE Pick(r)
  <2>1. PICK s \in {"skipped", "combine"} : Go(r, s)
    BY <1>3 DEF Pick
  <2> QED
    BY <1>0, <1>1, <1>3, <2>1, GoTag, StepNames DEF Pick
<1>4. ASSUME NEW a \in Arches, Build(r, a)
      PROVE  TagInv'
  <2> DEFINE j == [job[r] EXCEPT !.built[a] = job[r].sha]
  <2>1. j.at = "build" /\ job[r].at = "build" /\ j.files = job[r].files /\ j.sha = job[r].sha
    BY <1>0, <1>4 DEF Job, Build
  <2>2. job' = [job EXCEPT ![r] = j] /\ release' = release
    BY <1>0, <1>4 DEF Build, TypeInv
  <2> HIDE DEF j
  <2>3. Pushed(j) = Pushed(job[r])
    BY <2>1 DEF Pushed, Step
  <2> QED
    BY <1>2, <2>1, <2>2, <2>3, StepNames
<1>5. CASE Checksum(r)
  <2> DEFINE j == [job[r] EXCEPT !.built["sums"] = job[r].sha, !.at = "notes"]
  <2>1. j.at = "notes" /\ job[r].at = "build" /\ j.files = job[r].files /\ j.sha = job[r].sha
    BY <1>0, <1>5 DEF Job, Checksum
  <2>2. job' = [job EXCEPT ![r] = j] /\ release' = release
    BY <1>0, <1>5 DEF Checksum, TypeInv
  <2> HIDE DEF j
  <2>3. Pushed(j) = Pushed(job[r])
    BY <2>1 DEF Pushed, Step
  <2> QED
    BY <1>2, <2>1, <2>2, <2>3, StepNames
<1>6. CASE Notes(r)
  <2> DEFINE j == [job[r] EXCEPT !.at = "upload", !.leased = FALSE, !.lease = 0]
  <2>1. j.at = "upload" /\ job[r].at = "notes" /\ j.files = job[r].files /\ j.sha = job[r].sha
    BY <1>0, <1>6 DEF Job, Notes
  <2>2. job' = [job EXCEPT ![r] = j] /\ release'.state # "none"
    BY <1>6 DEF Notes, Go, TypeInv
  <2> HIDE DEF j
  <2>3. Pushed(j) = Pushed(job[r])
    BY <2>1 DEF Pushed, Step
  <2> QED
    BY <1>2, <2>1, <2>2, <2>3, StepNames
<1>7. ASSUME NEW x \in Assets, Upload(r, x)
      PROVE  TagInv'
  <2> DEFINE at == IF job[r].sent \cup {x} = Assets THEN "done" ELSE "upload"
             j == [job[r] EXCEPT !.sent = job[r].sent \cup {x}, !.at = at]
  <2>1. at \in {"done", "upload"}
    OBVIOUS
  <2>2. job' = [job EXCEPT ![r] = j] /\ release'.state = release.state /\ job[r].at = "upload"
    BY <1>0, <1>7 DEF Upload, TypeInv
  <2> HIDE DEF at
  <2>3. j.at = at /\ j.files = job[r].files /\ j.sha = job[r].sha
    BY <1>0 DEF Job
  <2> HIDE DEF j
  <2>4. Pushed(j) = Pushed(job[r])
    BY <2>1, <2>2, <2>3 DEF Pushed, Step
  <2>5. release.state # "none"
    BY <1>0, <2>2 DEF PinsOf
  <2> QED
    BY <1>2, <2>1, <2>2, <2>3, <2>4, <2>5, StepNames
<1> QED
  BY <1>3, <1>4, <1>5, <1>6, <1>7 DEF Workflow

\* A run that is run again is no further than where it failed.
LEMMA RerunTag ==
    ASSUME Serial, TypeInv, SoundInv, TagInv, NEW r \in Runs, Rerun(r)
    PROVE  TagInv'
<1>1. /\ Quiet /\ r = last /\ last' = r /\ job[r].at = "failed"
      /\ UNCHANGED <<head, copy, main, fork, release>>
  BY DEF Rerun, forkVars
<1>2. PICK step \in JobSteps \ {"upload"} :
          /\ job' = [job EXCEPT ![r].at = step, ![r].sent = {},
                       ![r].built = IF step \in {"build", "notes"} THEN @ ELSE NoJob.built]
          /\ \/ step \in {"pick", "combine"}
             \/ step = job[r].failedAt
             \/ step = "notes" /\ job[r].failedAt = "upload"
  <2>1. job[r].failedAt \in JobSteps
    BY <1>1, DevIsNoRun DEF SoundInv, Sound
  <2> QED
    BY <2>1, StepNames DEF Rerun, StackSteps
<1> DEFINE b == IF step \in {"build", "notes"} THEN job[r].built ELSE NoJob.built
           j == [job[r] EXCEPT !.at = step, !.sent = {}, !.built = b]
<1>3. job' = [job EXCEPT ![r] = j]
  BY <1>2
<1> HIDE DEF b
<1>4. j.at = step /\ j.files = job[r].files /\ j.sha = job[r].sha
  BY DevIsNoRun DEF TypeInv, Job
<1> HIDE DEF j
<1>5. Pushed(j) \subseteq Pushed(job[r])
  BY <1>1, <1>2, <1>4, StepNames DEF Pushed, Step
<1>6. PinsOf(job[r]) /\ main'.pin <= copy.pin
  BY <1>1, DevIsNoRun DEF TagInv
<1>7. \A ref \in Pushed(j) : copy.pin = j.files.pin => fork[ref] = copy.pin
  BY <1>1, <1>4, <1>5 DEF TagInv
<1>8. /\ r \in Procs /\ r # Dev /\ j.at \notin {"upload"}
      /\ j.files.pin <= copy.pin /\ (j.sha # 0 => j.sha = j.files.pin)
  BY <1>4, <1>6, DevIsNoRun DEF PinsOf
<1> QED
  BY <1>1, <1>3, <1>6, <1>7, <1>8, StartTag

LEMMA NextTag ==
    ASSUME Serial, ReleaseInv, TagInv, [Next]_vars
    PROVE  TagInv'
<1>1. CASE UNCHANGED vars
  BY <1>1 DEF vars, forkVars, TagInv, PinsOf, Pushed, Step
<1>2. ASSUME NEW p \in Procs, Fault(p)
      PROVE  TagInv'
  BY <1>2, StopTag DEF Fault, Active, forkVars, ReleaseInv
<1> QED
  BY <1>1, <1>2, PeopleTag, StackPyTag, WorkflowTag, RerunTag DEF Next, ReleaseInv

\* Publishing finds every asset and both refs to be the stack of the last run.
LEMMA PublishTag ==
    ASSUME Serial, ReleaseInv, TagInv, Publish
    PROVE  PublicTag!Publish
<1>1. /\ release.state = "draft" /\ last \in Runs /\ job[last].at = "done"
      /\ copy.pin = job[last].files.pin
      /\ release' = [release EXCEPT !.state = "published"] /\ UNCHANGED fork
  BY DEF Publish, Offered, forkVars
<1>2. Sound(job[last]) /\ Committed(job[last]) /\ Attached /\ job[last] \in Job
  BY <1>1, DevIsNoRun DEF ReleaseInv, TypeInv, SoundInv, CommitInv, LastInv
<1>3. job[last].sha # 0 /\ job[last].sha = copy.pin /\ job[last].sha \in 1 .. MaxHead
  BY <1>1, <1>2 DEF Sound, Step, Committed, Job, StackIds
<1>4. \A x \in Assets : release.assets[x] = job[last].sha
  BY <1>1, <1>2 DEF Sound, Step, Committed, Attached
<1>5. \A ref \in {"mirror", "branch"} : fork[ref] = job[last].sha
  BY <1>1, <1>3 DEF TagInv, Pushed, Step
<1>6. PublicTag!Whole(job[last].sha)
  BY <1>4, <1>5 DEF PublicTag!Whole
<1>7. /\ release'.state = "published" /\ release'.notes = release.notes
      /\ release'.assets = release.assets
  BY <1>1 DEF ReleaseInv, TypeInv
<1> QED
  BY <1>1, <1>3, <1>6, <1>7 DEF PublicTag!Publish

\* Every other step adds a piece to what is not published or is restamped, or
\* nothing.
LEMMA StepTag ==
    ASSUME Serial, ReleaseInv, PublishedInv, TagInv, [Next]_vars
    PROVE  [PublicTag!Next]_(PublicTag!vars)
<1> USE DEF forkVars
<1>0. Restamping' \in BOOLEAN
  BY DEF Restamping
<1> SUFFICES PublicTag!Step \/ UNCHANGED <<release, fork>>
  BY <1>0 DEF PublicTag!Next, PublicTag!tag
<1>2. CASE ~PublicTag!Open
  BY <1>2, NextPublished DEF PublicTag!Open, ReleaseInv
<1>3. ASSUME PublicTag!Open, NEW p \in Procs, PushRef(p), fork' # fork
      PROVE  PublicTag!Step
  <2>1. fork' = [fork EXCEPT ![job[p].at] = job[p].sha] /\ release' = release
        /\ job[p].at \in {"mirror", "branch"}
    BY <1>3 DEF PushRef
  <2>2. job[p].sha \in 1 .. MaxHead
    BY <2>1, StepNames DEF ReleaseInv, SoundInv, Sound, Step, TypeInv, Job, StackIds
  <2>3. PublicTag!Push(job[p].at, job[p].sha)
    BY <1>3, <2>1 DEF PublicTag!Push
  <2> QED
    BY <2>1, <2>2, <2>3 DEF PublicTag!Step
<1>4. ASSUME PublicTag!Open, NEW r \in Runs, Notes(r)
      PROVE  PublicTag!Step
  <2>1. /\ release' = [release EXCEPT !.notes = job[r].files.lock,
                                      !.state = IF release.state = "none" THEN "draft" ELSE release.state]
        /\ UNCHANGED fork
    BY <1>4 DEF Notes, ReleaseInv, TypeInv
  <2>2. /\ release'.notes = job[r].files.lock /\ release'.assets = release.assets
        /\ release'.state = IF release.state = "none" THEN "draft" ELSE release.state
    BY <1>4, <2>1 DEF ReleaseInv, TypeInv
  <2>3. job[r].files.lock \in 1 .. MaxHead \cup {0}
    BY DevIsNoRun DEF ReleaseInv, TypeInv, Job, Files
  <2>4. PublicTag!Describe(job[r].files.lock)
    BY <1>4, <2>1, <2>2 DEF PublicTag!Describe
  <2> QED
    BY <2>3, <2>4 DEF PublicTag!Step
<1>5. ASSUME PublicTag!Open, NEW r \in Runs, NEW x \in Assets, Upload(r, x)
      PROVE  PublicTag!Step
  <2>1. release' = [release EXCEPT !.assets[x] = job[r].built[x]] /\ UNCHANGED fork
        /\ job[r].at = "upload"
    BY <1>5 DEF Upload
  <2>2. job[r].built[x] # 0 /\ job[r].built[x] \in 1 .. MaxHead
    BY <2>1, DevIsNoRun DEF ReleaseInv, SoundInv, Sound, Step, TypeInv, Job, StackIds
  <2>3. release.state # "none"
    BY <2>1, DevIsNoRun DEF TagInv, PinsOf
  <2>4. /\ release'.assets = [release.assets EXCEPT ![x] = job[r].built[x]]
        /\ release'.state = release.state /\ release'.notes = release.notes
    BY <2>1 DEF ReleaseInv, TypeInv
  <2>5. PublicTag!Attach(x, job[r].built[x])
    BY <1>5, <2>1, <2>3, <2>4 DEF PublicTag!Attach
  <2> QED
    BY <2>2, <2>5 DEF PublicTag!Step
<1>6. CASE UNCHANGED vars
  BY <1>6 DEF vars
<1>7. CASE People
  BY <1>7, PublishTag
  DEF People, HeadMoves, Repin, RunLocally, Commit, Dispatch, Freeze, MergeReview, DeleteBase, PublicTag!Step
<1>8. ASSUME PublicTag!Open, NEW p \in Procs, StackPy(p) \/ Fault(p)
      PROVE  PublicTag!Step \/ UNCHANGED <<release, fork>>
  <2>1. CASE PushRef(p) /\ fork' # fork
    BY <1>3, <1>8, <2>1
  <2>2. CASE ~(PushRef(p) /\ fork' # fork)
    BY <1>8, <2>2 DEF StackPy, Combine, EnsureBase, ReadRef, PushRef, Review, Fault
  <2> QED
    BY <2>1, <2>2
<1>9. ASSUME PublicTag!Open, NEW r \in Runs, Workflow(r) \/ Rerun(r)
      PROVE  PublicTag!Step \/ UNCHANGED <<release, fork>>
  BY <1>4, <1>5, <1>9 DEF Workflow, Pick, Build, Checksum, Rerun
<1> QED
  BY <1>2, <1>6, <1>7, <1>8, <1>9 DEF Next

\* "One run produces one release" (release.yml:3), as the world sees it: as
\* long as people wait for a run to end before they go on, a tag is changed
\* piece by piece until it is published and then only by those asked to rewrite
\* it, and is published only when its assets and the refs are one stack, for any number of runs, arches,
\* moves of the pull request and failures.
THEOREM ImplementsTagCorrect == Serial => (Spec => ImplementsTag)
<1> SUFFICES ASSUME Serial PROVE Spec => ImplementsTag
  OBVIOUS
<1>1. Init => PublicTag!Init /\ PublishedInv /\ TagInv
  <2>1. Init => PublicTag!Init
    BY StepNames DEF Init, PublicTag!Init, Restamping, Active, NoJob
  <2>2. Init => PublishedInv
    BY DEF Init, PublishedInv
  <2>3. Init => TagInv
    BY DevIsNoRun, StepNames DEF Init, TagInv, PinsOf, NoJob
  <2> QED
    BY <2>1, <2>2, <2>3
<1>2. ReleaseInv /\ PublishedInv /\ TagInv /\ [Next]_vars => PublishedInv' /\ TagInv'
  BY NextPublished, NextTag DEF ReleaseInv
<1>3. ReleaseInv /\ PublishedInv /\ TagInv /\ [Next]_vars => [PublicTag!Next]_(PublicTag!vars)
  BY StepTag
<1> QED
  BY <1>1, <1>2, <1>3, ReleaseInductive, PTL DEF Spec, ImplementsTag, PublicTag!Spec
=============================================================================
