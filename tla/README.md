# TLA+ models of the runsc shim with task checkpoint and restore

These modules model the two halves of the repository: what runs on a node, the
containerd shim for gVisor in `changes/` with its `Checkpoint` task method and
the annotation-triggered whole-sandbox restore, and what makes a release of it,
`tools/stack.py`, `tools/notes.py` and `.github/workflows/release.yml`. TLC
checks the models on small instances; TLAPS proves every safety property of the
passing runs, that the shim implements abstract tasks and the release pipeline
an abstract tag, for instances of any size.

## 1. The system

| part | source | state | operations |
|---|---|---|---|
| task service | `changes/runsc_service.go` (`runscService`) | `containers` under `s.mu`, the `events` channel (128), the OOM poller, the console platform | one method per RPC; `processExits`/`checkProcesses`; `forward`; `setPodCgroup` |
| container | `changes/runsc_container.go` (`Container`) | the init task, the `processes` map under `c.mu` | `NewContainer`, `Start`, `Restore`, `Delete`, `Exec`, `Kill`, `Checkpoint`, `Stats`, ... |
| init process | `changes/proc_init.go` (`Init`) | `initState`, `exited`, `status`, `waitBlock` under `p.mu` | `Create`, `Start`, `Restore`, `Checkpoint`, `SetExited`, `Delete`, `Kill`, `KillAll`, `Status`, `Wait` |
| runsc client | `changes/runsccmd_runsc.go` (`Runsc`) | the pool of byte buffers | one method per runsc command, `runOrError`, `cmdOutput` |
| restore of a pod | `Start`, `shouldRestore`; docs/HLD.md | the annotation in the spec, the image's `container_count` | every container of a forked pod is restored from one image |
| stack builder | `tools/stack.py` | manifests, `stack.lock.yaml`, branches | resolve, check exhaustiveness, build, lock, push, review |
| release notes | `tools/notes.py` | none | render the notes from manifest and lock |
| workflows | `.github/workflows/` | tags, releases, assets | check, build, publish |
| scripts | `scripts/` | none of their own | install, build, verify |

How the parts interact. containerd calls the service; every RPC runs in a
goroutine of its own. The service finds the container under `s.mu` and calls
`Container`, which calls `Init`, which takes `p.mu` and runs runsc. A
successful start spawns a goroutine that runs `runsc wait` and sends the exit
on the global `ExitCh`. One goroutine (`processExits`) receives the exits of
all containers, takes `s.mu` and then each container's `p.mu` in turn, and
sends events; one goroutine (`forward`) publishes them. On the other side a
developer or the workflow runs `stack.py` in a checkout; it writes the lock
file and pushes branches of the fork, and the workflow's later jobs build,
render notes from the committed lock and fill a draft release, which a person
publishes and then freezes.

What is hard: the waiting goroutine is older than the state `running`; the one
exit handler waits for locks that calls hold across runsc commands; `State` may
discover a death before the exit is handled; every runsc command can fail
between two changes of state; checkpoint takes arbitrarily long; an exit names
neither its container nor its incarnation; commands share buffers; a release is
made of pushes, uploads and people's steps any of which may be the last one
before a failure, and files in a checkout grow stale meanwhile. `PROJECT.json`
lists these under `hazards`, each at its line.

What makes each part correct:
* service: exits are reported once, truthfully, in order after OOM, and
  eventually, for the task they belong to; nothing that exists in runsc is
  forgotten unless its Create failed; the channel of events outlives its senders;
* container: ids are unique in `processes`, an exit reaches the process that
  ended;
* init process: `Start` and `SetExited` are ordered by `p.mu`; `Wait`,
  `TaskExit` and the recorded status tell the same story;
* runsc client: a command's output is its own and no buffer is lost;
* restore: a forked pod is restored as a whole and comes to life, or fails; it
  never comes to life half restored and half cold;
* stack builder and workflows: what is built is what the manifest says, what is
  offered is one build and names itself rightly, what is published stays unless
  it is restamped on request, and a failed run can be repaired by running it
  again.

## 2. Modules

`Shim` is the core; `Task` is what it promises, `Lives` what `Registry`
promises. `Registry`, `ExecProcs` and `PodRestore` each look at a question
`Shim` leaves out (ids used again, processes added later, several containers of
one image) and abstract `Init` to one step where `Shim` has the detail.
`RunscCmd`, `Manifest`, `PodCgroup` and `Release` share nothing with them; `Tag`
is what `Release` promises. The `MC` modules name the values of constants.
Definitions called `Mut...` stand before the definition they are a faulty
version of: each breaks a property, which shows that the property depends on
that line of the code. They are part of no specification.

### Shim: the lifecycle of tasks

| variable | code |
|---|---|
| `reg`, `smu`, `oomIds` | keys of `s.containers`, `s.mu`, the poller's cgroups |
| `events`, `published` | the `events` channel; what `forward` gave the publisher |
| `initState`, `exited`, `status`, `mu` | fields of `Init`; `exited` also says that `waitBlock` is closed, as `setExited` does both |
| `launched` | whether `runsc start` or `runsc restore` launched the process |
| `waiter`, `wcode` | the goroutine of `Init.start` and the status it got |
| `exitCh`, `hpc`, `hc`, `hstatus` | `ExitCh` and the progress of `checkProcesses` |
| `pc`, `on`, `mode`, `tries`, `waitReply` | progress of each RPC goroutine; answers of `Wait` |
| `rt`, `oomed`, `victims` | external: runsc's view of a container, the cgroup's OOM count |
| `outlived` | history: which of the two kills on the way of its exit a container outlived |

An RPC is a chain of actions: `CreateLock`, then `CreateOk` or `CreateFail`;
`CallStart`/`CallRestore`, `StartLock`, `Launch`, `LaunchDone` or `LaunchFail`;
`CallDelete`, `DeleteLock`, `DeleteKill`, `DeleteRun` or `DeleteErr`, `Remove`;
`CallKill`, `KillLock`, then `KillRetry` until `KillOk`, `KillStopped`,
`KillStateErr` or the last attempt; `CallState`, `StateRead`; `CallWait`,
`WaitUnblock`, `WaitRead`; `CallCheckpoint`, `CheckpointDone`. A chain is cut
where the code takes or releases a mutex, or runs a command that others can
observe. The waiting goroutine is `Reap` or `ReapErr`, `SendExit`; the exit
handler `ReceiveExit`, `FindProcess`, `HandlerKillAll`, `SetExited`,
`HandleOOM`, `SendTaskExit`.

External code is modelled from its use:
* the init states (`init_state.go` upstream): only `created` can start, only
  `created` and `stopped` can be deleted, every state but `deleted` records an
  exit, a failed start stops a sub-container and leaves the root created;
* runsc: the root container's process is the sandbox and all containers die
  with it; a sub-container needs it; `state` of a dead or unknown container says
  stopped. Every command may fail before or after it took effect: `runsc start`
  may leave the container running though `Start` returns an error (nobody waits
  for it then), `kill --all` may leave it running although `killAllLocked`
  ignores its error "as the container has already stopped", and `runsc delete`,
  which the shim calls without `--force`, refuses a running container;
* container ids are fresh, as containerd's are (`Registry` drops this).
Events other than TaskOOM and TaskExit, and the asynchronous notifications of
the OOM poller (which can only add TaskOOM events), are left out. The channel
of exits is unbounded in the model: it holds at most one entry per container,
and upstream's is buffered too. `TaskExit`'s timestamp is not modelled.

### Task: what the shim promises, and the refinement

`Task` has no goroutines, locks or channels: tasks are created, launched once,
die, are found dead, have one exit recorded and told, and are deleted; `Wait`
answers only what was recorded; TaskOOM is told before the exit. Only with the
status `LostCode` may an exit be recorded or told of a process that lives: the
launch reported a failure, or nobody could wait for it or kill it.
`Shim!AbstractTask` is `Task` under the mapping

| `Task` | `Shim` |
|---|---|
| `phase` | `initState` |
| `live` | the containers that `rt` says are running |
| `code` | `status` of those that `exited`, otherwise none |
| `stream` | `published` followed by what is still in `events` |
| `answers` | `waitReply` |
| `LostCode` | `internalErrorCode` |

and `ImplementsTask` says that every step of `Shim` is a step of `Task` or
changes none of these.

### ExecProcs: processes added with Exec

`processes` is `Container.processes` of all containers, `owner[p]` what process
object `p` was made for, `exitCh` the exits, of which the shim sees the exec id
only. `ExecCheck`, `ProcessAdd` and `ExecAdded` are the three parts of `Exec`,
with no lock from one to the next. `FindExited` picks any process with the id,
since Go's order of map iteration is arbitrary; `ReportExit` is the rest of
`checkProcesses`. External: `execProcess` (`exec.go` upstream).

### Registry: ids that are used again

`s.containers`, the OOM poller and runsc are maps from ids. `Registry` numbers
the incarnations of an id, which the code cannot tell apart: `containers`,
`oom` and `rt` say which incarnation an id stands for; `inc` of an exit, `told`
and `histVars` are history that no guard of the shim reads. A Create that gets as
far as runsc makes an incarnation and registers it with an entry in the poller,
or without one when a later step fails or there is no pid, or fails and leaves
it unregistered; it overwrites what the map has. Beyond `Create`, `Start`,
`State` and `Delete` (`InitDelete`, then `Remove` by id, without a lock in
between) there are `Pause` and `Resume` (command, then event, with no lock held)
and `Shutdown`, which counts containers under `s.mu`, with the callback that
closes `events` some time later (`CloseEvents`). Waits, kills, switches and
deletes may fail with or without effect.

Histories: `astray` are incarnations of a Create that failed in runsc, or that
ran while a Delete of the id was about to remove it; `unpolled` those whose
cgroup the poller was not given; `lost` those that could not be waited for and
outlived the kill.

There are two kinds of clients, and a behaviour has one. `"any"` calls whatever
and whenever it likes, also while a Shutdown is under way. `"event"` behaves as
containerd's CRI plugin does: besides `State` one call for an id at a time, a
start only of what the last Create of the id made, a delete of a started task
only after its TaskExit, and no call after a Shutdown, which it makes when its
calls have returned. What is claimed of `"event"` only says so in its statement.

`Lives` is what the shim owes to tasks that have ids one after the other: each
is created, perhaps started, dies, is found dead, has its exit recorded and then
told, and is deleted, if it was started only when it has been told; a task that
nobody can wait for or kill is lost, and its exit may be recorded while it
lives. It knows no ids. `Registry!OwnLife` is `Lives` with incarnations for
tasks, `state` for `phase`, those with a goroutine as `started`, those that `rt`
says are running or paused as `live`, `exited` as `recorded`; `ImplementsLives`
says that with an `"event"` client a step of `Registry` is a step of one life or
of none: never are two tasks killed or deleted at once, an exit recorded of a
task that was not started or that runs and is not lost, told twice or before it
was recorded, or a started task deleted untold. That a `kill --all` of the
handler hits no successor is `ExitMeetsItsIncarnation`; `Lives` would take it
for a death.

### PodRestore: forking a pod

The source pod comes up and is checkpointed at any time (`Checkpoint`,
`CheckpointDone`: the image has the containers that were running). The second
pod is annotated or not; `Start` decides what `shouldRestore` does, `Restore`
or `ColdStart` follows, and the sentry (external, as docs/HLD.md describes it)
counts restored containers and resumes at `container_count`. kubelet may
restart a container, which the sentry of a restored pod refuses to restore
again. `utils.ReadSpec` may fail at any Start, which then takes the cold path as
in finding 1; that is one of the `Mishaps`, with failures of runsc, ends and
restarts. `unread` and `restarted` are history: whose spec could not be read, who
was started once more.

### RunscCmd: the buffers of runsc commands

`pool`, `mem` and `len` are the pool and its buffers' memory and lengths;
`stdin`, `stdout`, `stderr` those a command holds; `data` the slice that
`cmdOutput` returns. `CmdOutput` takes buffers, `MonitorStart` and `Write` run
the command, `StartErr`, `WaitOk` and `WaitErr` run the deferred `putBuf`,
`Parse` and `FormatErr` read what the slice reads by then. External: `getBuf`,
`putBuf`, go-runc's monitor.

### Manifest and PodCgroup: two algorithms

`Manifest` is `parse_manifest`, `check_exhaustive`, the loop of `build_stack`
with `_substitute` and `_cherry_pick`, and `mirror_target`, a step each, on shas
that are sequences of digits. `todo` has the positions, on the head of the pull
request, of the commits that the current entry has still to pick; `_cherry_pick`
takes the least. A pull request is a number in a source repository; heads are
found by both, mirrors by the number alone, as `mirror_target` does. The
properties do not resolve prefixes: they compare the result with what the
manifest's prefixes name.

`PodCgroup` is `newInit` with `setPodCgroup` on paths that are sequences of
parts: `NewInit` finds the last part that starts with pod, `JoinPart` is one
turn of the loop that calls `filepath.Join`, `Joined` adds the leading separator
back, compares and writes the bundle, which may fail, and `Repair` is the retry
of a Create whose volume annotations failed.

### Release: from a manifest to a published release

A stack is named by the pin it was built from. `copy` and `main` are the files
in the developer's checkout and on main, `fork`, `base` and `review` the refs
of the fork and the pull request, `release` the GitHub release. `job[p]` is a
run of the workflow, or for `Dev` a developer's `stack.py`: its step, the files
and flags it started from, the sha it combined, what it built and sent.
`Combine` is `main` up to the end of `build_stack` and `reconcile_lock`;
`EnsureBase`, `ReadRef`, `PushRef` and `Review` are `push_and_review`; `Pick`,
`Build`, `Checksum`, `Notes` and `Upload` the jobs of release.yml. `Fault` ends
a command or job at any step; `Rerun` repeats the failed jobs. A dispatch with
rewrite and a local run with `--allow-rewrite` are possible at any time, also on
a published and frozen tag: that `--allow-rewrite` is for "unpublished tags only"
(`tools/stack.py:595`) is a help text, and restamping a published tag is "the
deliberate exception" (release.yml:65). `Restamping` says that such a job is
under way. External: people
(`HeadMoves`, `Repin`, `Commit`, `Dispatch`, `Publish`, `Freeze`, `MergeReview`,
`DeleteBase`) and GitHub.

### Tag: what users of a release rely on

`Tag` has the state of the release, what its notes describe, its assets and the
fork's refs. Refs are pushed, notes written and assets attached in any order
while nothing is published; `Publish` needs every asset and every ref to be of
one stack; afterwards pieces change only while the tag is restamped on request,
and nothing takes a published release back to a draft. `Release!PublicTag` is
`Tag` with `release`, `fork` and `Restamping` for its variables, and
`ImplementsTag` says that every step of `Release` is a step of `Tag` or leaves
these alone.

## 3. Runs

| run | instance | states | shows |
|---|---|---|---|
| `shim_container` | one annotated root, two RPC goroutines, all calls, fair | 0.12 M | whatever two calls do against the waiting goroutine, handler and forwarder: `TypeOK` (at most `KillAttempts` attempts, no overfull channel), `StartExitedOrder`, `OneExitStory`, `WaitReturns`, `ImplementsTask` |
| `shim_pod` | pause and app, one goroutine besides the shim's own that starts, deletes and asks for the state | 1.0 M | `ExitMeansDead`, `OOMBeforeExit`, `NoOrphan`, `OneExitStory`, `ImplementsTask` |
| `shim_exit` | pause and app, one goroutine that starts and checkpoints, fair | 0.26 M | `ExitReported` although a checkpoint need never end |
| `shim_cold_start` | one annotated container | (first trace) | violates `AnnotatedNeverCold` (finding 1) |
| `exec_own_ids` | two containers, two clients with ids of their own, fair | 75 000 | `TypeOK`, `Reachable`, `ExitReachesItsProcess`, `ExecExitReported` |
| `exec_same_id_race` | two clients, one id, one container | (first trace) | violates `Reachable` (finding 2) |
| `exec_id_in_two_containers` | two clients, one id, two containers | (first trace) | violates `ExitReachesItsProcess` (finding 3) |
| `runsc_answer` | two goroutines that run `wait` | (first trace) | violates `OwnAnswer` (finding 4) |
| `parts` | `RunscCmd`, `Manifest` and `PodCgroup` | 0.37 M | `PoolPartition`, `OwnBuffers`; `ExactStack`, `AdaptedAsMapped`, `MirrorIsShipped`; `SandboxJoinsPod` |
| `registry` | two ids, two incarnations, one goroutine besides the shim's own, clients of both kinds | 1.1 M | `ExitMeetsItsIncarnation`, `NothingForgotten`, `NoSendAfterClose`, `ImplementsLives` |
| `pod_restore` | four containers, up to three mishaps, fair | 0.25 M | `MixedOnlyLate`, `PodComesUp` |
| `release` | two runs and a developer, a head that moves once, pushes from a checkout or one fault, fair | 0.23 M | `TypeOK`, `OneRelease`, `StampAsPromised`, `ExactCommit`, `PublishedFixed`, `ImplementsTag`, `RerunRepairs` |

Bounds.
* Shim: two containers are one of each kind, a root whose death takes the other
  along and a sub-container; the handler is contended by two. Two goroutines
  are one that holds `p.mu` or waits for the exit and one that gets in between;
  the theorems of section 5 cover any number. `KillAttempts = 4` is what the
  code's pauses of 100, 200 and 400 ms leave room for in a second; 2 suffices
  where kill is not the subject. `EventCap = 1` makes `send` block often. One
  exit code differs from 0 and from `internalErrorCode` = 128. Every launch of
  `shim_pod` is cold: cold start and restore differ in the runsc command only
  and take the same steps, `shim_container` and `shim_exit` have both, and the
  theorems cover any annotated containers and all calls.
* ExecProcs: `MaxProcs = 4` lets ids be used again after a delete.
* Registry: `MaxInc = 2` with two ids lets one id be used twice, or both once,
  so that one keeps the shim alive; one goroutine's calls race with the waiting
  goroutines, the handler, the forwarder, the Creates (one step, as they hold
  `s.mu`) and the callback of Shutdown. `"any"` starts, deletes and asks for the
  state in that run. Any number of goroutines, whose calls race with one another,
  is covered by the theorems of section 5.
* PodRestore: four containers let two subs wait for a third; three mishaps are
  for instance an end, a restart and a spec that cannot be read.
* parts: `MCParts` puts three parts that share no state into one run; an initial
  state belongs to one of them and the others rest. Two goroutines need at most
  two of three buffers each in turn, four are in the pool. Shas have two digits
  so that prefixes are ambiguous, nested or name nothing; one entry with up to
  two picks, two skips, one adapted commit and three commits on the head, or two
  and three entries on two pull requests, which may have one number in two
  repositories. Renaming digits changes nothing, so the first commit of the head
  is always `00`. Paths have up to four parts after the leading separator, with
  pods in any place, `.` and empty parts: room for a part that is dropped, two
  pods and the container.
* Release: two runs overlap in re-runs and dispatches, `MaxHead = 2` makes one
  stale pin and lock, one fault can hit any step of any job; a second fault
  repeats the situation of a failed job. In a behaviour of `MCRelease` either
  developers push from their checkouts and nothing fails, or they only write
  locks and a command may fail. Both at once, any number of runs, moves and
  faults are covered by the theorems; that a failed run is repaired is checked
  for the second kind.

Deadlock is not checked where all goroutines may rightly be waiting in `Wait`
or where bounds (ids, incarnations, runs) end the work; it is in `parts` and
`runsc_answer`. Symmetry is used in runs without liveness only.

Fairness. In `Shim`, runsc commands other than checkpoint return, so steps of
calls that run one, and of the waiting goroutine, are weakly fair. A step that
needs a mutex is strongly fair: a Go mutex goes into starvation mode and hands
itself to the longest waiter. `forward` is weakly fair because the publisher
retries. No fairness is assumed of clients, of processes ending, or of
`CheckpointDone`. That the wait for the copies in `Init.delete` (`p.wg.Wait`)
ends is assumed only once the container is dead (`Drained`). `ExecProcs` assumes
that calls that were begun and the exit handler go on. `PodRestore` assumes that
kubelet creates containers, that calls return and that the checkpoint that is
asked for is taken; nothing makes a process end, a command fail or a container
restart. `Release` assumes that commands and workflow steps are taken, and, with
strong fairness because they have other work, that maintainers re-run what
failed. `Registry` and the three parts state safety only.

`ExitReported` and `WaitReturns` except a task that has been deleted meanwhile.
This is needed: `State` may move a dead container to `stopped` before its exit
has been handled, a `Delete` that comes next is accepted, and `checkProcesses`
then finds no container (or `deleted` ignores the exit). No `TaskExit` is sent
and a `Wait` in flight does not return. `RerunRepairs` excepts runs whose pin
has moved, whose lock is stale, whose review was merged or that are no longer
the latest: a re-run uses the files of its commit and is then refused.

## 4. Findings

1. *Cold start of an annotated container.* When the spec cannot be read, `Start`
   logs a warning and starts the container cold and successfully
   (`changes/runsc_service.go:272`), where its comments and VERIFICATION.md
   say that the error is surfaced and a silent cold start avoided.
2. *Exec with an id in use.* `Exec` checks the id and adds the process under two
   separate holds of the lock (`changes/runsc_service.go:337`); two concurrent
   calls both pass and the first process becomes unreachable. Clients that
   choose ids of their own (CRI uses random ones) are not affected, as
   `exec_own_ids` shows.
3. *Equal exec ids in two containers.* `checkProcesses` matches an exit by id
   over all containers (`changes/runsc_service.go:611`), so the exit can be
   recorded on, and published for, a process of the other container.
4. *A runsc command may parse another one's answer.* `cmdOutput` returns
   `stdout.Bytes()` when its deferred `putBuf` has already returned the buffer
   to the pool (`changes/runsccmd_runsc.go:664`); a concurrent command can write
   over it before `Wait` or `State` decode it. The buffers themselves are never
   shared or lost (`PoolPartition`, `OwnBuffers`).

Conditions the passing runs depend on. None contradicts a statement of the
repository as plainly as the four above.
* `Shim`: a TaskExit is sent of a container that runs when `runsc wait`, the kill
  of the waiting goroutine and the kill of the exit handler all fail; it says
  `internalErrorCode` and `ExitMeansDead` excepts exactly that. A launch that
  fails after it took effect leaves a sub-container that counts as stopped and
  runs, until a Delete kills it.
* `Registry`, an `"any"` client: one that deletes as soon as `State` says stopped
  and uses the id again has its next task ended by the exit of the first; a
  Shutdown while an exit is being handled, or while a call has still to send,
  makes the shim send on a closed channel; a Create between the two steps of a
  Delete of the same id is forgotten (`astray`, hazard at
  `changes/runsc_service.go:196`). None of this happens with an `"event"` client.
  Also with that one a Create that fails after `runsc create` leaves a container
  that is not registered, and one that fails at `:229` leaves an older cgroup in
  the poller (`unpolled`).
* `Release`, `Serial = FALSE`: release.yml has no concurrency group; two runs at
  a time leave a release with assets of both (`OneRelease`). `ExactCommit` holds
  even so.
* `PodRestore`: finding 1 in a pod. As long as the sandbox has not resumed a
  container that takes the cold path is refused by the sentry, or it is the root
  and all others are; only one that is started later runs cold beside the
  restored ones (`MixedOnlyLate`).
* `Release`: a dispatch with rewrite runs `--allow-rewrite` without
  `--write-lock` (`tools/stack.py:392`): it offers binaries whose notes,
  rendered from the committed lock, name another build (docs/RELEASING.md:115).
  Runs that rewrite, with or without `--write-lock`, are excepted from
  `StampAsPromised`, and from `PublishedFixed`: on a published tag they replace
  what was published, although docs/RELEASING.md:102 says that a published
  manifest must never rebuild; release.yml:65 and docs/RELEASING.md:90 describe
  when it is right. `--write-lock` alone is refused although
  docs/RELEASING.md:246 gives it as the fix.
* `Manifest`: two prefixes of one commit pass `parse_manifest` and end in a
  `KeyError` (`tools/stack.py:347`), which the model treats as a refusal; two
  entries of one pull request share their mirror (`tools/stack.py:483`).
* `PodCgroup`: `setPodCgroup` keeps the leading slash that the example in its
  comment drops (`changes/runsc_service.go:762`); runsc gets the same directory.
* `PodRestore`: a container restarted in a forked pod goes down the restore path
  again and is refused.

## 5. Proofs

Eight modules of proofs, for any value of the constants that satisfies the
assumptions stated in the modules (sets need not be bounded except where a
finite set is assumed; `None` and the like differ from what they are compared
with; statuses are naturals).

| theorem | statement | further condition |
|---|---|---|
| `ShimProofs!TypeCorrect` | `Spec => []TypeOK` | |
| `ShimProofs!StartExitedCorrect` | `Spec => []StartExitedOrder` | |
| `ShimProofs!ExitMeansDeadCorrect` | `Spec => []ExitMeansDead` | |
| `ShimProofs!NoOrphanCorrect` | `Spec => []NoOrphan` | |
| `ShimProofs!OneExitStoryCorrect` | `Spec => []OneExitStory` | |
| `ShimProofs!OOMBeforeExitCorrect` | `Spec => []OOMBeforeExit` | |
| `ShimProofs!RefinementCorrect` | `Spec => ImplementsTask` | |
| `ExecProofs!ExecTypeCorrect` | `Spec => []TypeOK` | |
| `ExecProofs!ReachableCorrect` | `Spec => []Reachable` | `OwnKeys` |
| `ExecProofs!ExitReachesCorrect` | `Spec => []ExitReachesItsProcess` | `OwnKeys`, `UniqueIds` |
| `PodRestoreProofs!MixedOnlyLateCorrect` | `Spec => []MixedOnlyLate` | |
| `RegistryProofs!ExitMeetsItsIncarnationCorrect` | `Spec => []ExitMeetsItsIncarnation` | |
| `RegistryProofs!NothingForgottenCorrect` | `Spec => []NothingForgotten` | |
| `RegistryProofs!NoSendAfterCloseCorrect` | `Spec => []NoSendAfterClose` | |
| `RegistryProofs!ImplementsLivesCorrect` | `Spec => ImplementsLives` | |
| `ReleaseProofs!TypeCorrect` | `Spec => []TypeOK` | |
| `ReleaseProofs!ExactCommitCorrect` | `Spec => []ExactCommit` | |
| `ReleaseProofs!PublishedFixedCorrect` | `Spec => PublishedFixed` | `Serial` |
| `ReleaseProofs!OneReleaseCorrect` | `Spec => []OneRelease` | `Serial` |
| `ReleaseProofs!StampAsPromisedCorrect` | `Spec => []StampAsPromised` | `Serial` |
| `ReleaseProofs!ImplementsTagCorrect` | `Spec => ImplementsTag` | `Serial` |
| `RunscCmdProofs!PoolPartitionCorrect` | `Spec => []PoolPartition` | |
| `RunscCmdProofs!OwnBuffersCorrect` | `Spec => []OwnBuffers` | |
| `ManifestProofs!StackIsExact` | `StackSpec => []ExactStack` | |
| `ManifestProofs!MapIsHonoured` | `StackSpec => []AdaptedAsMapped` | |
| `ManifestProofs!MirrorsShip` | `StackSpec => []MirrorIsShipped` | |
| `PodCgroupProofs!JoinsPod` | `CgroupSpec => []SandboxJoinsPod` | |

`OwnKeys` says that no two clients work with the same exec id in the same
container, `UniqueIds` that no exec id is used in two containers: findings 2 and
3 show that each is needed. `Serial` is needed as section 4 says.
`ManifestAssumption` says that manifests and heads are lists, of pull requests
that exist, and that the commits of a head differ; `PodCgroupAssumption` that
pods, other names and the blank parts `""` and `"."` are told apart, and none is
taken for no path. The theorems about `Registry` need no condition; what they
say of an `"event"` client is an implication in the property itself.

*Shim.* `StartExitedOrder` is not inductive: `LaunchDone` sets `running`
without looking, so one must know that the exit was not recorded meanwhile.
`LockInv` says that a call between lock and unlock holds `p.mu`; `PhaseInv`,
that its container is still in the state in which it was locked (a launch still
finds `created`, which with `StartExitedOrder` means not exited); every step
that changes the init state needs `p.mu` free or is taken by its holder.
`RuntimeInv` adds that `deleted` containers are gone from runsc and that a
container somebody waits for has been launched, and only once. `SentInv` says
that whatever is in `ExitCh`, in the handler, in the channel or published comes
from a waiting goroutine that is done. `NoOrphan` needs `remove` to happen in
state `deleted` only. `SafetyInv` in `ShimProofs` is the conjunction. `StepType`
and `StepSafe` show in turn that every step preserves types and the rest, one
lemma per group of actions.

*Story.* `StoryInv` adds to `SafetyInv`: `TokenInv`, there is one exit of a
container at most in `ExitCh`, the handler and the stream together; `EndInv`,
which carries `ExitMeansDead` along the way of an exit: once the waiting
goroutine has answered, the container is dead, or it outlived that goroutine's
kill and the status on its way is `internalErrorCode`, and from `SetExited` on it
has outlived the handler's kill too; no later step undoes that, because a
container only starts from `created` in runsc; `LaunchInv`, a container that
counts as created while its goroutine waits is inside the `Start` that holds
`p.mu`, so no failed start or Delete can record a status of its own;
`StatusInv`, what the handler carries or the stream tells is what was recorded;
`WaitInv`, Wait answers only that; `OOMInv`, a victim is watched or told about,
and dropped from the poller before its exit is told.

*Refinement.* `TaskInv` adds `LiveInv`: the exit about to be told has been
recorded or the task deleted. With `EndInv` this makes the steps that record and
tell an exit steps of `Task`, where a status other than `LostCode` needs a dead
process. `Same`, `Dies` and the other step lemmas reduce each action of `Shim`
to one of `Task`'s, or to a stutter; `CallRefines`, `HandlerRefines` and
`StepRefines` go through `Next`.

*ExecProcs.* `IdInv`: what a client's call is about stays as the call found it,
since nobody else works with that key, and every process not yet deleted is the
one its key maps to. `ExitInv`: exits under way are of ended processes, one
each, and what is reported is about a process that was made.

*Registry.* `KeptInv` holds for any client and is inductive with
`NothingForgotten` in it: only incarnations that were made are known, each under
its id (`MadeInv`); runsc has the last incarnation of an id or none, because
Create is refused while there is one (`LatestInv`); and a call that is about to
remove an id finds nothing of it in runsc but what a Create made meanwhile
(`RemoveInv`). An entry that Create overwrites is therefore of a container that
runsc no longer has. Nothing is assumed about how calls overlap.

`EventInv` is about an `"event"` client. `TokenInv` is its core: the exit of an
incarnation is with its waiting goroutine, in `ExitCh`, in the hands of
`checkProcesses` or in `events`, in one of these places only, and until it has
been told its id still stands for the incarnation. That needs `DeleteInv`: a
delete is of a task that was never started or whose exit was told, so what is
waited for stays in runsc and Create is refused for its id; and the poller has
nothing or the registered incarnation under an id, or that one is `unpolled`; a
failed Create makes no task. `CallInv`: besides `State` one call at a time works
on a container, and the object it found under its id is registered until it
removes it itself; it starts only the last incarnation of an id, which matters
where a Create failed after another. `CloseInv`: once Shutdown has been granted
no container is left and nobody calls, so when the callback runs nobody sends.
`Inductive` puts the parts together; each has one lemma on every step (`KeptStep`,
`CallStep` to `CloseStep`), which share what a call sees when it is served
(`Served`), what begins (`Begun`) and that calls elsewhere do not matter
(`Elsewhere`).

*Lives.* `LifeInv` says how far the history of a task and its state can be
apart: who is recorded was started and is stopped or deleted, and a started task
that is deleted has been told. `DeathInv` says that who is no longer waited for
is dead or lost, and that what the handler passes on, or the channel holds, has
been recorded. With `DeleteInv` a kill by an id meets only the incarnation whose
exit it is about. `CreateLives`, `ServeLives`, `ExitLives`, `HandlerLives` and
`ForwardLives` give the step of `Lives` for each action; `LifeStep` needs only
that step and nothing of the code. With an `"any"` client the mapping stands
still and there is nothing to show.

*PodRestore.* `ForkInv`: in a fork only a container whose spec could not be read
starts cold (`DecisionInv`); before the sentry has resumed no container has
memory, except in a sandbox that was started cold, where none is restored
(`SentryInv`); and once it has resumed, every container of the image has been
started, so what is started cold after that is not in the image or was started
once more (`ResumeInv`).

*Release.* `CommitInv`: what a run combined is its pin, its lock agrees unless
it rewrites, and what it built is what it combined; re-runs keep the sha of the
first attempt. `SoundInv`: at each of its steps a job has what the steps before
it made, a sha, every binary, every asset; it also gives the types of a job.
`LastInv`: when people wait for a run to end, the run that last left the queue
is the only one active, and what it has attached is what it built, with the lock
of its own files as notes; together with `CommitInv` this gives `OneRelease`
and, for a run that does not rewrite, `StampAsPromised`. `PublishedInv`: between
publishing and freezing nothing runs and nothing but the freeze is left to
commit, and from then on every checkout is frozen, so every job stops before it
pushes or uploads unless it was told to rewrite; `StackPyRewrites` and
`WorkflowRewrites` show that nothing else does.

*Tag.* `ImplementsTag` needs more than `PublishedFixed`: whoever publishes must
find the fork at the stack of the assets, and `OneRelease` is silent about the
fork. `TagInv` says that, when people wait for runs to end, one job at most is
active; that pins only grow and reach a run from the checkout by way of main;
and that, while the checkout is pinned to what the last run was queued for, the
refs which that run has pushed are still its stack: only a checkout with a
newer pin can have replaced them, and then nobody publishes what that run made.
A step that replaces what was published is a step of `Tag` because a job that
rewrites is active, which is what `restamping` is mapped to.
`PublishTag` is the step that publishes, `StepTag` goes through `Next`.

*RunscCmd.* `CmdInv`: a command holds its buffers exactly from `cmdOutput`'s
beginning to its deferred calls, no buffer has two holders, pooled buffers are
empty, and none is lost.

*Manifest.* `StackInv` follows the build. `CheckInv`: of an entry that passed
`check_exhaustive`, every commit is picked or skipped and not both, and a prefix
in pick names one commit, which no other such prefix names. The code only
compares the commits with a dictionary that later prefixes overwrite;
`Exhaustive` shows that this and the `KeyError` for a pick that is no longer in
it are enough. `PickInv`: every commit in the stack is one its entry picks, of
an entry whose turn it was, and those still to do come after it; `DoneInv`:
every commit an entry picks is in the stack or still to do; `OrderInv`: the
stack follows entries and heads; `LastInv`: what `mirror_target` chooses from
exists; `BuiltInv`: the mirrors are what it chose. `MapIsHonoured` then needs a
bijection between the keys of the map and the commits adapted, which there is
because keys are picks.

*PodCgroup.* `JoinInv` is the loop's invariant: `dir` consists of the parts
before `next` that name a directory (`IsUpTo`), and `last` is the last pod. With
the loop a variable of the model, no induction over the path is left.

Only model-checked is liveness, which is beyond the prover: `WaitReturns`,
`ExitReported`, `ExecExitReported`, `PodComesUp` and `RerunRepairs`.

## 6. Not modelled

* `Stats` (a conversion field by field), `Pids`, `Connect`, `Update`,
  `ResizePty`, `CloseIO`: they read, or forward to runsc, and change none of the
  state modelled here.
* Flags and arguments of runsc commands and the decoder of `runsc events`.
* The console platform, which `Create` uses and the last `Delete` closes
  (`changes/runsc_service.go:319`) after it released `s.mu`, without order between
  the two.
* The order of events that are sent with no lock held: TaskExecAdded, TaskPaused
  and TaskResumed (`changes/runsc_service.go:345`, `:417`) may follow what
  happened later. Nothing in the code orders them.
* Mounts, I/O copying and the functions that close the stdin fifo; that the
  copies end (`p.wg.Wait`, unbounded in the code, under `p.mu`) is assumed.
* A publisher that returns an error: `forward` panics and the shim ends.
* stack-check.yml and `stack.py --check-refs`, which only read; the wording of
  the notes.
* The shell scripts: straight-line commands around kubectl, ctr and docker.

What could be added: `Registry` with `ExecProcs`, for exec processes of a
container that is deleted and created again; `Release` with two tags that share
mirrors.
