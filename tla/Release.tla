------------------------------ MODULE Release ------------------------------
(***************************************************************************)
(* From a manifest to a published release: tools/stack.py (main,           *)
(* build_stack, reconcile_lock, push_and_review), run by a developer and   *)
(* by the release workflow (.github/workflows/release.yml), which builds   *)
(* both arches, renders the notes (tools/notes.py) and fills the release.  *)
(*                                                                         *)
(* One tag, one manifest, one pull request whose head moves.  A stack is   *)
(* named by the pin it was built from: cherry-picks are deterministic, and *)
(* another pin is another branch_sha and version stamp.  0 is "none".      *)
(***************************************************************************)
EXTENDS Naturals, FiniteSets

CONSTANTS
    MaxRuns,        \* bound on the runs of the release workflow
    Arches,         \* amd64 and arm64
    MaxHead,        \* bound on how often the pull request's head moves
    MaxFaults,      \* bound on failing commands and jobs
    Serial,         \* people wait for a run to end before they go on
    DevPushes       \* developers also run stack.py without --dry-run

ASSUME ReleaseAssumption ==
    /\ MaxRuns \in Nat /\ IsFiniteSet(Arches)
    /\ "sums" \notin Arches
    /\ MaxHead \in Nat \ {0} /\ MaxFaults \in Nat
    /\ {Serial, DevPushes} \subseteq BOOLEAN

VARIABLES
    head,       \* the pull request's head
    copy,       \* the developer's checkout of manifest and lock
    main,       \* the same files on main
    fork,       \* the fork's refs neev/mirror and neev/cr: their stacks
    base,       \* the fork's neev/base: "absent", "tag" or "merged"
    review,     \* the stack the review pull request describes
    release,    \* state, notes and assets of the tag's GitHub release
    job,        \* the state of each run and of the developer's command
    last,       \* the workflow run that last left the queue
    faults      \* commands that failed so far

vars == <<head, copy, main, fork, base, review, release, job, last, faults>>
forkVars == <<fork, base, review>>

\* Runs have numbers; 0 stands for a developer who runs stack.py in a checkout.
Dev == 0
Runs == 1 .. MaxRuns
Procs == Runs \cup {Dev}
Assets == Arches \cup {"sums"}
Files == [pin : 1 .. MaxHead, lock : 0 .. MaxHead, frozen : BOOLEAN]

\* Steps of stack.py, in order, and of the jobs build and publish.
StackSteps == {"combine", "base", "mirror", "branch", "review"}
JobSteps == {"pick"} \cup StackSteps \cup {"build", "notes", "upload"}

NoJob == [at |-> "idle", files |-> [pin |-> 1, lock |-> 0, frozen |-> FALSE],
          rewrite |-> FALSE, write |-> FALSE, dry |-> FALSE, lease |-> 0, leased |-> FALSE,
          sha |-> 0, built |-> [x \in Assets |-> 0], sent |-> {}, failedAt |-> "none"]

Init ==
    /\ head = 1
    /\ copy = [pin |-> 1, lock |-> 0, frozen |-> FALSE] /\ main = copy
    /\ fork = [r \in {"mirror", "branch"} |-> 0] /\ base = "absent" /\ review = 0
    /\ release = [state |-> "none", notes |-> 0, assets |-> [x \in Assets |-> 0]]
    /\ job = [p \in Procs |-> NoJob]
    /\ last = Dev /\ faults = 0

Active(p) == job[p].at \in JobSteps
Quiet == \A p \in Procs : ~Active(p)
\* The release is finished: the summary of the last run says how to publish it.
Offered == last \in Runs /\ job[last].at = "done" /\ \A r \in Runs : ~Active(r)

\* Fault: what was read of one ref is used for the next.
MutGo(p, step) == job' = [job EXCEPT ![p].at = step]
\* The next step of a command or a run.
Go(p, step) == job' = [job EXCEPT ![p].at = step, ![p].leased = FALSE, ![p].lease = 0]
\* stack.py prints the error and exits 1; a job of the workflow fails.
Stop(p) ==
    job' = [job EXCEPT ![p] = IF p = Dev THEN NoJob
                              ELSE [@ EXCEPT !.at = "failed", !.failedAt = job[p].at, !.leased = FALSE, !.lease = 0]]

-----------------------------------------------------------------------------
(* People (external) *)

\* The pull request is rebased or gains a commit.
HeadMoves ==
    /\ head < MaxHead /\ head' = head + 1
    /\ UNCHANGED <<copy, main, forkVars, release, job, last, faults>>

\* A published release is frozen before anything else is done to it.
Free == Serial => Quiet /\ (release.state = "published" => main.frozen)

Repin ==
    /\ Free /\ copy.pin # head
    /\ copy' = [copy EXCEPT !.pin = head]
    /\ UNCHANGED <<head, main, forkVars, release, job, last, faults>>

\* --allow-rewrite is said to be for "unpublished tags only", which nothing
\* checks.  A dry run that may not write the lock changes nothing: left out.
RunLocally ==
    /\ Free /\ job[Dev].at = "idle"
    /\ \E write, rewrite \in BOOLEAN, dry \in {TRUE, ~DevPushes} :
         /\ dry => write
         /\ job' = [job EXCEPT ![Dev] = [NoJob EXCEPT !.at = "combine", !.files = copy,
                      !.write = write, !.rewrite = rewrite, !.dry = dry]]
    /\ UNCHANGED <<head, copy, main, forkVars, release, last, faults>>

Queued(r, rewrite) ==
    /\ job[r].at = "idle" /\ \A q \in 1 .. r - 1 : job[q].at # "idle"
    /\ job' = [job EXCEPT ![r] = [NoJob EXCEPT !.at = "pick", !.files = main', !.rewrite = rewrite]]
    /\ last' = r

\* on: push, for commits that touch a manifest; a lock alone starts no run.
Commit ==
    /\ Serial => Quiet
    /\ copy # main /\ main' = copy
    /\ IF [copy EXCEPT !.lock = 0] = [main EXCEPT !.lock = 0]
       THEN UNCHANGED <<job, last>>
       ELSE \E r \in Runs : Queued(r, FALSE)
    /\ UNCHANGED <<head, copy, forkVars, release, faults>>

\* on: workflow_dispatch.  "A dispatch asking to rewrite one is the deliberate
\* exception: restamping a published tag."
Dispatch ==
    /\ Free /\ UNCHANGED main
    /\ \E r \in Runs, rewrite \in BOOLEAN : Queued(r, rewrite)
    /\ UNCHANGED <<head, copy, forkVars, release, faults>>

\* "Re-run failed jobs", or all of them: on the files of the first attempt.
Rerun(r) ==
    /\ job[r].at = "failed" /\ (Serial => Quiet /\ r = last)
    /\ LET failed == IF job[r].failedAt \in StackSteps THEN "combine"
                     ELSE IF job[r].failedAt = "upload" THEN "notes" ELSE job[r].failedAt
       IN  \E step \in {failed, "pick"} :
             job' = [job EXCEPT ![r].at = step, ![r].sent = {},
                       ![r].built = IF step \in {"build", "notes"} THEN @ ELSE NoJob.built]
    /\ last' = r
    /\ UNCHANGED <<head, copy, main, forkVars, release, faults>>

\* gh release edit --draft=false, once the run is verified ...
Publish ==
    /\ release.state = "draft" /\ Offered
    /\ Serial => Quiet /\ copy = main /\ job[last].files = main
    /\ release' = [release EXCEPT !.state = "published"]
    /\ UNCHANGED <<head, copy, main, forkVars, job, last, faults>>

\* ... and frozen: true on the manifest.
Freeze ==
    /\ release.state = "published" /\ ~copy.frozen
    /\ Serial => Quiet
    /\ copy' = [copy EXCEPT !.frozen = TRUE]
    /\ UNCHANGED <<head, main, forkVars, release, job, last, faults>>

\* Somebody merges the review pull request; somebody deletes the base branch.
MergeReview ==
    /\ review # 0 /\ base = "tag" /\ base' = "merged"
    /\ UNCHANGED <<head, copy, main, fork, review, release, job, last, faults>>
DeleteBase ==
    /\ base = "merged" /\ base' = "absent"
    /\ UNCHANGED <<head, copy, main, fork, review, release, job, last, faults>>

-----------------------------------------------------------------------------
(* tools/stack.py *)

\* Fault: a frozen manifest is rebuilt like any other.
MutFrozenRefuses(p) == FALSE
\* main: the gate on a published build.
FrozenRefuses(p) == job[p].files.frozen /\ ~job[p].rewrite

\* Fault: a lock that differs is rebuilt, not refused.
MutLockRefuses(p) == job[p].files.lock = 0 /\ ~job[p].write
\* reconcile_lock: no lock and not told to write one, or a lock that differs
\* and not told to rewrite it.
LockRefuses(p) ==
    LET f == job[p].files
    IN  f.lock # f.pin /\ IF f.lock = 0 THEN ~job[p].write ELSE ~job[p].rewrite

\* The gate, build_stack on the pull request as it is now, reconcile_lock.
\* The lock is written next to the manifest only with --write-lock.
Combine(p) ==
    /\ job[p].at = "combine"
    /\ LET f == job[p].files IN
       \/ FrozenRefuses(p) /\ Stop(p) /\ UNCHANGED copy
       \/ ~FrozenRefuses(p) /\ f.pin # head /\ Stop(p) /\ UNCHANGED copy
       \/ ~FrozenRefuses(p) /\ f.pin = head /\ LockRefuses(p) /\ Stop(p) /\ UNCHANGED copy
       \/ /\ ~FrozenRefuses(p) /\ f.pin = head /\ ~LockRefuses(p)
          /\ copy' = IF p = Dev /\ job[p].write THEN [copy EXCEPT !.lock = f.pin] ELSE copy
          /\ job' = [job EXCEPT ![p] = IF job[p].dry THEN NoJob ELSE [@ EXCEPT !.sha = f.pin, !.at = "base"]]
    /\ UNCHANGED <<head, main, forkVars, release, last, faults>>

\* ensure_base_branch: create it, leave it, or stop; never force it.
EnsureBase(p) ==
    /\ job[p].at = "base"
    /\ IF base = "merged" THEN Stop(p) /\ UNCHANGED base ELSE Go(p, "mirror") /\ base' = "tag"
    /\ UNCHANGED <<head, copy, main, fork, review, release, last, faults>>

\* Fault: the push expects that the ref does not exist yet.
MutReadRef(p) ==
    /\ job[p].at \in {"mirror", "branch"} /\ ~job[p].leased
    /\ job' = [job EXCEPT ![p].leased = TRUE, ![p].lease = 0]
    /\ UNCHANGED <<head, copy, main, forkVars, release, last, faults>>
\* push_ref: git ls-remote of the ref, ...
ReadRef(p) ==
    /\ job[p].at \in {"mirror", "branch"} /\ ~job[p].leased
    /\ job' = [job EXCEPT ![p].leased = TRUE, ![p].lease = fork[job[p].at]]
    /\ UNCHANGED <<head, copy, main, forkVars, release, last, faults>>

\* Fault: a ref that exists is left as it is.
MutPushRef(p) ==
    /\ job[p].at \in {"mirror", "branch"} /\ job[p].leased
    /\ LET ref == job[p].at IN
       IF fork[ref] = job[p].lease
       THEN /\ fork' = [fork EXCEPT ![ref] = IF @ = 0 THEN job[p].sha ELSE @]
            /\ Go(p, IF ref = "mirror" THEN "branch" ELSE "review")
       ELSE Stop(p) /\ UNCHANGED fork
    /\ UNCHANGED <<head, copy, main, base, review, release, last, faults>>
\* ... then git push --force-with-lease of what was read.
PushRef(p) ==
    /\ job[p].at \in {"mirror", "branch"} /\ job[p].leased
    /\ LET ref == job[p].at IN
       IF fork[ref] = job[p].lease
       THEN fork' = [fork EXCEPT ![ref] = job[p].sha] /\ Go(p, IF ref = "mirror" THEN "branch" ELSE "review")
       ELSE Stop(p) /\ UNCHANGED fork
    /\ UNCHANGED <<head, copy, main, base, review, release, last, faults>>

\* push_and_review: edit the open pull request or create it as a draft.  The
\* tool's result is the sha the next job builds.
Review(p) ==
    /\ job[p].at = "review" /\ review' = job[p].sha
    /\ IF p = Dev THEN job' = [job EXCEPT ![p] = NoJob] ELSE Go(p, "build")
    /\ UNCHANGED <<head, copy, main, fork, base, release, last, faults>>

-----------------------------------------------------------------------------
(* .github/workflows/release.yml *)

\* Pick the manifest to release: a frozen one is skipped unless asked for.
Pick(r) ==
    /\ job[r].at = "pick"
    /\ Go(r, IF job[r].files.frozen /\ ~job[r].rewrite THEN "skipped" ELSE "combine")
    /\ UNCHANGED <<head, copy, main, forkVars, release, last, faults>>

\* Fault: the job builds the pull request as it is by now.
MutBuild(r, a) ==
    /\ job[r].at = "build" /\ job[r].built[a] = 0
    /\ job' = [job EXCEPT ![r].built[a] = head]
    /\ UNCHANGED <<head, copy, main, forkVars, release, last, faults>>
\* build: one job per arch, on the exact commit; the artifacts belong to the run.
Build(r, a) ==
    /\ job[r].at = "build" /\ job[r].built[a] = 0
    /\ job' = [job EXCEPT ![r].built[a] = job[r].sha]
    /\ UNCHANGED <<head, copy, main, forkVars, release, last, faults>>

\* Fault: publishing does not wait for both arches.
MutChecksum(r) ==
    /\ job[r].at = "build" /\ \E a \in Arches : job[r].built[a] # 0
    /\ job' = [job EXCEPT ![r].built["sums"] = job[r].sha, ![r].at = "notes"]
    /\ UNCHANGED <<head, copy, main, forkVars, release, last, faults>>
\* publish needs both arches: download the artifacts and checksum them.
Checksum(r) ==
    /\ job[r].at = "build" /\ \A a \in Arches : job[r].built[a] # 0
    /\ job' = [job EXCEPT ![r].built["sums"] = job[r].sha, ![r].at = "notes"]
    /\ UNCHANGED <<head, copy, main, forkVars, release, last, faults>>

\* notes.py renders the lock of the checkout; the release is edited, whatever
\* its state, or created as a draft.
Notes(r) ==
    /\ job[r].at = "notes" /\ Go(r, "upload")
    /\ release' = [release EXCEPT !.notes = job[r].files.lock, !.state = IF @ = "none" THEN "draft" ELSE @]
    /\ UNCHANGED <<head, copy, main, forkVars, last, faults>>

\* gh release upload --clobber, an asset at a time in any order.
Upload(r, x) ==
    /\ job[r].at = "upload" /\ x \notin job[r].sent
    /\ release' = [release EXCEPT !.assets[x] = job[r].built[x]]
    /\ job' = [job EXCEPT ![r].sent = @ \cup {x}, ![r].at = IF job[r].sent \cup {x} = Assets THEN "done" ELSE @]
    /\ UNCHANGED <<head, copy, main, forkVars, last, faults>>

\* Any command of any step may fail: network, token, runner, a timeout.
Fault(p) ==
    /\ Active(p) /\ faults < MaxFaults /\ faults' = faults + 1
    /\ Stop(p)
    /\ UNCHANGED <<head, copy, main, forkVars, release, last>>

-----------------------------------------------------------------------------
People == HeadMoves \/ Repin \/ RunLocally \/ Commit \/ Dispatch \/ Publish \/ Freeze \/ MergeReview \/ DeleteBase
StackPy(p) == Combine(p) \/ EnsureBase(p) \/ ReadRef(p) \/ PushRef(p) \/ Review(p)
Workflow(r) ==
    \/ Pick(r) \/ Checksum(r) \/ Notes(r)
    \/ \E a \in Arches : Build(r, a)
    \/ \E x \in Assets : Upload(r, x)

Next ==
    \/ People
    \/ \E p \in Procs : StackPy(p) \/ Fault(p)
    \/ \E r \in Runs : Workflow(r) \/ Rerun(r)

Spec == Init /\ [][Next]_vars

\* Commands and runners take every step they have, and maintainers, who also
\* do other things, re-run what failed.
FairSpec ==
    /\ Spec
    /\ \A p \in Procs : WF_vars(StackPy(p))
    /\ \A r \in Runs : WF_vars(Workflow(r)) /\ SF_vars(Rerun(r))

-----------------------------------------------------------------------------
(* Properties *)

\* Types; a lease is read for the ref that is pushed next (push_ref).
TypeOK ==
    /\ head \in 1 .. MaxHead /\ copy \in Files /\ main \in Files
    /\ fork \in [{"mirror", "branch"} -> 0 .. MaxHead]
    /\ base \in {"absent", "tag", "merged"} /\ review \in 0 .. MaxHead
    /\ release \in [state : {"none", "draft", "published"}, notes : 0 .. MaxHead,
                    assets : [Assets -> 0 .. MaxHead]]
    /\ last \in Procs /\ faults \in 0 .. MaxFaults
    /\ \A p \in Procs :
         /\ job[p].at \in JobSteps \cup {"idle", "done", "failed", "skipped"}
         /\ job[p].files \in Files /\ job[p].sha \in 0 .. MaxHead
         /\ job[p].leased => job[p].at \in {"mirror", "branch"}

\* "One run produces one release: combine the stack, build both arches from
\* the exact commit the combine step produced, then attach everything to a
\* single draft." (release.yml:3)  What is offered for publishing is, in every
\* part, the stack of one run.
OneRelease ==
    Offered => \A x, y \in Assets : release.assets[x] = release.assets[y] /\ release.assets[x] # 0

\* The notes name the build the assets are: "runsc --version on a node must
\* match the Version stamp in the release notes" (docs/RELEASING.md:115).  A
\* run that was asked to rewrite is excepted: it builds what it combined and
\* renders the lock as it was committed.
StampAsPromised ==
    Offered /\ ~job[last].rewrite =>
        \A a \in Arches : release.assets[a] = release.notes

\* "Pinning the SHA rather than the branch keeps the build honest even if the
\* branch is moved while this run is in flight." (release.yml:146)  What a run
\* built is what it combined and, unless it was asked to rewrite, the stack
\* that was committed, even while other runs push.
ExactCommit ==
    \A r \in Runs : \A x \in Assets :
        job[r].built[x] # 0 =>
            /\ job[r].built[x] = job[r].sha
            /\ ~job[r].rewrite => job[r].built[x] = job[r].files.lock

\* Somebody was asked to rewrite the tag and is at it.
Restamping == \E p \in Procs : Active(p) /\ job[p].rewrite

\* "A published tag whose branch has moved is the drift this whole pipeline
\* exists to prevent, so a mismatch stops the run unless it is explicitly
\* authorised." (stack.py:397)  Nothing of a published release changes, nor do
\* the refs it was built from, whatever is re-pinned, re-run, dispatched, pushed
\* or merged later, except while somebody told to rewrite the tag is at it.
PublishedFixed ==
    [][release.state = "published" /\ ~Restamping => UNCHANGED <<release, fork>>]_vars

\* "One run produces one release: combine the stack, build both arches from the
\* exact commit the combine step produced, then attach everything to a single
\* draft. Nothing is published without a human" (release.yml:3): a release
\* changes in pieces until it is published, and after that only while it is
\* restamped on request; it is published when all its assets are of the one
\* stack that the mirrors and the branch of the fork are.
PublicTag == INSTANCE Tag WITH
    Refs <- {"mirror", "branch"}, Stacks <- 1 .. MaxHead, None <- 0,
    state <- release.state, notes <- release.notes, assets <- release.assets, refs <- fork,
    restamping <- Restamping
ImplementsTag == PublicTag!Spec

\* A failed run is repaired by running it again: it ends with a release unless
\* what it was to build moved, the review was merged, or the tag was frozen.
RerunRepairs ==
    \A r \in Runs :
        job[r].at = "failed" ~>
            \/ job[r].at \in {"done", "skipped"} \/ r # last
            \/ head # job[r].files.pin \/ job[r].files.lock # job[r].files.pin
            \/ base = "merged"
=============================================================================
