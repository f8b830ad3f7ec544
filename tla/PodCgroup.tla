----------------------------- MODULE PodCgroup -----------------------------
(***************************************************************************)
(* The bundle that newInit prepares for runsc create: setPodCgroup of      *)
(* runsc_service.go finds the pod's cgroup in the container's cgroup path, *)
(* so that the sandbox joins the pod's cgroup and not that of its pause    *)
(* container.                                                              *)
(*                                                                         *)
(* A path is [abs, parts]: whether it starts with the separator, and what  *)
(* strings.Split finds after that, "" for a doubled or trailing separator. *)
(* kubelet's paths have no "..".  External: utils.UpdateVolumeAnnotations. *)
(***************************************************************************)
EXTENDS Naturals, Sequences, FiniteSets

CONSTANTS
    Pods,       \* names that start with "pod"
    Others,     \* other names
    MaxParts,   \* bound on the length of a path
    NoPath      \* no cgroup path, no annotation

\* Parts that name no directory.
Blank == {"", "."}

\* The kinds of path parts are disjoint, and none is no path.
ASSUME PodCgroupAssumption ==
    /\ Pods \cap Others = {} /\ Blank \cap (Pods \cup Others) = {}
    /\ MaxParts \in Nat
    /\ NoPath \notin [abs : BOOLEAN, parts : Seq(Pods \cup Others)]

VARIABLES
    sandbox,    \* utils.IsSandbox
    path,       \* spec.Linux.CgroupsPath
    volumes,    \* UpdateVolumeAnnotations: "same", "updated" or "error"
    bundle,     \* what config.json of the bundle says: [parent, volumes]
    last,       \* i of setPodCgroup: the last part that starts with "pod"
    next,       \* j of its inner loop
    dir,        \* the parts joined so far
    result      \* newInit: "none", "joining", "created" or "error"

cgroupVars == <<sandbox, path, volumes, bundle, last, next, dir, result>>

Part == Pods \cup Others \cup Blank
Path == {p \in [abs : BOOLEAN, parts : UNION {[1 .. n -> Part] : n \in 1 .. MaxParts}] :
            p.parts[1] = "" => p.abs}

CgroupInit ==
    /\ sandbox \in BOOLEAN /\ path \in Path \cup {NoPath}
    /\ volumes \in {"same", "updated", "error"}
    /\ bundle = [parent |-> NoPath, volumes |-> "same"]
    /\ last = 0 /\ next = 0 /\ dir = <<>>
    /\ result = "none"

PodParts == {i \in DOMAIN path.parts : path.parts[i] \in Pods}

\* Add back the initial separator that joining dropped.
PodPath == [abs |-> path.abs, parts |-> dir]

\* setPodCgroup returns TRUE: there is such a part and it is not the path itself.
HasPodCgroup == result = "joining" /\ PodPath # path

\* Fault: updated || setPodCgroup(spec), which is not called if updated.
MutAnnotated == IF HasPodCgroup /\ volumes # "updated" THEN PodPath ELSE bundle.parent
\* The annotation in the spec after setPodCgroup.
Annotated == IF HasPodCgroup THEN PodPath ELSE bundle.parent

\* The rest of newInit: write the spec if anything changed, which may fail.
WriteBundle ==
    LET updated == volumes = "updated" \/ HasPodCgroup IN
    /\ \/ /\ bundle' = IF updated THEN [parent |-> Annotated, volumes |-> volumes] ELSE bundle
          /\ result' = "created"
       \/ updated /\ result' = "error" /\ UNCHANGED bundle
    /\ UNCHANGED <<sandbox, path, volumes, last, next, dir>>

\* newInit reads the spec, updates the volumes or stops, and has setPodCgroup
\* search backwards for a pod.  A Create that failed is tried again on the same
\* bundle.
NewInit ==
    /\ result \in {"none", "error"}
    /\ \/ /\ volumes = "error" /\ result' = "error"
          /\ UNCHANGED <<sandbox, path, volumes, bundle, last, next, dir>>
       \/ /\ volumes # "error"
          /\ sandbox /\ path # NoPath => PodParts = {}
          /\ WriteBundle
       \/ /\ volumes # "error" /\ sandbox /\ path # NoPath
          /\ \E i \in PodParts : (\A j \in PodParts : j <= i) /\ last' = i
          /\ next' = 1 /\ dir' = <<>> /\ result' = "joining"
          /\ UNCHANGED <<sandbox, path, volumes, bundle>>

\* filepath.Join(dir, part) on cleaned relative paths.
JoinPart ==
    /\ result = "joining" /\ next <= last
    /\ dir' = IF path.parts[next] \in Blank THEN dir ELSE Append(dir, path.parts[next])
    /\ next' = next + 1
    /\ UNCHANGED <<sandbox, path, volumes, bundle, last, result>>

Joined == result = "joining" /\ next > last /\ WriteBundle

\* The volume's hints have been corrected.
Repair ==
    /\ result = "error" /\ volumes = "error" /\ volumes' = "updated" /\ result' = "none"
    /\ UNCHANGED <<sandbox, path, bundle, last, next, dir>>

CgroupNext == NewInit \/ JoinPart \/ Joined \/ Repair
CgroupSpec == CgroupInit /\ [][CgroupNext]_cgroupVars

-----------------------------------------------------------------------------
(* Properties *)

\* The parts of s up to n that name a directory, whatever separators are
\* doubled, and the path that consists of them.
Dirs(s, n) == {k \in 1 .. n : s[k] \notin Blank}
IsUpTo(d, s, n) ==
    /\ Len(d) = Cardinality(Dirs(s, n))
    /\ \A k \in Dirs(s, n) : d[Cardinality(Dirs(s, k))] = s[k]
IsLastPod(s, n) == n \in DOMAIN s /\ s[n] \in Pods /\ \A k \in DOMAIN s : k > n => s[k] \notin Pods

\* "the sandbox joins the pod cgroup. Otherwise, the sandbox would join the
\* pause container cgroup." (runsc_service.go:760)  When a sandbox whose path
\* lies inside a pod's directory is created, its bundle names that directory,
\* the deepest whose name starts with "pod", by an absolute path if the
\* container's is; nothing else is ever annotated.
SandboxJoinsPod ==
    /\ bundle.parent # NoPath =>
         /\ sandbox /\ bundle.parent.abs = path.abs
         /\ \E n \in DOMAIN path.parts :
               IsLastPod(path.parts, n) /\ IsUpTo(bundle.parent.parts, path.parts, n)
    /\ result = "created" /\ sandbox /\ path # NoPath =>
         \A n, l \in DOMAIN path.parts :
            IsLastPod(path.parts, n) /\ l > n /\ path.parts[l] \in Others => bundle.parent # NoPath
=============================================================================
