-------------------------- MODULE PodCgroupProofs --------------------------
(***************************************************************************)
(* The sandbox joins the pod's cgroup, for cgroup paths of any length: the *)
(* loop of setPodCgroup has, after every round, joined the directories     *)
(* among the parts it has passed.                                          *)
(***************************************************************************)
EXTENDS PodCgroup, FiniteSetTheorems, SequenceTheorems, TLAPS

-----------------------------------------------------------------------------
(* The inductive invariant *)

Dir == Pods \cup Others

TypeInv ==
    /\ sandbox \in BOOLEAN /\ path \in Path \cup {NoPath}
    /\ result \in {"none", "joining", "created", "error"}

\* The state of the loop, before its round for the part next.
JoinInv ==
    result = "joining" =>
        /\ sandbox /\ path \in Path
        /\ IsLastPod(path.parts, last)
        /\ next \in 1 .. last + 1
        /\ dir \in Seq(Dir) /\ Len(dir) <= next - 1
        /\ IsUpTo(dir, path.parts, next - 1)

CgroupInv == TypeInv /\ JoinInv /\ SandboxJoinsPod

-----------------------------------------------------------------------------
(* Directories among the parts of a path *)

LEMMA DirsFinite == ASSUME NEW s, NEW n \in Nat PROVE IsFiniteSet(Dirs(s, n)) /\ Cardinality(Dirs(s, n)) \in Nat
<1>1. IsFiniteSet(1 .. n)
  BY FS_Interval
<1>2. Dirs(s, n) \subseteq 1 .. n
  BY DEF Dirs
<1> QED
  BY <1>1, <1>2, FS_Subset, FS_CardinalityType

\* One more part is one more directory, unless it names none.
LEMMA DirsStep ==
    ASSUME NEW s, NEW n \in Nat \ {0}
    PROVE  /\ s[n] \in Blank => Dirs(s, n) = Dirs(s, n - 1)
           /\ s[n] \notin Blank =>
                 /\ Dirs(s, n) = Dirs(s, n - 1) \cup {n}
                 /\ Cardinality(Dirs(s, n)) = Cardinality(Dirs(s, n - 1)) + 1
<1>1. 1 .. n = (1 .. n - 1) \cup {n} /\ n - 1 \in Nat /\ n \notin 1 .. n - 1
  OBVIOUS
<1>2. s[n] \in Blank => Dirs(s, n) = Dirs(s, n - 1)
  BY <1>1 DEF Dirs
<1>3. s[n] \notin Blank => Dirs(s, n) = Dirs(s, n - 1) \cup {n}
  BY <1>1 DEF Dirs
<1>4. Cardinality(Dirs(s, n - 1) \cup {n}) = Cardinality(Dirs(s, n - 1)) + 1
  <2>1. n \notin Dirs(s, n - 1)
    BY <1>1 DEF Dirs
  <2>2. IsFiniteSet(Dirs(s, n - 1))
    BY <1>1, DirsFinite
  <2> QED
    BY <2>1, <2>2, FS_AddElement
<1> QED
  BY <1>2, <1>3, <1>4

\* The place of a directory in the path is within the path.
LEMMA DirsPlace ==
    ASSUME NEW s, NEW n \in Nat, NEW k \in Dirs(s, n)
    PROVE  Cardinality(Dirs(s, k)) \in 1 .. Cardinality(Dirs(s, n))
<1>1. k \in Nat /\ k <= n /\ k \in Dirs(s, k) /\ Dirs(s, k) \subseteq Dirs(s, n)
  <2>1. k \in 1 .. n /\ s[k] \notin Blank
    BY DEF Dirs
  <2>2. k \in Nat /\ k >= 1 /\ k <= n
    BY <2>1
  <2>3. k \in Dirs(s, k)
    BY <2>1, <2>2 DEF Dirs
  <2>4. ASSUME NEW j \in Dirs(s, k) PROVE j \in Dirs(s, n)
    <3>1. j \in 1 .. k /\ s[j] \notin Blank
      BY DEF Dirs
    <3>2. j \in 1 .. n
      BY <2>2, <3>1
    <3> QED
      BY <3>1, <3>2 DEF Dirs
  <2> QED
    BY <2>2, <2>3, <2>4
<1>2. /\ IsFiniteSet(Dirs(s, k)) /\ Cardinality(Dirs(s, k)) \in Nat
      /\ IsFiniteSet(Dirs(s, n)) /\ Cardinality(Dirs(s, n)) \in Nat
  BY <1>1, DirsFinite
<1>3. Cardinality(Dirs(s, k)) <= Cardinality(Dirs(s, n))
  BY <1>1, <1>2, FS_Subset
<1>4. Cardinality(Dirs(s, k)) # 0
  BY <1>1, <1>2, FS_EmptySet
<1> QED
  BY <1>2, <1>3, <1>4

\* The parts of a path.
LEMMA PathParts ==
    ASSUME NEW p \in Path
    PROVE  \E n \in Nat : /\ p = [abs |-> p.abs, parts |-> p.parts] /\ p.abs \in BOOLEAN
                          /\ p.parts \in [1 .. n -> Part] /\ DOMAIN p.parts = 1 .. n
                          /\ Len(p.parts) = n
<1>1. PICK n \in 1 .. MaxParts : p.parts \in [1 .. n -> Part]
  BY DEF Path
<1>2. n \in Nat
  <2>1. MaxParts \in Nat
    BY PodCgroupAssumption
  <2> QED
    BY <2>1
<1>3. Len(p.parts) = n
  BY <1>1, <1>2
<1> QED
  BY <1>1, <1>2, <1>3 DEF Path

\* The path of the pod is a path.
LEMMA PodPathIsPath ==
    ASSUME JoinInv, result = "joining"
    PROVE  PodPath # NoPath
<1>1. PodPath \in [abs : BOOLEAN, parts : Seq(Dir)]
  BY PathParts DEF JoinInv, PodPath
<1> QED
  BY <1>1, PodCgroupAssumption DEF Dir

-----------------------------------------------------------------------------
(* The invariant is inductive *)

LEMMA InitCgroup == CgroupInit => CgroupInv
BY DEF CgroupInit, CgroupInv, TypeInv, JoinInv, SandboxJoinsPod

\* The bundle that is written without a pod.
LEMMA WriteNone ==
    ASSUME CgroupInv, result # "joining", WriteBundle, sandbox /\ path # NoPath => PodParts = {}
    PROVE  CgroupInv'
<1>1. /\ bundle'.parent = bundle.parent /\ result' \in {"created", "error"}
      /\ UNCHANGED <<sandbox, path, volumes, last, next, dir>>
  BY DEF WriteBundle, HasPodCgroup, Annotated
<1>2. TypeInv' /\ JoinInv'
  BY <1>1 DEF CgroupInv, TypeInv, JoinInv
<1>3. sandbox /\ path # NoPath => \A n : ~IsLastPod(path.parts, n)
  BY DEF IsLastPod, PodParts
<1>4. SandboxJoinsPod'
  BY <1>1, <1>3 DEF CgroupInv, SandboxJoinsPod
<1> QED
  BY <1>2, <1>4 DEF CgroupInv

LEMMA JoinCgroup == ASSUME CgroupInv, JoinPart PROVE CgroupInv'
<1> DEFINE s == path.parts
<1>1. /\ result = "joining" /\ next <= last /\ next' = next + 1
      /\ dir' = IF s[next] \in Blank THEN dir ELSE Append(dir, s[next])
      /\ UNCHANGED <<sandbox, path, volumes, bundle, last, result>>
  BY DEF JoinPart
<1>2. /\ sandbox /\ path \in Path /\ IsLastPod(s, last)
      /\ next \in 1 .. last + 1
      /\ dir \in Seq(Dir) /\ Len(dir) <= next - 1 /\ IsUpTo(dir, s, next - 1)
  BY <1>1 DEF CgroupInv, JoinInv
<1>3. last \in Nat /\ next \in Nat \ {0} /\ next' \in 1 .. last + 1 /\ next' - 1 = next /\ s[next] \in Part
  <2>1. PICK n \in Nat : s \in [1 .. n -> Part] /\ DOMAIN s = 1 .. n
    BY <1>2, PathParts
  <2>2. last \in 1 .. n
    BY <1>2, <2>1 DEF IsLastPod
  <2>3. next \in 1 .. n /\ last \in Nat /\ next' \in 1 .. last + 1 /\ next' - 1 = next
    <3>1. last \in Nat /\ last <= n
      BY <2>2
    <3>2. next \in Int /\ next >= 1
      BY <1>2, <3>1
    <3>3. next \in 1 .. n
      BY <1>1, <3>1, <3>2
    <3>4. next' \in 1 .. last + 1 /\ next' - 1 = next
      BY <1>1, <3>1, <3>2
    <3> QED
      BY <3>1, <3>3, <3>4
  <2>4. s[next] \in Part
    BY <2>1, <2>3
  <2>5. next \in Nat \ {0}
    BY <2>1, <2>3
  <2> QED
    BY <2>3, <2>4, <2>5
<1> HIDE DEF s
<1>4. dir' \in Seq(Dir) /\ Len(dir') <= next /\ IsUpTo(dir', s, next)
  <2>1. CASE s[next] \in Blank
    <3>1. Dirs(s, next) = Dirs(s, next - 1)
      BY <1>3, <2>1, DirsStep
    <3>2. dir' = dir
      BY <1>1, <2>1
    <3>3. IsUpTo(dir', s, next)
      BY <1>2, <3>1, <3>2 DEF IsUpTo
    <3>4. Len(dir) \in Nat
      BY <1>2, LenProperties
    <3> QED
      BY <1>2, <1>3, <3>2, <3>3, <3>4
  <2>2. CASE s[next] \notin Blank
    <3>1. /\ Dirs(s, next) = Dirs(s, next - 1) \cup {next}
          /\ Cardinality(Dirs(s, next)) = Cardinality(Dirs(s, next - 1)) + 1
      BY <1>3, <2>2, DirsStep
    <3>2. s[next] \in Dir /\ dir' = Append(dir, s[next])
      BY <1>1, <1>3, <2>2 DEF Part, Dir
    <3>3. Len(dir) \in Nat
      BY <1>2, LenProperties
    <3>4. /\ dir' \in Seq(Dir) /\ Len(dir') = Len(dir) + 1 /\ dir'[Len(dir) + 1] = s[next]
          /\ \A i \in 1 .. Len(dir) : dir'[i] = dir[i]
      BY <1>2, <3>2, AppendProperties
    <3>5. Len(dir) = Cardinality(Dirs(s, next - 1))
      BY <1>2 DEF IsUpTo
    <3>6. ASSUME NEW k \in Dirs(s, next) PROVE dir'[Cardinality(Dirs(s, k))] = s[k]
      <4>1. CASE k \in Dirs(s, next - 1)
        <5>1. next - 1 \in Nat
          BY <1>3
        <5>2. Cardinality(Dirs(s, k)) \in 1 .. Len(dir)
          BY <3>5, <4>1, <5>1, DirsPlace
        <5>3. dir[Cardinality(Dirs(s, k))] = s[k]
          BY <1>2, <4>1 DEF IsUpTo
        <5> QED
          BY <3>4, <5>2, <5>3
      <4>2. CASE k = next
        BY <3>1, <3>4, <3>5, <4>2
      <4> QED
        BY <3>1, <3>6, <4>1, <4>2
    <3>7. IsUpTo(dir', s, next)
      BY <3>1, <3>4, <3>5, <3>6 DEF IsUpTo
    <3>8. Len(dir') <= next
      BY <1>2, <1>3, <3>3, <3>4
    <3> QED
      BY <3>4, <3>7, <3>8
  <2> QED
    BY <2>1, <2>2
<1>5. JoinInv'
  BY <1>1, <1>2, <1>3, <1>4 DEF JoinInv, s
<1>6. TypeInv' /\ SandboxJoinsPod'
  BY <1>1 DEF CgroupInv, TypeInv, SandboxJoinsPod
<1> QED
  BY <1>5, <1>6 DEF CgroupInv

\* All parts up to the pod are joined; what was joined is shorter than a path
\* that goes on after the pod.
LEMMA JoinedCgroup == ASSUME CgroupInv, Joined PROVE CgroupInv'
<1> DEFINE s == path.parts
<1>1. /\ result = "joining" /\ next > last /\ result' \in {"created", "error"}
      /\ \/ bundle' = IF volumes = "updated" \/ HasPodCgroup
                      THEN [parent |-> Annotated, volumes |-> volumes] ELSE bundle
         \/ result' = "error" /\ bundle' = bundle
      /\ UNCHANGED <<sandbox, path, volumes, last, next, dir>>
  BY DEF Joined, WriteBundle
<1>2. /\ sandbox /\ path \in Path /\ IsLastPod(s, last)
      /\ next \in 1 .. last + 1
      /\ dir \in Seq(Dir) /\ Len(dir) <= next - 1 /\ IsUpTo(dir, s, next - 1)
  BY <1>1 DEF CgroupInv, JoinInv
<1>3. PICK n \in Nat : DOMAIN s = 1 .. n /\ Len(s) = n
  BY <1>2, PathParts
<1>4. last \in 1 .. n /\ next - 1 = last
  <2>1. last \in 1 .. n
    BY <1>2, <1>3 DEF IsLastPod
  <2> QED
    BY <1>1, <1>2, <2>1
<1>5. TypeInv' /\ JoinInv'
  BY <1>1 DEF CgroupInv, TypeInv, JoinInv
<1>0. CASE result' = "error" /\ bundle' = bundle
  BY <1>0, <1>1, <1>5 DEF CgroupInv, SandboxJoinsPod
<1>6. CASE HasPodCgroup /\ ~(result' = "error" /\ bundle' = bundle)
  <2>1. bundle'.parent = PodPath /\ bundle'.parent.abs = path.abs /\ bundle'.parent.parts = dir
    BY <1>1, <1>6 DEF Annotated, PodPath
  <2>2. PodPath # NoPath
    BY <1>1, PodPathIsPath DEF CgroupInv
  <2>3. last \in DOMAIN s /\ IsLastPod(s, last) /\ IsUpTo(dir, s, last)
    BY <1>2, <1>3, <1>4
  <2>4. SandboxJoinsPod'
    BY <1>1, <1>2, <2>1, <2>2, <2>3 DEF SandboxJoinsPod
  <2> QED
    BY <1>5, <2>4 DEF CgroupInv
<1>7. CASE ~HasPodCgroup /\ ~(result' = "error" /\ bundle' = bundle)
  <2>1. bundle'.parent = bundle.parent
    BY <1>1, <1>7 DEF Annotated
  <2>2. \A m, l \in DOMAIN s : ~(IsLastPod(s, m) /\ l > m)
    <3> SUFFICES ASSUME NEW m \in DOMAIN s, NEW l \in DOMAIN s, IsLastPod(s, m), l > m PROVE FALSE
      OBVIOUS
    <3>1. m = last
      <4>1. ~(last > m) /\ ~(m > last)
        BY <1>2, <1>3, <1>4 DEF IsLastPod
      <4> QED
        BY <1>3, <1>4, <4>1
    <3>2. dir = s
      BY <1>1, <1>7 DEF HasPodCgroup, PodPath
    <3>3. Len(dir) <= last
      BY <1>2, <1>4
    <3> QED
      BY <1>3, <1>4, <3>1, <3>2, <3>3
  <2>3. SandboxJoinsPod'
    BY <1>1, <2>1, <2>2 DEF CgroupInv, SandboxJoinsPod
  <2> QED
    BY <1>5, <2>3 DEF CgroupInv
<1> QED
  BY <1>0, <1>6, <1>7

LEMMA NewInitCgroup == ASSUME CgroupInv, NewInit PROVE CgroupInv'
<1>1. result # "joining" /\ result # "created"
  BY DEF NewInit
<1>2. CASE volumes = "error"
  BY <1>1, <1>2 DEF NewInit, CgroupInv, TypeInv, JoinInv, SandboxJoinsPod
<1>3. CASE WriteBundle /\ (sandbox /\ path # NoPath => PodParts = {})
  BY <1>1, <1>3, WriteNone
<1>4. CASE /\ sandbox /\ path # NoPath
           /\ \E i \in PodParts : (\A j \in PodParts : j <= i) /\ last' = i
           /\ next' = 1 /\ dir' = << >> /\ result' = "joining"
           /\ UNCHANGED <<sandbox, path, volumes, bundle>>
  <2>1. path \in Path /\ IsLastPod(path.parts, last') /\ last' \in Nat
    <3>1. path \in Path
      BY <1>4 DEF CgroupInv, TypeInv
    <3>2. PICK n \in Nat : DOMAIN path.parts = 1 .. n
      BY <3>1, PathParts
    <3>3. last' \in PodParts /\ \A j \in PodParts : j <= last'
      BY <1>4
    <3>4. last' \in 1 .. n /\ path.parts[last'] \in Pods
      BY <3>2, <3>3 DEF PodParts
    <3>5. \A k \in DOMAIN path.parts : k > last' => path.parts[k] \notin Pods
      BY <3>2, <3>3, <3>4 DEF PodParts
    <3> QED
      BY <3>1, <3>2, <3>4, <3>5 DEF IsLastPod
  <2>2. Dirs(path.parts, 0) = {}
    BY DEF Dirs
  <2>3. IsUpTo(<< >>, path.parts, 0)
    BY <2>2, FS_EmptySet DEF IsUpTo
  <2>4. JoinInv'
    BY <1>4, <2>1, <2>3 DEF JoinInv
  <2>5. TypeInv' /\ SandboxJoinsPod'
    BY <1>4 DEF CgroupInv, TypeInv, SandboxJoinsPod
  <2> QED
    BY <2>4, <2>5 DEF CgroupInv
<1> QED
  BY <1>2, <1>3, <1>4 DEF NewInit

LEMMA RestCgroup ==
    ASSUME CgroupInv, Repair \/ UNCHANGED cgroupVars
    PROVE  CgroupInv'
<1>1. CASE Repair
  BY <1>1 DEF Repair, CgroupInv, TypeInv, JoinInv, SandboxJoinsPod
<1>2. CASE UNCHANGED cgroupVars
  BY <1>2 DEF cgroupVars, CgroupInv, TypeInv, JoinInv, SandboxJoinsPod
<1> QED
  BY <1>1, <1>2

-----------------------------------------------------------------------------
(* Theorem *)

\* The sandbox joins the cgroup of its pod (setPodCgroup).
THEOREM JoinsPod == CgroupSpec => []SandboxJoinsPod
<1>1. CgroupInv /\ [CgroupNext]_cgroupVars => CgroupInv'
  BY NewInitCgroup, JoinCgroup, JoinedCgroup, RestCgroup DEF CgroupNext
<1>2. CgroupInv => SandboxJoinsPod
  BY DEF CgroupInv
<1> QED
  BY <1>1, <1>2, InitCgroup, PTL DEF CgroupSpec
=============================================================================
