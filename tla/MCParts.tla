------------------------------- MODULE MCParts -------------------------------
(***************************************************************************)
(* Three small parts of the repository that share no state, explored side  *)
(* by side: runsc commands that use the buffer pool (RunscCmd), the        *)
(* evaluation of a manifest (Manifest) and the annotation of a bundle      *)
(* (PodCgroup).  An initial state belongs to one of them; the others rest. *)
(* Their definitions have names of their own, so that all are extended.    *)
(***************************************************************************)
EXTENDS MCRunscCmd, Manifest, PodCgroup

-----------------------------------------------------------------------------
(* Manifests.  Shas have two binary digits, which is enough for prefixes   *)
(* that are ambiguous, nested or name nothing.                             *)

Shas == [1 .. 2 -> {0, 1}]
ShaPrefixes == [1 .. 1 -> {0, 1}] \cup Shas
UpTo(S, n) == UNION {[1 .. k -> S] : k \in 0 .. n}

\* One entry, every list of at most two picks and two skips, at most one
\* adapted commit, a pull request of up to three commits.
Entry == [source : {"google"}, pr : {1}, pick : UpTo(ShaPrefixes, 2), skip : UpTo(ShaPrefixes, 2),
          map : {{}} \cup {{p} : p \in ShaPrefixes}]
OneEntry == {<<e>> : e \in {e \in Entry : e.map \subseteq ToSet(e.pick) \cup {<<0, 0>>}}}

\* Two entries on two pull requests that pick and skip whole shas, or three
\* that pick one each; two repositories may have given them one number.
Simple == {[source |-> n[1], pr |-> n[2], pick |-> p, skip |-> s, map |-> {}] :
              n \in {<<"google", 1>>, <<"google", 2>>, <<"fork", 1>>}, p \in {<<<<0, 0>>>>, <<<<0, 1>>>>, <<<<0, 1>>, <<0, 0>>>>, <<<<0, 0>>, <<0, 1>>>>},
              s \in {<<>>, <<<<0, 0>>>>, <<<<0, 1>>>>}}
Triples == {e \in Simple : Len(e.pick) = 1 /\ e.skip # <<<<0, 1>>>>}
ManyEntries == [1 .. 2 -> Simple] \cup [1 .. 3 -> Triples]

\* Which digits a sha has does not matter, so the first commit is 00.
Commits == {s \in UpTo(Shas, 3) : IsInjective(s) /\ (s # <<>> => s[1] = <<0, 0>>)}
SomeHeads == {[q \in {"google", "fork"} \X {1, 2} |->
                 IF q = <<"google", 1>> THEN first ELSE <<<<0, 0>>, <<0, 1>>>>] : first \in Commits}

SomeStacks == OneEntry \cup ManyEntries

-----------------------------------------------------------------------------
(* Cgroup paths of up to four parts, with pods in any place, doubled and   *)
(* trailing separators and "." parts.                                      *)

SomePods   == {"pod1", "podman"}
SomeOthers == {"kubepods", "c1"}

-----------------------------------------------------------------------------

ManifestRests ==
    /\ stack = <<>> /\ heads = <<>> /\ entry = 1 /\ todo = {} /\ picked = <<>> /\ mirror = <<>>
    /\ out = "rest"
CgroupRests ==
    /\ sandbox = FALSE /\ path = NoPath /\ volumes = "same"
    /\ bundle = [parent |-> NoPath, volumes |-> "same"]
    /\ last = 0 /\ next = 0 /\ dir = <<>> /\ result = "rest"

PartsInit ==
    /\ Init
    /\ \/ ManifestRests /\ CgroupRests
       \/ StackInit /\ CgroupRests
       \/ ManifestRests /\ CgroupInit

RunscCmdStep == /\ out = "rest" /\ result = "rest" /\ Next
                /\ UNCHANGED <<stackVars, cgroupVars>>
ManifestStep == StackNext /\ UNCHANGED <<vars, cgroupVars>>
CgroupStep   == result # "rest" /\ CgroupNext /\ UNCHANGED <<vars, stackVars>>

\* A manifest or a bundle is done with; the shim never is.
Done == /\ out \in {"built", "StackError", "KeyError"} \/ result = "created"
        /\ UNCHANGED <<vars, stackVars, cgroupVars>>

PartsNext == RunscCmdStep \/ ManifestStep \/ CgroupStep \/ Done
PartsSpec == PartsInit /\ [][PartsNext]_<<vars, stackVars, cgroupVars>>
=============================================================================
