------------------------------ MODULE Manifest ------------------------------
(***************************************************************************)
(* How tools/stack.py turns a manifest into a list of commits:             *)
(* parse_manifest, check_exhaustive, the loop of build_stack with          *)
(* _substitute and _cherry_pick, and mirror_target.                        *)
(*                                                                         *)
(* The manifest names commits by prefixes of their shas.  External: the    *)
(* pull requests' heads and which commits apply cleanly.                   *)
(***************************************************************************)
EXTENDS Naturals, Sequences, FiniteSets, SequencesExt

CONSTANTS
    Stacks,     \* manifests: sequences of entries [source, pr, pick, skip, map]
    Heads       \* functions from pull requests to their commits, in order

\* The pull request of an entry: a number in a source repository.
PullRequest(e) == <<e.source, e.pr>>

\* Manifests and heads are lists; each entry names a pull request, whose
\* commits differ.
IsList(s) == s \in Seq(ToSet(s))
ASSUME ManifestAssumption ==
    \A s \in Stacks, h \in Heads :
        /\ IsList(s)
        /\ \A i \in DOMAIN s :
              /\ IsList(s[i].pick) /\ IsList(s[i].skip)
              /\ PullRequest(s[i]) \in DOMAIN h
              /\ IsList(h[PullRequest(s[i])]) /\ IsInjective(h[PullRequest(s[i])])

VARIABLES
    stack,      \* the manifest
    heads,      \* commits the pull requests have
    entry,      \* the entry that is being built
    todo,       \* positions of its commits still to be picked
    picked,     \* commits of the stack so far: [pr, upstream, adapted]
    mirror,     \* per entry the upstream commit its mirror holds
    out         \* "reading", "building", "built" or the exception raised

stackVars == <<stack, heads, entry, todo, picked, mirror, out>>

StackInit ==
    /\ stack \in Stacks /\ heads \in Heads
    /\ entry = 1 /\ todo = {} /\ picked = <<>> /\ mirror = <<>>
    /\ out = "reading"

Raise(e) == out' = e /\ UNCHANGED <<stack, heads, entry, todo, picked, mirror>>

\* Prefixes are compared as the strings they are.
Malformed(e) ==
    \/ e.pick = <<>>
    \/ ToSet(e.pick) \cap ToSet(e.skip) # {}
    \/ ~IsInjective(e.pick) \/ ~IsInjective(e.skip)
    \/ ~(e.map \subseteq ToSet(e.pick))

\* parse_manifest
ParseManifest ==
    /\ out = "reading"
    /\ IF \E i \in DOMAIN stack : Malformed(stack[i]) THEN Raise("StackError")
       ELSE out' = "building" /\ UNCHANGED <<stack, heads, entry, todo, picked, mirror>>

Names(prefix, sha) == IsPrefix(prefix, sha)
Hits(prefix, actual) == {a \in ToSet(actual) : Names(prefix, a)}

\* _resolve: exactly one commit of the head.
Resolves(prefix, actual) == Cardinality(Hits(prefix, actual)) = 1
Resolved(prefix, actual) == CHOOSE a \in Hits(prefix, actual) : TRUE

\* declared of check_exhaustive maps a commit to the last prefix that names
\* it, picks before skips; these are its values, the keys of the result.
Chosen(e, actual) ==
    LET all == e.pick \o e.skip
    IN  {all[i] : i \in {i \in DOMAIN all :
            \A j \in DOMAIN all : Resolved(all[j], actual) = Resolved(all[i], actual) => j <= i}}

\* Fault: a commit that is neither picked nor skipped is left out silently.
MutUnaccounted(e, actual) == \E p \in ToSet(e.pick \o e.skip) : ~Resolves(p, actual)
\* The pull request moved: a prefix names no or several commits, or a commit
\* is named by none.
Unaccounted(e, actual) ==
    \/ \E p \in ToSet(e.pick \o e.skip) : ~Resolves(p, actual)
    \/ ToSet(actual) # {Resolved(p, actual) : p \in ToSet(e.pick \o e.skip)}

\* build_stack, for one entry: chosen[p] for every p in pick, in the order of
\* the pull request.
Check ==
    /\ out = "building" /\ todo = {} /\ entry <= Len(stack)
    /\ LET e == stack[entry]  actual == heads[PullRequest(e)]
           wanted == {Resolved(p, actual) : p \in ToSet(e.pick)}
       IN  IF actual = <<>> \/ Unaccounted(e, actual) THEN Raise("StackError")
           ELSE IF ~(ToSet(e.pick) \subseteq Chosen(e, actual)) THEN Raise("KeyError")
           ELSE /\ todo' = {k \in DOMAIN actual : actual[k] \in wanted}
                /\ UNCHANGED <<stack, heads, entry, picked, mirror, out>>

\* Fault: any entry of the map stands for the commit.
MutAdapted(e, sha) == e.map # {}
\* _substitute: the map's prefix the upstream commit starts with.
Adapted(e, sha) == \E p \in e.map : Names(p, sha)

\* _cherry_pick applies cleanly; after its last commit the entry is done.
CherryPick ==
    /\ out = "building"
    /\ \E k \in todo :
         LET e == stack[entry]  sha == heads[PullRequest(e)][k] IN
         /\ \A j \in todo : k <= j
         /\ picked' = Append(picked, [pr |-> e.pr, entry |-> entry, upstream |-> sha,
                                      adapted |-> Adapted(e, sha)])
         /\ todo' = todo \ {k}
         /\ entry' = IF todo = {k} THEN entry + 1 ELSE entry
    /\ UNCHANGED <<stack, heads, mirror, out>>

\* It conflicts, or the adapted commit is not on the named branch.
Conflict == out = "building" /\ todo # {} /\ Raise("StackError")

\* Fault: the head of the pull request is mirrored.
MutMirrorTarget(i) == Last(heads[PullRequest(stack[i])])
\* mirror_target, for every entry: the last commit picked under its number,
\* in whatever repository.
MirrorTarget(i) ==
    LET own == {k \in DOMAIN picked : picked[k].pr = stack[i].pr}
    IN  picked[CHOOSE k \in own : \A j \in own : j <= k].upstream
MirrorStack ==
    /\ out = "building" /\ entry > Len(stack)
    /\ mirror' = [i \in DOMAIN stack |-> MirrorTarget(i)]
    /\ out' = "built"
    /\ UNCHANGED <<stack, heads, entry, todo, picked>>

StackNext == ParseManifest \/ Check \/ CherryPick \/ Conflict \/ MirrorStack
StackSpec == StackInit /\ [][StackNext]_stackVars

-----------------------------------------------------------------------------
(* Properties *)

\* The positions of an entry's commits in the stack.
Shipped(i) == {k \in DOMAIN picked : picked[k].entry = i}
\* A prefix in the list names a.
By(list, a) == \E p \in ToSet(list) : Names(p, a)

\* "pick + skip cover every commit on the head" (docs/RELEASING.md:231): what
\* was built has the entries in order and, for each entry, exactly the commits
\* its picks name, none of those its skips name, in the pull request's order,
\* and no commit of the head went unmentioned.
ExactStack ==
    out = "built" =>
        /\ \A k, l \in DOMAIN picked : k < l => picked[k].entry <= picked[l].entry
        /\ \A i \in DOMAIN stack :
             LET e == stack[i]  actual == heads[PullRequest(e)] IN
             /\ \A a \in ToSet(actual) : By(e.pick, a) # By(e.skip, a)
             /\ {picked[k].upstream : k \in Shipped(i)} = {a \in ToSet(actual) : By(e.pick, a)}
             /\ \A k, l \in Shipped(i) : k < l =>
                   \E m, n \in DOMAIN actual :
                      m < n /\ actual[m] = picked[k].upstream /\ actual[n] = picked[l].upstream

\* A substitution replaces the one commit its key names and no other, so the
\* table in the notes tells which commits were adapted.
AdaptedAsMapped ==
    out = "built" =>
        \A i \in DOMAIN stack :
            Cardinality({k \in Shipped(i) : picked[k].adapted}) = Cardinality(stack[i].map)

\* "never the pull request head: a head can end in commits the manifest
\* rejects" (stack.py:479): a mirror holds a commit that shipped under the
\* entry's number, and where no other entry has that number, the last one on
\* its head that the entry picks.
MirrorIsShipped ==
    out = "built" =>
        \A i \in DOMAIN stack :
            LET e == stack[i]  actual == heads[PullRequest(e)] IN
            /\ \E k \in DOMAIN picked : picked[k].pr = e.pr /\ picked[k].upstream = mirror[i]
            /\ (\A j \in DOMAIN stack : stack[j].pr = e.pr => j = i) =>
                  \E m \in DOMAIN actual :
                     /\ actual[m] = mirror[i]
                     /\ \A n \in DOMAIN actual : n > m => ~By(e.pick, actual[n])
=============================================================================
