--------------------------- MODULE ManifestProofs ---------------------------
(***************************************************************************)
(* What stack.py builds is what the manifest says, for manifests and pull  *)
(* requests of any length.  What two prefixes have in common is never      *)
(* looked at: Names could be any relation.                                 *)
(***************************************************************************)
EXTENDS Manifest, FiniteSetTheorems, SequenceTheorems, TLAPS

-----------------------------------------------------------------------------
(* The inductive invariant *)

Actual(i) == heads[PullRequest(stack[i])]
Position(i) == DOMAIN Actual(i)
Wanted(i) == {m \in Position(i) : By(stack[i].pick, Actual(i)[m])}

Pick == [pr : {stack[i].pr : i \in DOMAIN stack}, entry : DOMAIN stack,
         upstream : UNION {ToSet(Actual(i)) : i \in DOMAIN stack}, adapted : BOOLEAN]

TypeInv ==
    /\ stack \in Stacks /\ heads \in Heads
    /\ entry \in 1 .. Len(stack) + 1
    /\ todo # {} => entry <= Len(stack) /\ todo \subseteq Position(entry)
    /\ picked \in Seq(Pick)
    /\ out \in {"reading", "building", "built", "StackError", "KeyError"}

Building == out \in {"building", "built"}

\* What Check has found of an entry: every commit is picked or skipped, and a
\* prefix in pick names one commit, which no other names.
Exact(i) ==
    LET e == stack[i] IN
    /\ \A a \in ToSet(Actual(i)) : By(e.pick, a) # By(e.skip, a)
    /\ \A p \in ToSet(e.pick) : \E a \in ToSet(Actual(i)) :
          Names(p, a) /\ \A b \in ToSet(Actual(i)) : Names(p, b) => b = a
    /\ \A p, q \in ToSet(e.pick), a \in ToSet(Actual(i)) : Names(p, a) /\ Names(q, a) => p = q

CheckInv ==
    Building =>
        /\ \A i \in DOMAIN stack : ~Malformed(stack[i])
        /\ \A i \in DOMAIN stack : i < entry \/ (i = entry /\ todo # {}) => Exact(i)

\* Every commit of the stack is one its entry picks, of an entry whose turn it
\* was; the commits still to do come after those that are done.
PickInv ==
    Building =>
        /\ \A k \in DOMAIN picked :
             LET c == picked[k]  e == stack[c.entry] IN
             /\ c.entry < entry \/ (c.entry = entry /\ todo # {})
             /\ c.pr = e.pr /\ c.adapted = Adapted(e, c.upstream)
             /\ \E m \in Wanted(c.entry) :
                   /\ c.upstream = Actual(c.entry)[m]
                   /\ c.entry = entry => \A n \in todo : m < n
        /\ todo # {} => todo \subseteq Wanted(entry)

\* Every commit an entry picks is in the stack or still to do.
DoneInv ==
    Building =>
        \A i \in DOMAIN stack : i < entry \/ (i = entry /\ todo # {}) =>
            \A m \in Wanted(i) :
                \/ i = entry /\ m \in todo
                \/ \E k \in Shipped(i) : picked[k].upstream = Actual(i)[m]

\* The stack is in order, of entries and within an entry.
Before(i, a, b) == \E m, n \in Position(i) : m < n /\ Actual(i)[m] = a /\ Actual(i)[n] = b
OrderInv ==
    Building =>
        \A k, l \in DOMAIN picked : k < l =>
            /\ picked[k].entry <= picked[l].entry
            /\ picked[k].entry = picked[l].entry =>
                  Before(picked[k].entry, picked[k].upstream, picked[l].upstream)

\* A pull request of which something was picked has a last picked commit.
LastOf(pr, l) ==
    /\ l \in DOMAIN picked /\ picked[l].pr = pr
    /\ \A j \in DOMAIN picked : picked[j].pr = pr => j <= l
LastInv == \A k \in DOMAIN picked : \E l \in DOMAIN picked : LastOf(picked[k].pr, l)

BuiltInv ==
    out = "built" =>
        /\ entry > Len(stack) /\ mirror = [i \in DOMAIN stack |-> MirrorTarget(i)]

ReadInv == out = "reading" => entry = 1 /\ todo = {} /\ picked = << >>

StackInv == TypeInv /\ ReadInv /\ CheckInv /\ PickInv /\ DoneInv /\ OrderInv /\ LastInv /\ BuiltInv

-----------------------------------------------------------------------------
(* Lists *)

LEMMA ListFacts ==
    ASSUME NEW s, IsList(s)
    PROVE  /\ Len(s) \in Nat /\ DOMAIN s = 1 .. Len(s)
           /\ IsFiniteSet(ToSet(s)) /\ (s = << >> <=> ToSet(s) = {})
<1>1. Len(s) \in Nat /\ DOMAIN s = 1 .. Len(s) /\ (s = << >> <=> Len(s) = 0)
  BY DEF IsList
<1>2. s = << >> <=> ToSet(s) = {}
  <2>1. s # << >> => 1 \in DOMAIN s
    BY <1>1
  <2>2. s # << >> => s[1] \in ToSet(s)
    BY <2>1 DEF ToSet
  <2>3. s = << >> => DOMAIN s = {}
    BY <1>1
  <2> QED
    BY <2>2, <2>3 DEF ToSet
<1>3. IsFiniteSet(ToSet(s))
  <2>1. IsFiniteSet(1 .. Len(s))
    BY <1>1, FS_Interval
  <2>2. [x \in 1 .. Len(s) |-> s[x]] \in Surjection(1 .. Len(s), ToSet(s))
    BY <1>1 DEF Surjection, ToSet
  <2> QED
    BY <2>1, <2>2, FS_Surjection
<1> QED
  BY <1>1, <1>2, <1>3

LEMMA StackLists ==
    ASSUME TypeInv
    PROVE  /\ Len(stack) \in Nat /\ DOMAIN stack = 1 .. Len(stack)
           /\ \A i \in DOMAIN stack :
                 /\ IsList(stack[i].pick) /\ IsList(stack[i].skip)
                 /\ IsList(Actual(i)) /\ IsInjective(Actual(i))
                 /\ Len(Actual(i)) \in Nat /\ Position(i) = 1 .. Len(Actual(i))
<1>1. /\ IsList(stack)
      /\ \A i \in DOMAIN stack :
                 /\ IsList(stack[i].pick) /\ IsList(stack[i].skip)
                 /\ IsList(Actual(i)) /\ IsInjective(Actual(i))
  BY ManifestAssumption DEF TypeInv, Actual
<1> QED
  BY <1>1, ListFacts DEF Position

LEMMA Joined ==
    ASSUME NEW s, NEW t, IsList(s), IsList(t)
    PROVE  /\ DOMAIN (s \o t) = 1 .. Len(s) + Len(t)
           /\ \A i \in DOMAIN s : i \in DOMAIN (s \o t) /\ (s \o t)[i] = s[i]
           /\ \A i \in DOMAIN (s \o t) : \/ i \in DOMAIN s /\ (s \o t)[i] = s[i]
                                         \/ i - Len(s) \in DOMAIN t /\ (s \o t)[i] = t[i - Len(s)]
           /\ ToSet(s \o t) = ToSet(s) \cup ToSet(t)
<1> DEFINE T == ToSet(s) \cup ToSet(t)  u == s \o t
<1>1. s \in Seq(T) /\ t \in Seq(T)
  <2>1. ToSet(s) \subseteq T /\ ToSet(t) \subseteq T
    OBVIOUS
  <2> QED
    BY <2>1, SeqMonotonic DEF IsList
<1>2. /\ DOMAIN u = 1 .. Len(s) + Len(t) /\ Len(s) \in Nat /\ Len(t) \in Nat
      /\ \A i \in DOMAIN u : u[i] = IF i <= Len(s) THEN s[i] ELSE t[i - Len(s)]
      /\ DOMAIN s = 1 .. Len(s) /\ DOMAIN t = 1 .. Len(t)
  <2> HIDE DEF T
  <2>1. u \in Seq(T) /\ Len(u) = Len(s) + Len(t)
    BY <1>1, ConcatProperties
  <2>2. Len(s) \in Nat /\ Len(t) \in Nat /\ DOMAIN s = 1 .. Len(s) /\ DOMAIN t = 1 .. Len(t)
    BY <1>1, LenProperties
  <2>3. DOMAIN u = 1 .. Len(s) + Len(t)
    BY <2>1, LenProperties
  <2>4. \A i \in 1 .. Len(s) + Len(t) : u[i] = IF i <= Len(s) THEN s[i] ELSE t[i - Len(s)]
    BY <1>1, ConcatProperties
  <2> QED
    BY <2>2, <2>3, <2>4
<1> HIDE DEF u
<1>3. \A i \in DOMAIN s : i \in DOMAIN u /\ u[i] = s[i]
  BY <1>2
<1>4. \A i \in DOMAIN t : i + Len(s) \in DOMAIN u /\ u[i + Len(s)] = t[i]
  BY <1>2
<1>5. \A i \in DOMAIN u : (i \in DOMAIN s /\ u[i] = s[i])
                         \/ (i - Len(s) \in DOMAIN t /\ u[i] = t[i - Len(s)])
  BY <1>2
<1>6. ToSet(u) = ToSet(s) \cup ToSet(t)
  <2>1. \A x \in ToSet(u) : x \in ToSet(s) \cup ToSet(t)
    BY <1>5 DEF ToSet
  <2>2. ToSet(s) \subseteq ToSet(u)
    BY <1>3 DEF ToSet
  <2>3. ToSet(t) \subseteq ToSet(u)
    BY <1>4 DEF ToSet
  <2> QED
    BY <2>1, <2>2, <2>3
<1> QED
  BY <1>2, <1>3, <1>5, <1>6 DEF u

\* Where check_exhaustive and the look-up of its result succeed, pick and skip
\* divide the head, and each prefix in pick has a commit of its own.
LEMMA Exhaustive ==
    ASSUME NEW e, NEW actual, IsList(e.pick), IsList(e.skip), IsList(actual),
           ~Malformed(e), ~Unaccounted(e, actual), ToSet(e.pick) \subseteq Chosen(e, actual)
    PROVE  /\ \A a \in ToSet(actual) : By(e.pick, a) # By(e.skip, a)
           /\ \A p \in ToSet(e.pick) : \E a \in ToSet(actual) :
                 Names(p, a) /\ \A b \in ToSet(actual) : Names(p, b) => b = a
           /\ \A p, q \in ToSet(e.pick), a \in ToSet(actual) : Names(p, a) /\ Names(q, a) => p = q
           /\ \A a \in ToSet(actual) :
                 a \in {Resolved(p, actual) : p \in ToSet(e.pick)} <=> By(e.pick, a)
<1> DEFINE P == ToSet(e.pick)  S == ToSet(e.skip)  A == ToSet(actual)
           all == e.pick \o e.skip
           r(p) == Resolved(p, actual)
<1>1. /\ Len(e.pick) \in Nat /\ Len(e.skip) \in Nat /\ DOMAIN e.pick = 1 .. Len(e.pick)
      /\ DOMAIN all = 1 .. Len(e.pick) + Len(e.skip)
      /\ DOMAIN e.skip = 1 .. Len(e.skip)
      /\ \A i \in DOMAIN e.pick : i \in DOMAIN all /\ all[i] = e.pick[i]
      /\ \A k \in DOMAIN all : \/ k \in DOMAIN e.pick /\ all[k] = e.pick[k]
                               \/ k - Len(e.pick) \in DOMAIN e.skip /\ all[k] = e.skip[k - Len(e.pick)]
  BY ListFacts, Joined
<1>2. ToSet(all) = P \cup S
  BY Joined
<1>3. /\ \A p \in P \cup S : Resolves(p, actual)
      /\ A = {r(p) : p \in P \cup S}
      /\ \A i \in DOMAIN e.pick : \E k \in DOMAIN all :
            all[k] = e.pick[i] /\ \A l \in DOMAIN all : r(all[l]) = r(all[k]) => l <= k
  <2>1. \A p \in P \cup S : Resolves(p, actual)
    BY <1>2 DEF Unaccounted
  <2>2. A = {r(p) : p \in P \cup S}
    BY <1>2 DEF Unaccounted
  <2>3. \A i \in DOMAIN e.pick : e.pick[i] \in Chosen(e, actual)
    BY DEF ToSet
  <2> QED
    BY <2>1, <2>2, <2>3 DEF Chosen
<1> HIDE DEF all
<1>4. \A p \in P \cup S : r(p) \in A /\ Names(p, r(p)) /\ \A b \in A : Names(p, b) => b = r(p)
  <2> SUFFICES ASSUME NEW p \in P \cup S
               PROVE  r(p) \in A /\ Names(p, r(p)) /\ \A b \in A : Names(p, b) => b = r(p)
    OBVIOUS
  <2>1. Cardinality(Hits(p, actual)) = 1
    BY <1>3 DEF Resolves
  <2>2. Hits(p, actual) \subseteq A /\ IsFiniteSet(Hits(p, actual))
    BY ListFacts, FS_Subset DEF Hits
  <2>3. PICK a : Hits(p, actual) = {a}
    BY <2>1, <2>2, FS_Singleton
  <2>4. r(p) = a
    BY <2>3 DEF Resolved
  <2> QED
    BY <2>2, <2>3, <2>4 DEF Hits
<1>5. \A a \in A : \E p \in P \cup S : r(p) = a
  BY <1>3
<1>6. P \cap S = {} /\ IsInjective(e.pick)
  BY DEF Malformed
<1>7. \A i, j \in DOMAIN all : i \in DOMAIN e.pick /\ r(all[i]) = r(all[j]) => j <= i
  <2> SUFFICES ASSUME NEW i \in DOMAIN all, NEW j \in DOMAIN all,
                      i \in DOMAIN e.pick, r(all[i]) = r(all[j])
               PROVE  j <= i
    OBVIOUS
  <2>1. all[i] = e.pick[i] /\ e.pick[i] \in P
    BY <1>1 DEF ToSet
  <2>2. PICK k \in DOMAIN all : all[k] = e.pick[i] /\ \A l \in DOMAIN all : r(all[l]) = r(all[k]) => l <= k
    BY <1>3
  <2>3. k \in DOMAIN e.pick /\ all[k] = e.pick[k]
    <3>1. CASE k - Len(e.pick) \in DOMAIN e.skip /\ all[k] = e.skip[k - Len(e.pick)]
      <4>1. all[k] \in S
        BY <3>1 DEF ToSet
      <4> QED
        BY <1>6, <2>1, <2>2, <4>1
    <3> QED
      BY <1>1, <3>1
  <2>4. k = i
    BY <1>6, <2>2, <2>3 DEF IsInjective
  <2> HIDE DEF r
  <2> QED
    BY <2>1, <2>2, <2>4
<1>8. ASSUME NEW p \in P, NEW q \in P \cup S, r(p) = r(q)
      PROVE  p = q
  <2>1. PICK i \in DOMAIN e.pick : p = e.pick[i]
    BY DEF ToSet
  <2>2. i \in DOMAIN all /\ all[i] = p
    BY <1>1, <2>1
  <2>3. PICK j \in DOMAIN all : q = all[j]
    BY <1>2 DEF ToSet
  <2>4. j <= i
    BY <1>7, <1>8, <2>1, <2>2, <2>3
  <2>5. j \in DOMAIN e.pick
    BY <1>1, <2>1, <2>3, <2>4
  <2>6. i <= j
    BY <1>7, <1>8, <2>1, <2>2, <2>3, <2>5
  <2> QED
    BY <1>1, <2>1, <2>2, <2>3, <2>4, <2>5, <2>6
<1> HIDE DEF r
<1>9. \A a \in A : By(e.pick, a) <=> \E p \in P : r(p) = a
  BY <1>4 DEF By
<1>10. \A a \in A : By(e.skip, a) <=> \E p \in S : r(p) = a
  BY <1>4 DEF By
<1>11. \A a \in A : By(e.pick, a) # By(e.skip, a)
  BY <1>5, <1>6, <1>8, <1>9, <1>10
<1>12. \A p, q \in P, a \in A : Names(p, a) /\ Names(q, a) => p = q
  BY <1>4, <1>8
<1> QED
  BY <1>4, <1>9, <1>11, <1>12 DEF r

-----------------------------------------------------------------------------
(* The invariant is inductive *)

LEMMA InitStack == ASSUME StackInit PROVE StackInv
<1>1. Len(stack) \in Nat
  BY ListFacts, ManifestAssumption DEF StackInit
<1>2. DOMAIN picked = {}
  BY DEF StackInit
<1> QED
  BY <1>1, <1>2 DEF StackInit, StackInv, TypeInv, ReadInv, CheckInv, PickInv, DoneInv, OrderInv, LastInv,
     BuiltInv, Building

\* Neither the manifest nor the pull requests change.
LEMMA SameEntries ==
    ASSUME UNCHANGED <<stack, heads>>
    PROVE  \A i : /\ Actual(i)' = Actual(i) /\ Position(i)' = Position(i) /\ Wanted(i)' = Wanted(i)
                  /\ Exact(i)' <=> Exact(i)
<1> TAKE i
<1>1. Actual(i)' = Actual(i)
  BY DEF Actual
<1> QED
  BY <1>1 DEF Position, Wanted, Exact

\* An exception ends the evaluation; what was built remains as it is.
LEMMA RaiseStack ==
    ASSUME StackInv, NEW e, e \in {"StackError", "KeyError"}, Raise(e)
    PROVE  StackInv'
<1>1. TypeInv'
  BY DEF StackInv, TypeInv, Pick, Raise, Position, Actual
<1>2. LastInv'
  BY DEF StackInv, LastInv, LastOf, Raise
<1> QED
  BY <1>1, <1>2 DEF Raise, StackInv, ReadInv, CheckInv, PickInv, DoneInv, OrderInv, BuiltInv, Building

LEMMA ParseStack == ASSUME StackInv, ParseManifest PROVE StackInv'
<1>1. CASE \E i \in DOMAIN stack : Malformed(stack[i])
  BY <1>1, RaiseStack DEF ParseManifest
<1>2. CASE ~\E i \in DOMAIN stack : Malformed(stack[i])
  <2>1. /\ out = "reading" /\ out' = "building"
        /\ UNCHANGED <<stack, heads, entry, todo, picked, mirror>>
    BY <1>2 DEF ParseManifest
  <2>2. entry = 1 /\ todo = {} /\ picked = << >> /\ DOMAIN picked = {}
    BY <2>1 DEF StackInv, ReadInv
  <2>3. DOMAIN stack \subseteq Nat /\ \A i \in DOMAIN stack : ~(i < 1)
    BY StackLists DEF StackInv
  <2>4. TypeInv'
    BY <2>1 DEF StackInv, TypeInv, Pick, Position, Actual
  <2>5. CheckInv' /\ DoneInv'
    BY <1>2, <2>1, <2>2, <2>3 DEF CheckInv, DoneInv, Building
  <2>6. PickInv' /\ OrderInv' /\ LastInv'
    BY <2>1, <2>2 DEF PickInv, OrderInv, LastInv
  <2> QED
    BY <2>1, <2>4, <2>5, <2>6 DEF StackInv, ReadInv, BuiltInv
<1> QED
  BY <1>1, <1>2

\* What an entry that passes its checks leaves to be picked.
LEMMA CheckStack == ASSUME StackInv, Check PROVE StackInv'
<1> DEFINE e == stack[entry]  actual == heads[PullRequest(e)]
           wanted == {Resolved(p, actual) : p \in ToSet(e.pick)}
<1>1. CASE (\E x \in {"StackError", "KeyError"} : Raise(x))
  BY <1>1, RaiseStack
<1>2. CASE ~\E x \in {"StackError", "KeyError"} : Raise(x)
  <2>1. /\ out = "building" /\ todo = {} /\ entry <= Len(stack)
        /\ ~Unaccounted(e, actual) /\ ToSet(e.pick) \subseteq Chosen(e, actual)
        /\ todo' = {k \in DOMAIN actual : actual[k] \in wanted}
        /\ UNCHANGED <<stack, heads, entry, picked, mirror, out>>
    BY <1>2 DEF Check
  <2>2. entry \in DOMAIN stack /\ actual = Actual(entry) /\ DOMAIN actual = Position(entry)
    BY <2>1, StackLists DEF StackInv, TypeInv, Actual, Position
  <2>3. IsList(e.pick) /\ IsList(e.skip) /\ IsList(actual) /\ ~Malformed(e)
    BY <2>1, <2>2, StackLists DEF StackInv, CheckInv, Building
  <2>4. Exact(entry) /\ \A a \in ToSet(actual) : a \in wanted <=> By(e.pick, a)
    BY <2>1, <2>2, <2>3, Exhaustive DEF Exact
  <2>5. \A k \in DOMAIN actual : actual[k] \in ToSet(actual)
    BY DEF ToSet
  <2>6. todo' = Wanted(entry)
    BY <2>1, <2>2, <2>4, <2>5 DEF Wanted
  <2> HIDE DEF e, actual, wanted
  <2>7. TypeInv'
    BY <2>1, <2>6 DEF StackInv, TypeInv, Pick, Position, Actual, Wanted
  <2>8. CheckInv'
    BY <2>1, <2>4 DEF StackInv, CheckInv, Building, Exact, Actual
  <2>9. PickInv'
    <3>1. \A k \in DOMAIN picked : picked[k].entry < entry /\ picked[k].entry # entry
      BY <2>1 DEF StackInv, PickInv, Building, TypeInv, Pick
    <3> QED
      BY <2>1, <2>6, <3>1 DEF StackInv, PickInv, Building, Wanted, Position, Actual
  <2>10. DoneInv'
    BY <2>1, <2>6 DEF StackInv, DoneInv, Building, Wanted, Position, Actual, Shipped
  <2>11. OrderInv' /\ LastInv'
    BY <2>1 DEF StackInv, OrderInv, LastInv, LastOf, Building, Before, Position, Actual
  <2> QED
    BY <2>1, <2>7, <2>8, <2>9, <2>10, <2>11 DEF StackInv, ReadInv, BuiltInv
<1> QED
  BY <1>1, <1>2

LEMMA FinishStack == ASSUME StackInv, MirrorStack PROVE StackInv'
<1>1. TypeInv'
  BY DEF MirrorStack, StackInv, TypeInv, Pick, Position, Actual
<1>2. CheckInv'
  BY SameEntries DEF MirrorStack, StackInv, CheckInv, Building
<1>3. PickInv'
  BY SameEntries DEF MirrorStack, StackInv, PickInv, Building
<1>4. DoneInv'
  BY SameEntries DEF MirrorStack, StackInv, DoneInv, Building, Shipped
<1>5. OrderInv' /\ LastInv'
  BY SameEntries DEF MirrorStack, StackInv, OrderInv, LastInv, LastOf, Building, Before
<1>6. ReadInv' /\ BuiltInv'
  BY DEF MirrorStack, ReadInv, BuiltInv, MirrorTarget
<1> QED
  BY <1>1, <1>2, <1>3, <1>4, <1>5, <1>6 DEF StackInv

LEMMA IdleStack == ASSUME StackInv, UNCHANGED stackVars PROVE StackInv'
<1>1. TypeInv' /\ ReadInv'
  BY DEF stackVars, StackInv, TypeInv, ReadInv, Pick, Position, Actual
<1>2. CheckInv'
  BY SameEntries DEF stackVars, StackInv, CheckInv, Building
<1>3. PickInv'
  BY SameEntries DEF stackVars, StackInv, PickInv, Building
<1>4. DoneInv'
  BY SameEntries DEF stackVars, StackInv, DoneInv, Building, Shipped
<1>5. OrderInv' /\ LastInv'
  BY SameEntries DEF stackVars, StackInv, OrderInv, LastInv, LastOf, Building, Before
<1>6. BuiltInv'
  <2>1. \A i : MirrorTarget(i)' = MirrorTarget(i)
    BY DEF stackVars, MirrorTarget
  <2> QED
    BY <2>1 DEF stackVars, StackInv, BuiltInv
<1> QED
  BY <1>1, <1>2, <1>3, <1>4, <1>5, <1>6 DEF StackInv

\* The least commit still to do goes onto the stack.
LEMMA PickStack == ASSUME StackInv, CherryPick PROVE StackInv'
<1>1. PICK k \in todo :
         /\ \A j \in todo : k <= j
         /\ picked' = Append(picked, [pr |-> stack[entry].pr, entry |-> entry,
                                      upstream |-> Actual(entry)[k],
                                      adapted |-> Adapted(stack[entry], Actual(entry)[k])])
         /\ todo' = todo \ {k}
         /\ entry' = IF todo = {k} THEN entry + 1 ELSE entry
  BY DEF CherryPick, Actual
<1> DEFINE new == [pr |-> stack[entry].pr, entry |-> entry, upstream |-> Actual(entry)[k],
                   adapted |-> Adapted(stack[entry], Actual(entry)[k])]
           n == Len(picked) + 1
<1>2. out = "building" /\ UNCHANGED <<stack, heads, mirror, out>>
  BY DEF CherryPick
<1>3. /\ Len(stack) \in Nat /\ DOMAIN stack = 1 .. Len(stack) /\ entry \in DOMAIN stack /\ entry \in Nat
      /\ Position(entry) \subseteq Nat /\ todo \subseteq Position(entry)
  BY StackLists DEF StackInv, TypeInv
<1>4. /\ \/ entry' = entry /\ todo' # {}
         \/ entry' = entry + 1 /\ todo' = {}
      /\ todo' \subseteq todo
  BY <1>1
<1>5. todo \subseteq Wanted(entry)
  BY <1>2 DEF StackInv, PickInv, Building
<1>6. new \in Pick
  <2>1. stack[entry].pr \in {stack[i].pr : i \in DOMAIN stack} /\ entry \in DOMAIN stack
    BY <1>3
  <2>2. Actual(entry)[k] \in ToSet(Actual(entry))
    BY <1>3 DEF Position, ToSet
  <2>3. Adapted(stack[entry], Actual(entry)[k]) \in BOOLEAN
    BY DEF Adapted
  <2> QED
    BY <1>3, <2>1, <2>2, <2>3 DEF Pick
<1>7. /\ picked' \in Seq(Pick)
      /\ Len(picked) \in Nat /\ DOMAIN picked = 1 .. Len(picked) /\ DOMAIN picked' = 1 .. n
      /\ picked'[n] = new /\ \A j \in DOMAIN picked : picked'[j] = picked[j]
  <2> HIDE DEF new
  <2>1. picked \in Seq(Pick) /\ picked' = Append(picked, new)
    BY <1>1 DEF StackInv, TypeInv, new
  <2>2. Len(picked) \in Nat /\ DOMAIN picked = 1 .. Len(picked)
    BY <2>1, LenProperties
  <2>3. picked' \in Seq(Pick) /\ Len(picked') = n /\ picked'[n] = new
        /\ \A j \in 1 .. Len(picked) : picked'[j] = picked[j]
    BY <1>6, <2>1, AppendProperties
  <2>4. DOMAIN picked' = 1 .. n
    BY <2>3, LenProperties
  <2> QED
    BY <2>2, <2>3, <2>4
<1>8. /\ \A j \in DOMAIN picked : j \in DOMAIN picked' /\ j < n /\ picked'[j] = picked[j]
      /\ n \in DOMAIN picked' /\ picked'[n] = new
      /\ \A j \in DOMAIN picked' : (j \in DOMAIN picked /\ picked'[j] = picked[j]) \/ j = n
      /\ DOMAIN picked' \subseteq Nat
  BY <1>7
<1> DEFINE M == Actual(entry)
<1>9. /\ new.pr = stack[entry].pr /\ new.entry = entry /\ new.upstream = Actual(entry)[k]
      /\ new.adapted = Adapted(stack[entry], Actual(entry)[k])
  OBVIOUS
<1> HIDE DEF new, n
<1>10. TypeInv'
  <2>1. entry' \in 1 .. Len(stack) + 1
    BY <1>3, <1>4
  <2>2. Pick' = Pick
    BY <1>2 DEF Pick, Actual
  <2> QED
    BY <1>2, <1>3, <1>4, <1>7, <2>1, <2>2, SameEntries DEF StackInv, TypeInv
<1>11. CheckInv'
  <2>1. \A i \in DOMAIN stack : i < entry' \/ (i = entry' /\ todo' # {}) => i < entry \/ i = entry
    BY <1>3, <1>4
  <2>2. \A i \in DOMAIN stack : i < entry \/ i = entry => Exact(i)
    BY <1>1, <1>2 DEF StackInv, CheckInv, Building
  <2>3. \A i \in DOMAIN stack : ~Malformed(stack[i])
    BY <1>2 DEF StackInv, CheckInv, Building
  <2> QED
    BY <1>2, <2>1, <2>2, <2>3, SameEntries DEF CheckInv
<1>12. PickInv'
  <2>1. ASSUME NEW j \in DOMAIN picked'
        PROVE  LET c == picked'[j]  e == stack[c.entry] IN
               /\ c.entry < entry' \/ (c.entry = entry' /\ todo' # {})
               /\ c.pr = e.pr /\ c.adapted = Adapted(e, c.upstream)
               /\ \E m \in Wanted(c.entry) :
                     /\ c.upstream = Actual(c.entry)[m]
                     /\ c.entry = entry' => \A i \in todo' : m < i
    <3>1. CASE j \in DOMAIN picked /\ picked'[j] = picked[j]
      <4> DEFINE c == picked[j]
      <4>1. /\ c.entry < entry \/ c.entry = entry
            /\ c.pr = stack[c.entry].pr /\ c.adapted = Adapted(stack[c.entry], c.upstream)
            /\ \E m \in Wanted(c.entry) :
                  c.upstream = Actual(c.entry)[m] /\ (c.entry = entry => \A i \in todo : m < i)
            /\ c.entry \in Nat
        <5>1. c \in Pick
          BY <1>7, <3>1, ElementOfSeq DEF StackInv, TypeInv
        <5>2. c.entry \in Nat
          BY <1>3, <5>1 DEF Pick
        <5> QED
          BY <1>2, <3>1, <5>2 DEF StackInv, PickInv, Building
      <4> HIDE DEF c
      <4>2. c.entry < entry' \/ (c.entry = entry' /\ todo' # {})
        BY <1>3, <1>4, <4>1
      <4>3. c.entry = entry' => c.entry = entry
        BY <1>3, <1>4, <4>1
      <4>4. \E m \in Wanted(c.entry) :
               c.upstream = Actual(c.entry)[m] /\ (c.entry = entry' => \A i \in todo' : m < i)
        BY <1>4, <4>1, <4>3
      <4> QED
        BY <3>1, <4>1, <4>2, <4>4 DEF c
    <3>2. CASE j = n
      <4>1. entry < entry' \/ (entry = entry' /\ todo' # {})
        BY <1>3, <1>4
      <4>2. \A i \in todo' : k < i
        BY <1>1, <1>3
      <4>3. k \in Wanted(entry)
        BY <1>5
      <4> QED
        BY <1>8, <1>9, <3>2, <4>1, <4>2, <4>3
    <3> QED
      BY <1>8, <3>1, <3>2
  <2>2. todo' # {} => todo' \subseteq Wanted(entry')
    BY <1>4, <1>5
  <2>3. \A i : Actual(i)' = Actual(i) /\ Wanted(i)' = Wanted(i)
    BY <1>2, SameEntries
  <2> QED
    BY <1>2, <2>1, <2>2, <2>3 DEF PickInv
<1>13. DoneInv'
  <2>1. ASSUME NEW i \in DOMAIN stack, i < entry' \/ (i = entry' /\ todo' # {}), NEW m \in Wanted(i)
        PROVE  \/ i = entry' /\ m \in todo'
               \/ \E l \in Shipped(i)' : picked'[l].upstream = Actual(i)[m]
    <3>1. i < entry \/ i = entry
      BY <1>3, <1>4, <2>1
    <3>2. CASE i = entry /\ m \in todo
      <4>1. CASE m = k
        <5>1. n \in Shipped(i)' /\ picked'[n].upstream = Actual(i)[m]
          BY <1>8, <1>9, <3>2, <4>1 DEF Shipped
        <5> QED
          BY <5>1
      <4>2. CASE m # k
        BY <1>1, <1>4, <3>2, <4>2
      <4> QED
        BY <4>1, <4>2
    <3>3. CASE \E l \in Shipped(i) : picked[l].upstream = Actual(i)[m]
      <4>1. PICK l \in Shipped(i) : picked[l].upstream = Actual(i)[m]
        BY <3>3
      <4>2. l \in Shipped(i)' /\ picked'[l].upstream = Actual(i)[m]
        BY <1>8, <4>1 DEF Shipped
      <4> QED
        BY <4>2
    <3> QED
      BY <1>1, <1>2, <3>1, <3>2, <3>3 DEF StackInv, DoneInv, Building
  <2>2. \A i : Actual(i)' = Actual(i) /\ Wanted(i)' = Wanted(i)
    BY <1>2, SameEntries
  <2> QED
    BY <1>2, <2>1, <2>2 DEF DoneInv
<1>14. OrderInv'
  <2>1. ASSUME NEW j \in DOMAIN picked', NEW l \in DOMAIN picked', j < l
        PROVE  /\ picked'[j].entry <= picked'[l].entry
               /\ picked'[j].entry = picked'[l].entry =>
                     Before(picked'[j].entry, picked'[j].upstream, picked'[l].upstream)
    <3>1. j \in DOMAIN picked /\ picked'[j] = picked[j]
      BY <1>7, <2>1 DEF n
    <3>2. CASE l \in DOMAIN picked /\ picked'[l] = picked[l]
      BY <1>2, <2>1, <3>1, <3>2 DEF StackInv, OrderInv, Building
    <3>3. CASE l = n
      <4>1. picked[j] \in Pick
        BY <1>7, <3>1, ElementOfSeq DEF StackInv, TypeInv
      <4>2. picked[j].entry \in Nat
        BY <1>3, <4>1 DEF Pick
      <4>3. /\ picked[j].entry < entry \/ picked[j].entry = entry
            /\ \E m \in Wanted(picked[j].entry) :
                  picked[j].upstream = Actual(picked[j].entry)[m]
                  /\ (picked[j].entry = entry => \A i \in todo : m < i)
        BY <1>2, <3>1 DEF StackInv, PickInv, Building
      <4>4. picked[j].entry <= entry
        BY <1>3, <4>2, <4>3
      <4>5. picked[j].entry = entry => Before(entry, picked[j].upstream, Actual(entry)[k])
        BY <1>3, <4>3 DEF Before, Wanted
      <4> QED
        BY <1>8, <1>9, <3>1, <3>3, <4>4, <4>5
    <3> QED
      BY <1>8, <3>2, <3>3
  <2>2. \A i, a, b : Before(i, a, b)' <=> Before(i, a, b)
    BY <1>2, SameEntries DEF Before
  <2> QED
    BY <2>1, <2>2 DEF OrderInv
<1>15. LastInv'
  <2>1. ASSUME NEW j \in DOMAIN picked'
        PROVE  \E l \in DOMAIN picked' : /\ picked'[l].pr = picked'[j].pr
                                         /\ \A i \in DOMAIN picked' : picked'[i].pr = picked'[j].pr => i <= l
    <3>1. CASE picked'[j].pr = picked'[n].pr
      <4>1. \A i \in DOMAIN picked' : i <= n
        BY <1>7 DEF n
      <4> QED
        BY <1>8, <3>1, <4>1
    <3>2. CASE picked'[j].pr # picked'[n].pr
      <4>1. j \in DOMAIN picked /\ picked'[j] = picked[j]
        BY <1>8, <3>2
      <4>2. PICK l \in DOMAIN picked : LastOf(picked[j].pr, l)
        BY <4>1 DEF StackInv, LastInv
      <4>3. l \in DOMAIN picked' /\ picked'[l].pr = picked'[j].pr
        BY <1>8, <4>1, <4>2 DEF LastOf
      <4>4. \A i \in DOMAIN picked' : picked'[i].pr = picked'[j].pr => i <= l
        BY <1>8, <3>2, <4>1, <4>2 DEF LastOf
      <4> QED
        BY <4>3, <4>4
    <3> QED
      BY <3>1, <3>2
  <2> QED
    BY <2>1 DEF LastInv, LastOf
<1> QED
  BY <1>2, <1>10, <1>11, <1>12, <1>13, <1>14, <1>15 DEF StackInv, ReadInv, BuiltInv

LEMMA StackInvariant == StackSpec => []StackInv
<1>1. StackInv /\ [StackNext]_stackVars => StackInv'
  BY ParseStack, CheckStack, PickStack, RaiseStack, FinishStack, IdleStack DEF StackNext, Conflict
<1> QED
  BY <1>1, InitStack, PTL DEF StackSpec

-----------------------------------------------------------------------------
(* What the invariant says of a stack that was built *)

\* Every entry was checked, and all its commits are in the stack, each once.
LEMMA BuiltEntry ==
    ASSUME StackInv, out = "built", NEW i \in DOMAIN stack
    PROVE  /\ Exact(i) /\ ~Malformed(stack[i])
           /\ \A m \in Wanted(i) : \E k \in Shipped(i) : picked[k].upstream = Actual(i)[m]
           /\ \A k \in Shipped(i) :
                 /\ k \in DOMAIN picked /\ k \in Nat
                 /\ picked[k].pr = stack[i].pr
                 /\ picked[k].adapted = Adapted(stack[i], picked[k].upstream)
                 /\ \E m \in Wanted(i) : picked[k].upstream = Actual(i)[m]
           /\ \A k, l \in Shipped(i) : k < l => Before(i, picked[k].upstream, picked[l].upstream)
           /\ \A k, l \in Shipped(i) : picked[k].upstream = picked[l].upstream => k = l
<1>1. i < entry /\ i # entry /\ Building
  BY StackLists DEF StackInv, BuiltInv, TypeInv, Building
<1>2. Exact(i) /\ ~Malformed(stack[i])
  BY <1>1 DEF StackInv, CheckInv
<1>3. \A m \in Wanted(i) : \E k \in Shipped(i) : picked[k].upstream = Actual(i)[m]
  BY <1>1 DEF StackInv, DoneInv
<1>4. ASSUME NEW k \in Shipped(i)
      PROVE  /\ k \in DOMAIN picked /\ k \in Nat
             /\ picked[k].pr = stack[i].pr
             /\ picked[k].adapted = Adapted(stack[i], picked[k].upstream)
             /\ \E m \in Wanted(i) : picked[k].upstream = Actual(i)[m]
  <2>1. k \in DOMAIN picked /\ picked[k].entry = i
    BY DEF Shipped
  <2>2. DOMAIN picked \subseteq Nat
    BY LenProperties DEF StackInv, TypeInv
  <2> QED
    BY <1>1, <2>1, <2>2 DEF StackInv, PickInv
<1>5. \A k, l \in Shipped(i) : k < l => Before(i, picked[k].upstream, picked[l].upstream)
  BY <1>1 DEF StackInv, OrderInv, Shipped
<1>6. ASSUME NEW k \in Shipped(i), NEW l \in Shipped(i), picked[k].upstream = picked[l].upstream, k < l
      PROVE  FALSE
  <2>1. PICK m, n \in Position(i) : m < n /\ Actual(i)[m] = Actual(i)[n]
    BY <1>5, <1>6 DEF Before
  <2>2. m = n
    BY <2>1, StackLists DEF StackInv, IsInjective, Position
  <2> QED
    BY <2>1, <2>2, StackLists DEF StackInv
<1>7. \A k, l \in Shipped(i) : picked[k].upstream = picked[l].upstream => k = l
  BY <1>4, <1>6
<1> QED
  BY <1>2, <1>3, <1>4, <1>5, <1>7

LEMMA BuiltIsExact == ASSUME StackInv PROVE ExactStack
<1> SUFFICES ASSUME out = "built"
             PROVE  /\ \A k, l \in DOMAIN picked : k < l => picked[k].entry <= picked[l].entry
                    /\ \A i \in DOMAIN stack :
                         LET e == stack[i]  actual == heads[PullRequest(e)] IN
                         /\ \A a \in ToSet(actual) : By(e.pick, a) # By(e.skip, a)
                         /\ {picked[k].upstream : k \in Shipped(i)} = {a \in ToSet(actual) : By(e.pick, a)}
                         /\ \A k, l \in Shipped(i) : k < l =>
                               \E m, n \in DOMAIN actual :
                                  m < n /\ actual[m] = picked[k].upstream /\ actual[n] = picked[l].upstream
  BY DEF ExactStack
<1>1. \A k, l \in DOMAIN picked : k < l => picked[k].entry <= picked[l].entry
  BY DEF StackInv, OrderInv, Building
<1>2. ASSUME NEW i \in DOMAIN stack
      PROVE  /\ \A a \in ToSet(Actual(i)) : By(stack[i].pick, a) # By(stack[i].skip, a)
             /\ {picked[k].upstream : k \in Shipped(i)} = {a \in ToSet(Actual(i)) : By(stack[i].pick, a)}
             /\ \A k, l \in Shipped(i) : k < l => Before(i, picked[k].upstream, picked[l].upstream)
  <2>1. \A k \in Shipped(i) : picked[k].upstream \in {a \in ToSet(Actual(i)) : By(stack[i].pick, a)}
    BY BuiltEntry DEF Wanted, Position, ToSet
  <2>2. ASSUME NEW a \in ToSet(Actual(i)), By(stack[i].pick, a)
        PROVE  \E k \in Shipped(i) : picked[k].upstream = a
    <3>1. PICK m \in Wanted(i) : Actual(i)[m] = a
      BY <2>2 DEF ToSet, Wanted, Position
    <3> QED
      BY <3>1, BuiltEntry
  <2> QED
    BY <2>1, <2>2, BuiltEntry DEF Exact
<1> QED
  BY <1>1, <1>2 DEF Actual, Before, Position

\* The prefixes of the map and the adapted commits are in bijection.
LEMMA BuiltIsAdapted == ASSUME StackInv PROVE AdaptedAsMapped
<1> SUFFICES ASSUME out = "built", NEW i \in DOMAIN stack
             PROVE  Cardinality({k \in Shipped(i) : picked[k].adapted}) = Cardinality(stack[i].map)
  BY DEF AdaptedAsMapped
<1> DEFINE D == {k \in Shipped(i) : picked[k].adapted}
           P == stack[i].map
           Of(p) == CHOOSE k \in Shipped(i) : Names(p, picked[k].upstream)
           f == [p \in P |-> Of(p)]
<1>1. P \subseteq ToSet(stack[i].pick) /\ IsFiniteSet(P)
  <2>1. P \subseteq ToSet(stack[i].pick)
    BY BuiltEntry DEF Malformed
  <2>2. IsFiniteSet(ToSet(stack[i].pick))
    BY StackLists, ListFacts DEF StackInv
  <2> QED
    BY <2>1, <2>2, FS_Subset
<1>2. \A p \in P : \E k \in Shipped(i) : Names(p, picked[k].upstream)
  <2> SUFFICES ASSUME NEW p \in P PROVE \E k \in Shipped(i) : Names(p, picked[k].upstream)
    OBVIOUS
  <2>1. PICK a \in ToSet(Actual(i)) : Names(p, a)
    BY <1>1, BuiltEntry DEF Exact
  <2>2. PICK m \in Position(i) : Actual(i)[m] = a
    BY DEF ToSet, Position
  <2>3. m \in Wanted(i)
    BY <1>1, <2>1, <2>2 DEF Wanted, By
  <2> QED
    BY <2>1, <2>2, <2>3, BuiltEntry
<1>3. \A p \in P : Of(p) \in Shipped(i) /\ Names(p, picked[Of(p)].upstream)
  BY <1>2
<1> HIDE DEF Of
<1>4. \A k \in Shipped(i) : picked[k].upstream \in ToSet(Actual(i))
  BY BuiltEntry DEF Wanted, Position, ToSet
<1>5. \A k \in Shipped(i) : picked[k].adapted <=> \E p \in P : Names(p, picked[k].upstream)
  BY BuiltEntry DEF Adapted
<1>6. f \in [P -> D]
  BY <1>3, <1>5
<1>7. \A p, q \in P : f[p] = f[q] => p = q
  <2> SUFFICES ASSUME NEW p \in P, NEW q \in P, Of(p) = Of(q) PROVE p = q
    OBVIOUS
  <2>1. Names(p, picked[Of(p)].upstream) /\ Names(q, picked[Of(p)].upstream)
        /\ picked[Of(p)].upstream \in ToSet(Actual(i))
    BY <1>3, <1>4
  <2> QED
    BY <1>1, <2>1, BuiltEntry DEF Exact
<1>8. \A k \in D : \E p \in P : f[p] = k
  <2> SUFFICES ASSUME NEW k \in D PROVE \E p \in P : Of(p) = k
    OBVIOUS
  <2>1. PICK p \in P : Names(p, picked[k].upstream)
    BY <1>5
  <2>2. picked[k].upstream = picked[Of(p)].upstream
    <3>1. PICK a \in ToSet(Actual(i)) : \A b \in ToSet(Actual(i)) : Names(p, b) => b = a
      BY <1>1, BuiltEntry DEF Exact
    <3> QED
      BY <1>3, <1>4, <2>1, <3>1
  <2>3. Of(p) = k
    BY <1>3, <2>2, BuiltEntry
  <2> QED
    BY <2>3
<1>9. f \in Bijection(P, D)
  <2> HIDE DEF f, P, D
  <2>1. f \in Injection(P, D)
    BY <1>6, <1>7 DEF Injection, IsInjective
  <2>2. f \in Surjection(P, D)
    BY <1>6, <1>8 DEF Surjection
  <2> QED
    BY <2>1, <2>2 DEF Bijection
<1> QED
  BY <1>1, <1>9, FS_Bijection DEF ExistsBijection

LEMMA BuiltIsMirrored == ASSUME StackInv PROVE MirrorIsShipped
<1> SUFFICES ASSUME out = "built", NEW i \in DOMAIN stack
             PROVE  /\ \E k \in DOMAIN picked : picked[k].pr = stack[i].pr /\ picked[k].upstream = mirror[i]
                    /\ (\A j \in DOMAIN stack : stack[j].pr = stack[i].pr => j = i) =>
                          \E m \in Position(i) :
                             /\ Actual(i)[m] = mirror[i]
                             /\ \A n \in Position(i) : n > m => ~By(stack[i].pick, Actual(i)[n])
  BY DEF MirrorIsShipped, Actual, Position
<1>1. PICK k \in Shipped(i) : TRUE
  <2>1. stack[i].pick # << >>
    BY BuiltEntry DEF Malformed
  <2>2. PICK p : p \in ToSet(stack[i].pick)
    BY <2>1, StackLists, ListFacts DEF StackInv
  <2>3. PICK a \in ToSet(Actual(i)) : Names(p, a)
    BY <2>2, BuiltEntry DEF Exact
  <2>4. PICK m \in Position(i) : Actual(i)[m] = a
    BY DEF ToSet, Position
  <2>5. m \in Wanted(i)
    BY <2>2, <2>3, <2>4 DEF Wanted, By
  <2> QED
    BY <2>5, BuiltEntry
<1>2. PICK l \in DOMAIN picked : LastOf(stack[i].pr, l) /\ mirror[i] = picked[l].upstream
  <2> DEFINE own == {j \in DOMAIN picked : picked[j].pr = stack[i].pr}
             last(j) == j \in own /\ \A h \in own : h <= j
             l == CHOOSE j \in own : \A h \in own : h <= j
  <2>1. \E j \in own : \A h \in own : h <= j
    <3>1. k \in DOMAIN picked /\ picked[k].pr = stack[i].pr
      BY BuiltEntry
    <3>2. PICK j \in DOMAIN picked : LastOf(stack[i].pr, j)
      BY <3>1 DEF StackInv, LastInv
    <3> QED
      BY <3>2 DEF LastOf
  <2>2. l \in own /\ \A h \in own : h <= l
    BY <2>1
  <2>3. mirror[i] = picked[l].upstream
    BY DEF StackInv, BuiltInv, MirrorTarget
  <2> QED
    BY <2>2, <2>3 DEF LastOf
<1>3. ASSUME \A j \in DOMAIN stack : stack[j].pr = stack[i].pr => j = i
      PROVE  \E m \in Position(i) :
                /\ Actual(i)[m] = mirror[i]
                /\ \A n \in Position(i) : n > m => ~By(stack[i].pick, Actual(i)[n])
  <2>1. l \in Shipped(i)
    <3>1. picked[l].entry \in DOMAIN stack /\ picked[l].pr = stack[picked[l].entry].pr
      <4>1. picked[l] \in Pick
        BY LenProperties DEF StackInv, TypeInv
      <4>2. picked[l].entry \in DOMAIN stack
        BY <4>1 DEF Pick
      <4> QED
        BY <4>2 DEF StackInv, PickInv, Building
    <3> QED
      BY <1>2, <1>3, <3>1 DEF LastOf, Shipped
  <2>2. PICK m \in Wanted(i) : picked[l].upstream = Actual(i)[m]
    BY <2>1, BuiltEntry
  <2>3. ASSUME NEW n \in Position(i), n > m, By(stack[i].pick, Actual(i)[n])
        PROVE  FALSE
    <3>1. m \in Position(i) /\ m \in Nat /\ n \in Nat
      BY StackLists DEF StackInv, Wanted
    <3>2. PICK h \in Shipped(i) : picked[h].upstream = Actual(i)[n]
      BY <2>3, BuiltEntry DEF Wanted
    <3>3. h <= l
      BY <1>2, BuiltEntry DEF LastOf
    <3>4. h # l
      BY <2>2, <2>3, <3>1, <3>2, StackLists DEF StackInv, IsInjective, Position
    <3>5. Before(i, Actual(i)[n], Actual(i)[m])
      <4>1. h < l
        BY <2>1, <3>3, <3>4, BuiltEntry
      <4> QED
        BY <2>1, <2>2, <3>2, <4>1, BuiltEntry
    <3>6. PICK x, y \in Position(i) : x < y /\ Actual(i)[x] = Actual(i)[n] /\ Actual(i)[y] = Actual(i)[m]
      BY <3>5 DEF Before
    <3>7. x = n /\ y = m
      BY <3>1, <3>6, StackLists DEF StackInv, IsInjective, Position
    <3> QED
      BY <2>3, <3>1, <3>6, <3>7
  <2> QED
    BY <1>2, <2>2, <2>3 DEF Wanted
<1> QED
  BY <1>2, <1>3 DEF LastOf

-----------------------------------------------------------------------------
(* Theorems *)

\* The list of commits is what the manifest says (build_stack, stack.py).
THEOREM StackIsExact == StackSpec => []ExactStack
<1> QED
  BY StackInvariant, BuiltIsExact, PTL

\* As many commits of an entry are adapted as its map has prefixes (_substitute).
THEOREM MapIsHonoured == StackSpec => []AdaptedAsMapped
<1> QED
  BY StackInvariant, BuiltIsAdapted, PTL

\* A mirror ends with the last commit that shipped (mirror_target).
THEOREM MirrorsShip == StackSpec => []MirrorIsShipped
<1> QED
  BY StackInvariant, BuiltIsMirrored, PTL
=============================================================================
