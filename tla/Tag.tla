--------------------------------- MODULE Tag ---------------------------------
(***************************************************************************)
(* What a tag is to those who use it: its release on GitHub and the refs   *)
(* of the fork it is built from.  It is put together piece by piece, is    *)
(* published only as a whole, and stays as it was published unless it is   *)
(* restamped on request.  Release implements it.                           *)
(***************************************************************************)
CONSTANTS
    Assets,     \* what users download
    Refs,       \* the fork's refs
    Stacks,     \* the stacks there are
    None        \* no stack

VARIABLES
    state,      \* "none", "draft" or "published"
    notes,      \* the stack the release notes describe
    assets,     \* the stack each asset is built from
    refs,       \* the stack each ref points to
    restamping  \* somebody was asked to rewrite the tag and is at it

tag == <<state, notes, assets, refs>>
vars == <<tag, restamping>>

Init ==
    /\ state = "none" /\ notes = None
    /\ assets = [x \in Assets |-> None] /\ refs = [r \in Refs |-> None]
    /\ restamping = FALSE

\* The pieces may change.
Open == state # "published" \/ restamping

Push(r, s) ==
    /\ Open /\ refs' = [refs EXCEPT ![r] = s]
    /\ UNCHANGED <<state, notes, assets>>

Describe(s) ==
    /\ Open /\ notes' = s
    /\ state' = IF state = "none" THEN "draft" ELSE state
    /\ UNCHANGED <<assets, refs>>

Attach(x, s) ==
    /\ Open /\ state # "none" /\ assets' = [assets EXCEPT ![x] = s]
    /\ UNCHANGED <<state, notes, refs>>

\* Every asset is there, of one stack, and the refs are that stack.
Whole(s) == (\A x \in Assets : assets[x] = s) /\ (\A r \in Refs : refs[r] = s)

Publish ==
    /\ state = "draft" /\ \E s \in Stacks : Whole(s)
    /\ state' = "published" /\ UNCHANGED <<notes, assets, refs>>

Step ==
    \/ \E s \in Stacks :
          \/ \E r \in Refs : Push(r, s)
          \/ \E x \in Assets : Attach(x, s)
    \/ \E s \in Stacks \cup {None} : Describe(s)
    \/ Publish

\* Who is asked to rewrite the tag, and when he is done, is not the tag's.
Next == [Step]_tag /\ restamping' \in BOOLEAN

Spec == Init /\ [][Next]_vars
=============================================================================
