---------------------------- MODULE MCExecProcs -----------------------------
(***************************************************************************)
(* Two containers of a pod and two clients that exec into them.            *)
(***************************************************************************)
EXTENDS ExecProcs, TLC

CONSTANTS c1, c2, x, y, k1, k2

Pod     == {c1, c2}
Ids     == {x, y}
Two     == {k1, k2}

\* Every client picks ids of its own, as CRI does with random ones.
OwnIds  == (k1 :> {<<c1, x>>}) @@ (k2 :> {<<c2, y>>})
\* Both clients use the same id in the same container.
SameKey == (k1 :> {<<c1, x>>}) @@ (k2 :> {<<c1, x>>})
\* Each container has a process with the same id.
SameId  == (k1 :> {<<c1, x>>}) @@ (k2 :> {<<c2, x>>})
=============================================================================
