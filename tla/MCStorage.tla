------------------------------ MODULE MCStorage ------------------------------
(***************************************************************************)
(* Storage for TLC: which clients meet.                                    *)
(***************************************************************************)
EXTENDS Storage, TLC

CONSTANTS c1, c2, c3, i1, i2

Job(kind, id) == [kind |-> kind, id |-> id]
Plan(a, b, c) == (c1 :> a) @@ (c2 :> b) @@ (c3 :> c)
Idle == [c \in Client |-> Job("none", i1)]

\* The content of the second client is longer than the others.
SomeSizes == [v \in Contents |-> IF v = c2 THEN 2 ELSE 1]

\* Two inits; commits that try the same keys; a listing while a snapshot goes
\* and another comes; a snapshot that is read while it goes and one of the same
\* key comes; touches of one tree.
AllPlans ==
    {Idle,
     Plan(Job("init", i1), Job("init", i1), Job("none", i1)),
     Plan(Job("commit", i1), Job("commit", i1), Job("none", i1)),
     Plan(Job("list", i1), Job("forget", i1), Job("commit", i2)),
     Plan(Job("read", i1), Job("commit", i1), Job("forget", i1)),
     Plan(Job("touch", i1), Job("touch", i1), Job("none", i1))}
=============================================================================
