--------------------------- MODULE SnapshotStore ---------------------------
(***************************************************************************)
(* What a kist repository promises its users.  A snapshot is committed by  *)
(* one write, and from then on until it is forgotten everything it refers  *)
(* to can be read: there is no state in which a listed snapshot is only    *)
(* partly there (format.md, section 17).                                   *)
(***************************************************************************)
VARIABLES
    committed,      \* the snapshots that are listed
    restorable      \* those of them that can be read in full

vars == <<committed, restorable>>

(* An empty repository, or one in use. *)
Init == restorable = committed

Commit(s) ==
    /\ committed' = committed \cup {s}
    /\ restorable' = restorable \cup {s}

Forget(s) ==
    /\ committed' = committed \ {s}
    /\ restorable' = restorable \ {s}

Next ==
    \/ \E s \in committed' : Commit(s)
    \/ \E s \in committed : Forget(s)

Spec == Init /\ [][Next]_vars
=============================================================================
