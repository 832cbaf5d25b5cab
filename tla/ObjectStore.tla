----------------------------- MODULE ObjectStore -----------------------------
(***************************************************************************)
(* What Backend (kist-backend, lib.rs) promises of one object: every call  *)
(* takes effect at one moment between its start and its answer, or fails,  *)
(* and put_if_absent succeeds for one writer only.  A lenient store (the   *)
(* rclone bridge) may let a later writer replace the first one, and tells  *)
(* a client whose rclone process has died that it has done what it has     *)
(* not.  A get that finds the object replaced since it looked at its       *)
(* length may return a part of the new one.                                *)
(***************************************************************************)
CONSTANTS Client, Key, Content, None

VARIABLES
    object,     \* what each key holds, None when there is no object
    request,    \* the call each client has made
    reply,      \* its answer, "pending" until the call takes effect
    met,        \* what a get found when it looked, None before
    lenient,    \* whether the store is the rclone bridge
    dead        \* clients whose rclone process has died

vars == <<object, request, reply, met, lenient, dead>>

Ops == {"create", "put", "get", "delete"}
NoRequest == [op |-> "none", key |-> None]

\* A call with the content it writes; a client writes its own content.
Ask(c) ==
    /\ reply[c] # "pending"
    /\ \E op \in Ops, k \in Key :
          request' = [request EXCEPT ![c] = [op |-> op, key |-> k]]
    /\ reply' = [reply EXCEPT ![c] = "pending"]
    /\ met' = [met EXCEPT ![c] = None]
    /\ UNCHANGED <<object, lenient, dead>>

Answer(c, o, r) ==
    /\ reply[c] = "pending"
    /\ object' = o
    /\ reply' = [reply EXCEPT ![c] = r]
    /\ UNCHANGED <<request, met, lenient, dead>>

Create(c, k) ==
    \/ /\ object[k] = None \/ lenient
       /\ Answer(c, [object EXCEPT ![k] = c], "ok")
    \/ object[k] # None /\ Answer(c, object, "exists")
Put(c, k) == Answer(c, [object EXCEPT ![k] = c], "ok")
Get(c, k) ==
    \/ Answer(c, object, IF object[k] = None THEN "missing" ELSE object[k])
    \/ /\ object[k] # None /\ met[c] \notin {None, object[k]}
       /\ Answer(c, object, "truncated")
Delete(c, k) == Answer(c, [object EXCEPT ![k] = None], "ok")

\* What a call leaves under its key when it takes effect.
Effect(c, k) ==
    IF \/ request[c].op = "put"
       \/ request[c].op = "create" /\ (object[k] = None \/ lenient)
    THEN c
    ELSE IF request[c].op = "delete" THEN None ELSE object[k]

\* An error leaves open whether the call took effect.
Fail(c, k) ==
    \E o \in {object[k], Effect(c, k)} : Answer(c, [object EXCEPT ![k] = o], "error")

\* The false success of what was sent to a dead rclone; never of a get.
Pretend(c) ==
    /\ c \in dead /\ request[c].op \in {"create", "put", "delete"}
    /\ Answer(c, object, "ok")

Serve(c) ==
    LET k == request[c].key IN
    \/ /\ c \notin dead
       /\ \/ request[c].op = "create" /\ Create(c, k)
          \/ request[c].op = "put" /\ Put(c, k)
          \/ request[c].op = "get" /\ Get(c, k)
          \/ request[c].op = "delete" /\ Delete(c, k)
    \/ request[c].op # "none" /\ Fail(c, k)
    \/ Pretend(c)

\* A get looks at what there is before it reads it.
Look(c) ==
    LET k == request[c].key IN
    /\ reply[c] = "pending" /\ request[c].op = "get"
    /\ met[c] = None /\ object[k] # None
    /\ met' = [met EXCEPT ![c] = object[k]]
    /\ UNCHANGED <<object, request, reply, lenient, dead>>

Die(c) ==
    /\ lenient
    /\ dead' = dead \cup {c}
    /\ UNCHANGED <<object, request, reply, met, lenient>>

Init ==
    /\ object \in [Key -> Content \cup {None}]
    /\ request = [c \in Client |-> NoRequest]
    /\ reply = [c \in Client |-> "none"]
    /\ met = [c \in Client |-> None]
    /\ lenient \in BOOLEAN /\ dead = {}

Next == \E c \in Client : Ask(c) \/ Look(c) \/ Serve(c) \/ Die(c)
Spec == Init /\ [][Next]_vars
=============================================================================
