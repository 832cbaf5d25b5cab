------------------------------- MODULE TreeGC -------------------------------
(***************************************************************************)
(* The tree half of kist's lock-free two-phase garbage collection: the     *)
(* backups of several clients and one prune share a repository without a   *)
(* lock.  A tree is named by its content, so a backup may meet, reuse or   *)
(* recreate a tree that prune has marked, is about to delete or has just   *)
(* deleted.  What keeps a committed snapshot readable is the touch object  *)
(* a backup overwrites for every reused tree, the gate a backup passes     *)
(* before it writes its snapshot, and the age (grace) a mark must reach    *)
(* before prune may act on it.                                             *)
(*                                                                         *)
(* Every request to the storage backend is one step.  Packs and the index  *)
(* are the subject of PackGC; here the content of a backup is the set of   *)
(* trees it reaches.                                                       *)
(*                                                                         *)
(* A definition marked "Slip" is a plausible mistake in the definition     *)
(* that follows it.  Nothing uses it; the properties are tested by putting *)
(* it in the other's place.                                                *)
(***************************************************************************)
EXTENDS Integers, FiniteSets

CONSTANTS
    Client,         \* client ids; each runs one backup at a time (file lock)
    Tree,           \* tree ids that some content of the sources can yield
    Contents,       \* the sets of those trees that a backup may reach
    PruneGrace,     \* prune --grace
    BackupGrace,    \* backup --gc-grace
    SafetyMargin,   \* GRACE_SAFETY_MARGIN (one hour)
    InactiveAfter,  \* prune --inactive-after
    ClockSkew,      \* prune --clock-skew
    ClientOffset,   \* [Client -> Int]: a client's clock minus the backend's
    PruneOffset,    \* prune's clock minus the backend's
    Replicas,       \* config.replicas > 0
    WindowClosed,   \* see GateOpen
    MaxStall,       \* see Tick
    Faults,         \* prune may crash, and its deletes may fail
    MaxTime,        \* bound: the clock stops here
    MaxSnaps        \* bound: snapshots listed at a time

Absent == -1        \* no such object

ASSUME ConstantsAssumption ==
    /\ Contents \subseteq SUBSET Tree
    /\ PruneGrace \in Nat /\ BackupGrace \in Nat /\ SafetyMargin \in Nat
    /\ InactiveAfter \in Nat /\ ClockSkew \in Nat
    /\ ClientOffset \in [Client -> Int] /\ PruneOffset \in Int
    /\ Replicas \in BOOLEAN /\ WindowClosed \in BOOLEAN /\ Faults \in BOOLEAN
    /\ MaxStall \in Nat /\ MaxTime \in Nat /\ MaxSnaps \in Nat

VARIABLES
    now,            \* the backend's clock, which stamps every object
    \* the repository
    tree,           \* [Tree -> mtime of trees/<t>, or Absent]
    replica,        \* trees that have their trees/<t>.r1
    touch,          \* [Tree -> mtime of touch/<t>, or Absent]
    mark,           \* [Tree -> mtime of gc/<t>, or Absent]
    snaps,          \* the snapshots: client, time and reachable trees
    \* the backup of each client
    bpc,            \* where it is
    started,        \* when it started
    marksAtStart,   \* PreparedBackup::marks_at_start
    todo,           \* trees the walk has still to write
    seen,           \* Backup::seen_trees
    cur,            \* the tree write_tree is busy with: empty or a singleton
    checkedAt,      \* commit_at's "now"
    toHead,         \* <<tree, mark>> pairs whose tree the gate has yet to HEAD
    toHeadTouch,    \* ... and whose touch it has yet to HEAD
    \* prune
    ppc,            \* where it is
    pnow,           \* prune_plan's "now", from prune's clock
    live,           \* Reachability::live_trees
    minActive,      \* min_active_latest: a set, empty or a singleton
    listed,         \* trees_listed
    toDelete, marksToRemove, toMark,
    target,         \* the tree prune is busy with: empty or a singleton
    sweep           \* touch objects the orphan sweep has still to look at

repoVars == <<tree, replica, touch, mark, snaps>>
backupVars == <<bpc, started, marksAtStart, todo, seen, cur,
                checkedAt, toHead, toHeadTouch>>
pruneVars == <<ppc, pnow, live, minActive, listed, toDelete, marksToRemove,
               toMark, target, sweep>>
vars == <<now, repoVars, backupVars, pruneVars>>

Stamp == Nat \cup {Absent}
Snapshot == [client : Client, time : Int, trees : SUBSET Tree]

\* The unmarked repository: what the functions below hold when nothing is there.
NoObject == [t \in Tree |-> Absent]

\* GRACE_SAFETY_MARGIN.min(grace / 2)
Margin == IF SafetyMargin <= BackupGrace \div 2 THEN SafetyMargin
          ELSE BackupGrace \div 2

Reachable == UNION {s.trees : s \in snaps}

\* read_tree: the primary, or its replica when the primary is missing.
Readable(t) == tree[t] # Absent \/ t \in replica

BackupPc == {"idle", "marks", "walk", "exists", "heal", "replica",
             "replicaTouch", "touch", "gate", "verify"}
\* Past the BackupTooLong check: only the gate and the snapshot are left.
InGate == {"gate", "verify"}
PrunePc == {"idle", "walk", "trees", "marks", "delete", "headTouch",
            "deleteTree", "deleteReplica", "deleteTouch", "unmark", "mark",
            "sweep", "sweepDelete"}
-----------------------------------------------------------------------------
Init ==
    /\ now = 0
    /\ tree = NoObject /\ replica = {} /\ touch = NoObject /\ mark = NoObject
    /\ snaps = {}
    /\ bpc = [c \in Client |-> "idle"]
    /\ started = [c \in Client |-> 0]
    /\ marksAtStart = [c \in Client |-> NoObject]
    /\ todo = [c \in Client |-> {}]
    /\ seen = [c \in Client |-> {}]
    /\ cur = [c \in Client |-> {}]
    /\ checkedAt = [c \in Client |-> 0]
    /\ toHead = [c \in Client |-> {}]
    /\ toHeadTouch = [c \in Client |-> {}]
    /\ ppc = "idle" /\ pnow = 0 /\ live = {} /\ minActive = {}
    /\ listed = NoObject /\ toDelete = {} /\ marksToRemove = {}
    /\ toMark = {} /\ target = {} /\ sweep = {}

(***************************************************************************)
(* Time.  A backup that has passed the BackupTooLong check finishes its    *)
(* gate and writes its snapshot within MaxStall: the check is not repeated *)
(* before the snapshot is written, so the safety margin is all that covers *)
(* a slow gate, a suspended laptop and prune's clock.                      *)
(***************************************************************************)
Tick ==
    /\ now < MaxTime
    /\ \A c \in Client : bpc[c] \in InGate => now < checkedAt[c] + MaxStall
    /\ now' = now + 1
    /\ UNCHANGED <<repoVars, backupVars, pruneVars>>

-----------------------------------------------------------------------------
(***************************************************************************)
(* The backup of client c.                                                 *)
(***************************************************************************)

\* A backup that ends, for whatever reason, leaves only repository objects.
Idle(c) ==
    /\ bpc' = [bpc EXCEPT ![c] = "idle"]
    /\ started' = [started EXCEPT ![c] = 0]
    /\ marksAtStart' = [marksAtStart EXCEPT ![c] = NoObject]
    /\ todo' = [todo EXCEPT ![c] = {}]
    /\ seen' = [seen EXCEPT ![c] = {}]
    /\ cur' = [cur EXCEPT ![c] = {}]
    /\ checkedAt' = [checkedAt EXCEPT ![c] = 0]
    /\ toHead' = [toHead EXCEPT ![c] = {}]
    /\ toHeadTouch' = [toHeadTouch EXCEPT ![c] = {}]

\* backup_prepare begins: the time is taken first.  content is what the walk
\* will reach.
BackupStart(c, content) ==
    /\ bpc[c] = "idle"
    /\ Cardinality(snaps) < MaxSnaps
    /\ bpc' = [bpc EXCEPT ![c] = "marks"]
    /\ started' = [started EXCEPT ![c] = now]
    /\ todo' = [todo EXCEPT ![c] = content]
    /\ UNCHANGED <<now, repoVars, pruneVars, marksAtStart, seen, cur,
                   checkedAt, toHead, toHeadTouch>>

\* list_gc_marks at the start.
ListGcMarks(c) ==
    /\ bpc[c] = "marks"
    /\ marksAtStart' = [marksAtStart EXCEPT ![c] = mark]
    /\ bpc' = [bpc EXCEPT ![c] = "walk"]
    /\ UNCHANGED <<now, repoVars, pruneVars, started, todo, seen, cur,
                   checkedAt, toHead, toHeadTouch>>

\* write_tree touches a reused tree, and one it created while its mark from
\* before the start is still there.
NeedsTouch(c, t, created) == ~created \/ marksAtStart[c][t] # Absent

\* Where write_tree goes once the primary is in place.
AfterPrimary(c, t, created) ==
    CASE Replicas /\ NeedsTouch(c, t, created)  -> "replicaTouch"
      [] Replicas /\ ~NeedsTouch(c, t, created) -> "replica"
      [] ~Replicas /\ NeedsTouch(c, t, created) -> "touch"
      [] OTHER -> "walk"

\* write_tree goes on to pc; it is done with t when that is the walk.
Proceed(c, t, pc) ==
    /\ bpc' = [bpc EXCEPT ![c] = pc]
    /\ cur' = [cur EXCEPT ![c] = IF pc = "walk" THEN {} ELSE {t}]

\* write_tree: put_if_absent of the primary.
WriteTree(c, t) ==
    /\ bpc[c] = "walk" /\ t \in todo[c]
    /\ todo' = [todo EXCEPT ![c] = @ \ {t}]
    /\ seen' = [seen EXCEPT ![c] = @ \cup {t}]
    /\ \/ /\ tree[t] = Absent
          /\ tree' = [tree EXCEPT ![t] = now]
          /\ Proceed(c, t, AfterPrimary(c, t, TRUE))
       \/ /\ tree[t] # Absent
          /\ Proceed(c, t, "exists")
          /\ UNCHANGED tree
    /\ UNCHANGED <<now, replica, touch, mark, snaps, pruneVars, started,
                   marksAtStart, checkedAt, toHead, toHeadTouch>>

\* write_tree, AlreadyExists: read_tree_once verifies the stored bytes.  Any
\* error, NotFound included, makes the next step overwrite them.
ReadExisting(c, t) ==
    /\ bpc[c] = "exists" /\ t \in cur[c]
    /\ \/ tree[t] = Absent /\ Proceed(c, t, "heal")
       \/ tree[t] # Absent /\ Proceed(c, t, AfterPrimary(c, t, FALSE))
    /\ UNCHANGED <<now, repoVars, pruneVars, started, marksAtStart, todo, seen,
                   checkedAt, toHead, toHeadTouch>>

HealTree(c, t) ==
    /\ bpc[c] = "heal" /\ t \in cur[c]
    /\ tree' = [tree EXCEPT ![t] = now]
    /\ Proceed(c, t, AfterPrimary(c, t, FALSE))
    /\ UNCHANGED <<now, replica, touch, mark, snaps, pruneVars, started,
                   marksAtStart, todo, seen, checkedAt, toHead, toHeadTouch>>

\* write_tree: put_if_absent of the replica; AlreadyExists is fine.
WriteReplica(c, t) ==
    /\ bpc[c] \in {"replica", "replicaTouch"} /\ t \in cur[c]
    /\ replica' = replica \cup {t}
    /\ Proceed(c, t, IF bpc[c] = "replica" THEN "walk" ELSE "touch")
    /\ UNCHANGED <<now, tree, touch, mark, snaps, pruneVars, started,
                   marksAtStart, todo, seen, checkedAt, toHead, toHeadTouch>>

\* Slip: put_if_absent keeps the old time of a touch that is already there.
TouchTreeIfAbsent(c, t) ==
    /\ bpc[c] = "touch" /\ t \in cur[c]
    /\ touch' = [touch EXCEPT ![t] = IF @ = Absent THEN now ELSE @]
    /\ Proceed(c, t, "walk")
    /\ UNCHANGED <<now, tree, replica, mark, snaps, pruneVars, started,
                   marksAtStart, todo, seen, checkedAt, toHead, toHeadTouch>>

\* touch_tree: an overwriting put, so that the mtime is refreshed.
TouchTree(c, t) ==
    /\ bpc[c] = "touch" /\ t \in cur[c]
    /\ touch' = [touch EXCEPT ![t] = now]
    /\ Proceed(c, t, "walk")
    /\ UNCHANGED <<now, tree, replica, mark, snaps, pruneVars, started,
                   marksAtStart, todo, seen, checkedAt, toHead, toHeadTouch>>

\* commit_at: too long a backup never commits.
TooLong(c) == now - started[c] + Margin >= BackupGrace

CommitAt(c) ==
    /\ bpc[c] = "walk" /\ todo[c] = {}
    /\ ~TooLong(c)
    /\ checkedAt' = [checkedAt EXCEPT ![c] = now]
    /\ bpc' = [bpc EXCEPT ![c] = "gate"]
    /\ UNCHANGED <<now, repoVars, pruneVars, started, marksAtStart, todo, seen,
                   cur, toHead, toHeadTouch>>

BackupTooLong(c) ==
    /\ bpc[c] = "walk" /\ todo[c] = {}
    /\ TooLong(c)
    /\ Idle(c)
    /\ UNCHANGED <<now, repoVars, pruneVars>>

\* Slip: only marks that are still there; prune may have removed the one from
\* the start together with its tree.
ObligationsNow(c) ==
    {<<t, mark[t]>> : t \in {u \in seen[c] :
         /\ mark[u] # Absent
         /\ mark[u] + BackupGrace <= checkedAt[c] + ClientOffset[c]}}

\* The pairs verify_touched_trees looks at: reachable trees whose mark has
\* expired by now, and reachable trees that were marked at the start.
Obligations(c) ==
    {<<t, mark[t]>> : t \in {u \in seen[c] :
         /\ mark[u] # Absent
         /\ mark[u] + BackupGrace <= checkedAt[c] + ClientOffset[c]}}
    \cup {<<t, marksAtStart[c][t]>> : t \in {u \in seen[c] :
                                             marksAtStart[c][u] # Absent}}

\* list_gc_marks in commit_at.
VerifyTouchedTrees(c) ==
    /\ bpc[c] = "gate"
    /\ toHead' = [toHead EXCEPT ![c] = Obligations(c)]
    /\ bpc' = [bpc EXCEPT ![c] = "verify"]
    /\ UNCHANGED <<now, repoVars, pruneVars, started, marksAtStart, todo, seen,
                   cur, checkedAt, toHeadTouch>>

(***************************************************************************)
(* Prune's HEAD of a tree and its DELETE are separate requests.  ADR 005   *)
(* (section 6a) relies on a backup not getting from writing the tree to    *)
(* its commit within that round trip; WindowClosed states it where it      *)
(* matters, at the gate's HEAD of a tree prune is about to delete.         *)
(***************************************************************************)
GateOpen(t) ==
    WindowClosed => ~(ppc \in {"headTouch", "deleteTree"} /\ t \in target)

\* head_tree_and_touch, first request: the tree must exist.
HeadTree(c, o) ==
    /\ bpc[c] = "verify" /\ toHeadTouch[c] = {}
    /\ o \in toHead[c]
    /\ GateOpen(o[1])
    /\ tree[o[1]] # Absent
    /\ toHead' = [toHead EXCEPT ![c] = @ \ {o}]
    /\ toHeadTouch' = [toHeadTouch EXCEPT ![c] = {o}]
    /\ UNCHANGED <<now, repoVars, pruneVars, bpc, started, marksAtStart, todo,
                   seen, cur, checkedAt>>

\* Second request: its touch must be at least as new as the mark.
HeadTouch(c, o) ==
    /\ bpc[c] = "verify" /\ o \in toHeadTouch[c]
    /\ touch[o[1]] # Absent /\ touch[o[1]] >= o[2]
    /\ toHeadTouch' = [toHeadTouch EXCEPT ![c] = {}]
    /\ UNCHANGED <<now, repoVars, pruneVars, bpc, started, marksAtStart, todo,
                   seen, cur, checkedAt, toHead>>

\* TreeMarked: the backup fails without a snapshot.
TreeMarked(c, o) ==
    /\ bpc[c] = "verify"
    /\ \/ o \in toHead[c] /\ toHeadTouch[c] = {} /\ tree[o[1]] = Absent
       \/ o \in toHeadTouch[c] /\ ~(touch[o[1]] # Absent /\ touch[o[1]] >= o[2])
    /\ Idle(c)
    /\ UNCHANGED <<now, repoVars, pruneVars>>

\* commit_snapshot: the snapshot carries the backup's start, by its client's
\* clock.
CommitSnapshot(c) ==
    /\ bpc[c] = "verify" /\ toHead[c] = {} /\ toHeadTouch[c] = {}
    /\ snaps' = snaps \cup {[client |-> c,
                             time |-> started[c] + ClientOffset[c],
                             trees |-> seen[c]]}
    /\ Idle(c)
    /\ UNCHANGED <<now, tree, replica, touch, mark, pruneVars>>

\* A backup may crash, be interrupted or meet a storage error anywhere.
BackupFails(c) ==
    /\ bpc[c] # "idle"
    /\ Idle(c)
    /\ UNCHANGED <<now, repoVars, pruneVars>>

\* forget deletes snapshots at once.
Forget(s) ==
    /\ s \in snaps
    /\ snaps' = snaps \ {s}
    /\ UNCHANGED <<now, tree, replica, touch, mark, backupVars, pruneVars>>

-----------------------------------------------------------------------------
(***************************************************************************)
(* prune: prune_plan, then PrunePlan::execute.                             *)
(***************************************************************************)
PruneIdle ==
    /\ ppc' = "idle" /\ pnow' = 0 /\ live' = {} /\ minActive' = {}
    /\ listed' = NoObject /\ toDelete' = {} /\ marksToRemove' = {}
    /\ toMark' = {} /\ target' = {} /\ sweep' = {}

PruneStart ==
    /\ ppc = "idle"
    /\ ppc' = "walk"
    /\ pnow' = now + PruneOffset
    /\ UNCHANGED <<now, repoVars, backupVars, live, minActive, listed, toDelete,
                   marksToRemove, toMark, target, sweep>>

\* Step 5: the latest snapshot of every client that is still active.
ActiveLatest ==
    {s.time : s \in {r \in snaps :
        /\ r.time >= pnow - InactiveAfter
        /\ \A q \in snaps : q.client = r.client => q.time <= r.time}}

\* Slip: a client that stopped backing up blocks deletion for ever.
MinLatest ==
    LET latest == {s.time : s \in {r \in snaps :
                      \A q \in snaps : q.client = r.client => q.time <= r.time}}
    IN  {m - ClockSkew : m \in {a \in latest : \A b \in latest : a <= b}}

\* The least of them, moved back by the clock skew; none when no client is active.
MinActiveLatest ==
    {m - ClockSkew : m \in {a \in ActiveLatest : \A b \in ActiveLatest : a <= b}}

\* Step 2: walk_references reads every reachable tree; one unreadable tree
\* makes prune refuse.
WalkReferences ==
    /\ ppc = "walk"
    /\ \A t \in Reachable : Readable(t)
    /\ live' = Reachable
    /\ minActive' = MinActiveLatest
    /\ ppc' = "trees"
    /\ UNCHANGED <<now, repoVars, backupVars, pnow, listed, toDelete,
                   marksToRemove, toMark, target, sweep>>

PruneUnsafe ==
    /\ ppc = "walk"
    /\ \E t \in Reachable : ~Readable(t)
    /\ PruneIdle
    /\ UNCHANGED <<now, repoVars, backupVars>>

\* Step 3: the trees are listed, then the marks.
ListTrees ==
    /\ ppc = "trees"
    /\ listed' = tree
    /\ ppc' = "marks"
    /\ UNCHANGED <<now, repoVars, backupVars, pnow, live, minActive, toDelete,
                   marksToRemove, toMark, target, sweep>>

\* Slip: only the marks of trees that are gone are cleared.
MarkStale(t) == mark[t] # Absent /\ listed[t] = Absent

\* Step 6: what becomes of a marked tree.
MarkSettled(t) == mark[t] # Absent /\ (listed[t] = Absent \/ t \in live)

\* Slip: a mark counts as soon as it is seen.
DeletableAtOnce(t) ==
    /\ mark[t] # Absent /\ listed[t] # Absent /\ t \notin live
    /\ \A m \in minActive : mark[t] < m

Deletable(t) ==
    /\ mark[t] # Absent /\ listed[t] # Absent /\ t \notin live
    /\ mark[t] + PruneGrace <= pnow
    /\ \A m \in minActive : mark[t] < m
\* Step 8: what gets a new mark.
Markable(t) ==
    /\ mark[t] = Absent /\ listed[t] # Absent /\ t \notin live
    /\ listed[t] + PruneGrace <= pnow

PlanPrune ==
    /\ ppc = "marks"
    /\ toDelete' = {t \in Tree : Deletable(t)}
    /\ marksToRemove' = {t \in Tree : MarkSettled(t)}
    /\ toMark' = {t \in Tree : Markable(t)}
    /\ ppc' = "delete"
    /\ pnow' = 0 /\ live' = {} /\ minActive' = {} /\ listed' = NoObject
    /\ UNCHANGED <<now, repoVars, backupVars, target, sweep>>

\* A dry run ends with the plan.
DryRun ==
    /\ ppc = "marks"
    /\ PruneIdle
    /\ UNCHANGED <<now, repoVars, backupVars>>

\* Step 11, HEAD of the tree: gone or rewritten since its mark, the mark goes.
HeadTarget(t) ==
    /\ ppc = "delete" /\ t \in toDelete
    /\ toDelete' = toDelete \ {t}
    /\ \/ /\ tree[t] = Absent \/ tree[t] >= mark[t]
          /\ marksToRemove' = marksToRemove \cup {t}
          /\ UNCHANGED <<ppc, target>>
       \/ /\ tree[t] # Absent /\ tree[t] < mark[t]
          /\ ppc' = "headTouch" /\ target' = {t}
          /\ UNCHANGED marksToRemove
    /\ UNCHANGED <<now, repoVars, backupVars, pnow, live, minActive, listed,
                   toMark, sweep>>

\* HEAD of its touch: as new as the mark, the tree is kept and the mark goes.
HeadTargetTouch(t) ==
    /\ ppc = "headTouch" /\ t \in target
    /\ \/ /\ touch[t] # Absent /\ touch[t] >= mark[t]
          /\ marksToRemove' = marksToRemove \cup {t}
          /\ ppc' = "delete" /\ target' = {}
       \/ /\ touch[t] = Absent \/ touch[t] < mark[t]
          /\ ppc' = "deleteTree"
          /\ UNCHANGED <<marksToRemove, target>>
    /\ UNCHANGED <<now, repoVars, backupVars, pnow, live, minActive, listed,
                   toDelete, toMark, sweep>>

DeleteTree(t) ==
    /\ ppc = "deleteTree" /\ t \in target
    /\ tree' = [tree EXCEPT ![t] = Absent]
    /\ marksToRemove' = marksToRemove \cup {t}
    /\ ppc' = "deleteReplica"
    /\ UNCHANGED <<now, replica, touch, mark, snaps, backupVars, pnow, live,
                   minActive, listed, toDelete, toMark, target, sweep>>

\* A delete that fails is reported; the mark stays for the next run.
DeleteFails(t) ==
    /\ Faults
    /\ ppc = "deleteTree" /\ t \in target
    /\ ppc' = "delete" /\ target' = {}
    /\ UNCHANGED <<now, repoVars, backupVars, pnow, live, minActive, listed,
                   toDelete, marksToRemove, toMark, sweep>>

\* The replica and the touch go with the tree.
DeleteReplica(t) ==
    /\ ppc = "deleteReplica" /\ t \in target
    /\ replica' = replica \ {t}
    /\ ppc' = "deleteTouch"
    /\ UNCHANGED <<now, tree, touch, mark, snaps, backupVars, pnow, live,
                   minActive, listed, toDelete, marksToRemove, toMark, target,
                   sweep>>

DeleteTouch(t) ==
    /\ ppc = "deleteTouch" /\ t \in target
    /\ touch' = [touch EXCEPT ![t] = Absent]
    /\ ppc' = "delete" /\ target' = {}
    /\ UNCHANGED <<now, tree, replica, mark, snaps, backupVars, pnow, live,
                   minActive, listed, toDelete, marksToRemove, toMark, sweep>>

\* Only after all deletions are the marks removed, and then new ones put.
DeletionsDone ==
    /\ ppc = "delete" /\ toDelete = {}
    /\ ppc' = "unmark"
    /\ UNCHANGED <<now, repoVars, backupVars, pnow, live, minActive, listed,
                   toDelete, marksToRemove, toMark, target, sweep>>

RemoveMark(t) ==
    /\ ppc = "unmark" /\ t \in marksToRemove
    /\ mark' = [mark EXCEPT ![t] = Absent]
    /\ marksToRemove' = marksToRemove \ {t}
    /\ UNCHANGED <<now, tree, replica, touch, snaps, backupVars, ppc, pnow,
                   live, minActive, listed, toDelete, toMark, target, sweep>>

UnmarkDone ==
    /\ ppc = "unmark" /\ marksToRemove = {}
    /\ ppc' = "mark"
    /\ UNCHANGED <<now, repoVars, backupVars, pnow, live, minActive, listed,
                   toDelete, marksToRemove, toMark, target, sweep>>

\* Step 12: put_if_absent keeps the time of a mark that is already there.
PutMark(t) ==
    /\ ppc = "mark" /\ t \in toMark
    /\ mark' = [mark EXCEPT ![t] = IF @ = Absent THEN now ELSE @]
    /\ toMark' = toMark \ {t}
    /\ UNCHANGED <<now, tree, replica, touch, snaps, backupVars, ppc, pnow,
                   live, minActive, listed, toDelete, marksToRemove, target,
                   sweep>>

\* Step 14: orphan touches, whose tree is gone, are swept.
ListTouches ==
    /\ ppc = "mark" /\ toMark = {}
    /\ sweep' = {t \in Tree : touch[t] # Absent}
    /\ ppc' = "sweep"
    /\ UNCHANGED <<now, repoVars, backupVars, pnow, live, minActive, listed,
                   toDelete, marksToRemove, toMark, target>>

SweepTouch(t) ==
    /\ ppc = "sweep" /\ t \in sweep
    /\ sweep' = sweep \ {t}
    /\ \/ tree[t] = Absent /\ ppc' = "sweepDelete" /\ target' = {t}
       \/ tree[t] # Absent /\ UNCHANGED <<ppc, target>>
    /\ UNCHANGED <<now, repoVars, backupVars, pnow, live, minActive, listed,
                   toDelete, marksToRemove, toMark>>

DeleteOrphanTouch(t) ==
    /\ ppc = "sweepDelete" /\ t \in target
    /\ touch' = [touch EXCEPT ![t] = Absent]
    /\ ppc' = "sweep" /\ target' = {}
    /\ UNCHANGED <<now, tree, replica, mark, snaps, backupVars, pnow, live,
                   minActive, listed, toDelete, marksToRemove, toMark, sweep>>

PruneDone ==
    /\ ppc = "sweep" /\ sweep = {}
    /\ PruneIdle
    /\ UNCHANGED <<now, repoVars, backupVars>>

\* prune crashes, or stops at the first storage error.
PruneFails ==
    /\ Faults
    /\ ppc # "idle"
    /\ PruneIdle
    /\ UNCHANGED <<now, repoVars, backupVars>>

-----------------------------------------------------------------------------
BackupNext(c) ==
    \/ \E content \in Contents : BackupStart(c, content)
    \/ ListGcMarks(c)
    \/ \E t \in Tree :
          \/ WriteTree(c, t) \/ ReadExisting(c, t) \/ HealTree(c, t)
          \/ WriteReplica(c, t) \/ TouchTree(c, t)
    \/ CommitAt(c) \/ BackupTooLong(c) \/ VerifyTouchedTrees(c)
    \/ \E o \in toHead[c] \cup toHeadTouch[c] :
          HeadTree(c, o) \/ HeadTouch(c, o) \/ TreeMarked(c, o)
    \/ CommitSnapshot(c)
    \/ BackupFails(c)

PruneNext ==
    \/ PruneStart \/ WalkReferences \/ PruneUnsafe \/ ListTrees \/ PlanPrune
    \/ DryRun \/ DeletionsDone \/ UnmarkDone \/ ListTouches \/ PruneDone
    \/ \E t \in Tree :
          \/ HeadTarget(t) \/ HeadTargetTouch(t) \/ DeleteTree(t)
          \/ DeleteFails(t) \/ DeleteReplica(t) \/ DeleteTouch(t)
          \/ RemoveMark(t) \/ PutMark(t)
          \/ SweepTouch(t) \/ DeleteOrphanTouch(t)
    \/ PruneFails

Next ==
    \/ Tick
    \/ \E c \in Client : BackupNext(c)
    \/ \E s \in snaps : Forget(s)
    \/ PruneNext

Spec == Init /\ [][Next]_vars

(***************************************************************************)
(* Fairness: an administrator keeps running prune, a run makes progress,   *)
(* and not every run is a dry run.  Nothing is assumed of the clients.     *)
(***************************************************************************)
Fairness ==
    /\ WF_vars(PruneNext)
    /\ SF_vars(PlanPrune)

FairSpec == Spec /\ WF_vars(Tick) /\ Fairness

-----------------------------------------------------------------------------
(***************************************************************************)
(* Properties.                                                             *)
(***************************************************************************)

\* Types: stamps are backend times or Absent, sets hold trees, and the gate's
\* pairs join a tree with the mark it must have outlived.
TypeOK ==
    /\ now \in Nat
    /\ tree \in [Tree -> Stamp] /\ replica \subseteq Tree
    /\ touch \in [Tree -> Stamp] /\ mark \in [Tree -> Stamp]
    /\ snaps \subseteq Snapshot
    /\ bpc \in [Client -> BackupPc]
    /\ started \in [Client -> Nat]
    /\ marksAtStart \in [Client -> [Tree -> Stamp]]
    /\ todo \in [Client -> SUBSET Tree] /\ seen \in [Client -> SUBSET Tree]
    /\ cur \in [Client -> SUBSET Tree]
    /\ checkedAt \in [Client -> Nat]
    /\ toHead \in [Client -> SUBSET (Tree \X Nat)]
    /\ toHeadTouch \in [Client -> SUBSET (Tree \X Nat)]
    /\ ppc \in PrunePc /\ pnow \in Int
    /\ live \subseteq Tree /\ minActive \subseteq Int
    /\ listed \in [Tree -> Stamp]
    /\ toDelete \subseteq Tree /\ marksToRemove \subseteq Tree
    /\ toMark \subseteq Tree /\ target \subseteq Tree /\ sweep \subseteq Tree

(***************************************************************************)
(* The relation between the graces and the clocks that the protocol needs: *)
(* a backup that passes the BackupTooLong check and then stalls for        *)
(* MaxStall is finished before a mark put after its start expires on       *)
(* prune's clock.                                                          *)
(***************************************************************************)
TimingSound == BackupGrace - Margin + MaxStall + PruneOffset <= PruneGrace

\* Whatever prune and the other clients do, every tree a committed snapshot
\* reaches is stored, until the snapshot is forgotten (format.md section 17:
\* once the snapshot appears, what it refers to is in the repository).
SnapshotsRestorable == \A s \in snaps : \A t \in s.trees : tree[t] # Absent

\* A tree that was not marked when the backup started is not deleted under
\* it: while the backup is younger than prune's grace, a mark put since its
\* start cannot have expired (format.md section 13.3, last sentence).
UnmarkedTreesKept ==
    \A c \in Client : \A t \in seen[c] :
        /\ marksAtStart[c][t] = Absent
        /\ now + PruneOffset < started[c] + PruneGrace
        => tree[t] # Absent

\* The touch that revives a tree marked at the start survives the group
\* deletion and the orphan sweep, unless the tree itself is gone or newer
\* than the mark: no prune can later take the reused tree for dead.
RevivalKept ==
    \A c \in Client : \A t \in seen[c] :
        /\ marksAtStart[c][t] # Absent
        /\ t \notin cur[c]
        => \/ tree[t] = Absent
           \/ tree[t] >= marksAtStart[c][t]
           \/ touch[t] >= marksAtStart[c][t]

\* The snapshots that can be read back in full.
Restorable == {s \in snaps : \A t \in s.trees : tree[t] # Absent}

Store == INSTANCE SnapshotStore
         WITH committed <- snaps, restorable <- Restorable

\* Backups and prune together implement a store in which a snapshot appears
\* whole and stays whole until it is forgotten.
StoreSpec == Store!Spec

\* A mark that has expired, on a tree nothing reaches, uses or has revived,
\* and that no active client holds back.
Garbage(t) ==
    /\ mark[t] # Absent /\ tree[t] # Absent
    /\ tree[t] < mark[t] /\ touch[t] < mark[t]
    /\ mark[t] + PruneGrace <= now + PruneOffset
    /\ t \notin Reachable
    /\ \A c \in Client : t \notin todo[c] \cup seen[c]
    /\ \A s \in snaps :
          \/ mark[t] < s.time - ClockSkew
          \/ s.time < now + PruneOffset - InactiveAfter
          \/ \E r \in snaps : r.client = s.client /\ r.time > s.time

\* A snapshot that cannot be read in full: a backup slipped through the window
\* between prune's HEAD and its DELETE of one of its trees.
Damaged == \E t \in Reachable : ~Readable(t)

\* Garbage is collected: no tree stays expired and unused for ever, and a
\* client that stopped backing up holds it back only until it counts as
\* inactive.  The one exception is a damaged snapshot nobody forgets: prune's
\* walk then refuses every time (PruneUnsafe), and nothing at all is collected.
GarbageCollected == \A t \in Tree : []<>~Garbage(t) \/ <>[]Damaged

\* A tree that is reachable again does not keep its mark for ever, even when
\* prune puts a mark it planned before the snapshot was committed: unless,
\* again, prune refuses for ever over a damaged snapshot, of whichever tree.
RevivedTreesUnmarked ==
    \A t \in Tree : []<>(mark[t] = Absent \/ t \notin Reachable) \/ <>[]Damaged

-----------------------------------------------------------------------------
(***************************************************************************)
(* The inductive invariant behind SnapshotsRestorable.                     *)
(***************************************************************************)

\* A tree at least as new as m, or touched since m.
Revived(t, m) == tree[t] >= m \/ touch[t] >= m

Deleting == {"delete", "headTouch", "deleteTree", "deleteReplica", "deleteTouch"}
Listing == {"trees", "marks"}

\* Prune may still delete t in this run.
Doomed(t) ==
    \/ t \in toDelete
    \/ ppc \in {"headTouch", "deleteTree"} /\ t \in target

\* No stamp lies in the future.
StampsPast ==
    /\ \A t \in Tree : tree[t] <= now /\ touch[t] <= now /\ mark[t] <= now
    /\ \A c \in Client : started[c] <= now /\ checkedAt[c] <= now
    /\ \A c \in Client : \A t \in Tree : marksAtStart[c][t] <= now
    /\ ppc \in {"walk"} \cup Listing => pnow <= now + PruneOffset

\* What the places of the two programs say about their local variables.
Shapes ==
    /\ \A c \in Client :
          /\ bpc[c] \in {"idle", "marks"} => seen[c] = {}
          /\ bpc[c] \in {"idle", "marks", "walk"} \cup InGate => cur[c] = {}
          /\ \A t, u \in cur[c] : t = u
          /\ bpc[c] = "replica" => \A t \in cur[c] : marksAtStart[c][t] = Absent
    /\ toDelete # {} => ppc \in Deleting
    /\ target # {} => ppc \in {"headTouch", "deleteTree", "deleteReplica",
                               "deleteTouch", "sweepDelete"}
    /\ \A t, u \in target : t = u

\* A mark the backup did not list at its start was put after its start.
MarkAge ==
    \A c \in Client : bpc[c] \notin {"idle", "marks"} =>
        \A t \in Tree : mark[t] \in {Absent, marksAtStart[c][t]} \/ mark[t] >= started[c]

DoomedExpired ==
    \A t \in Tree : Doomed(t) =>
        mark[t] # Absent /\ mark[t] + PruneGrace <= now + PruneOffset

\* A tree put back between prune's delete of it and of its touch is newer
\* than every mark anyone knows: it does not need the touch.
Regrown ==
    \A t \in target : ppc \in {"deleteReplica", "deleteTouch", "sweepDelete"} =>
        \/ tree[t] = Absent
        \/ /\ tree[t] >= mark[t]
           /\ \A c \in Client : tree[t] >= marksAtStart[c][t]

\* The last two bounds a backup meets before it commits.
Deadline ==
    \A c \in Client : bpc[c] \in InGate =>
        /\ checkedAt[c] - started[c] + Margin < BackupGrace
        /\ now <= checkedAt[c] + MaxStall

\* Prune will find out that t outlived the mark m.
Defended(t, m) ==
    /\ ~(ppc = "deleteTree" /\ t \in target)
    /\ ppc = "headTouch" /\ t \in target => touch[t] >= m

\* A tree the gate has passed is there and stays.
Verified ==
    \A c \in Client : bpc[c] = "verify" =>
        \A t \in seen[c] :
            LET m == marksAtStart[c][t] IN
            m # Absent /\ <<t, m>> \notin toHead[c] =>
                tree[t] # Absent /\ Revived(t, m) /\ Defended(t, m)

\* What protects a committed tree from the prune that is under way.
SnapshotsDefended ==
    \A s \in snaps : \A t \in s.trees :
        /\ ppc \in Listing => \/ t \in live
                              \/ mark[t] = Absent
                              \/ mark[t] + PruneGrace > pnow
                              \/ Revived(t, mark[t])
        /\ t \in toDelete => Revived(t, mark[t])
        /\ Defended(t, mark[t])

\* The inductive invariant: together these are preserved by every step.
IInv ==
    /\ TypeOK /\ StampsPast /\ Shapes /\ MarkAge /\ DoomedExpired /\ Regrown
    /\ UnmarkedTreesKept /\ RevivalKept /\ Deadline /\ Verified
    /\ SnapshotsRestorable /\ SnapshotsDefended
=============================================================================
