---------------------------- MODULE TreeGCProofs ----------------------------
(***************************************************************************)
(* Proofs about TreeGC: its types, and the invariant that keeps every      *)
(* committed snapshot's trees in the repository for any number of clients  *)
(* and trees, any graces and clock offsets that satisfy TimingSound.       *)
(***************************************************************************)
EXTENDS TreeGC, TLAPS

USE DEF Absent

\* write_tree goes on to one of four places.
LEMMA AfterPrimaryType ==
    ASSUME NEW c \in Client, NEW t \in Tree, NEW created \in BOOLEAN
    PROVE  /\ AfterPrimary(c, t, created)
                  \in {"replicaTouch", "replica", "touch", "walk"}
           /\ AfterPrimary(c, t, created) \in {"replica", "walk"}
                  <=> ~NeedsTouch(c, t, created)
  BY ConstantsAssumption DEF AfterPrimary

\* Going on to the next tree keeps the types.
LEMMA ProceedType ==
    ASSUME TypeOK, NEW c \in Client, NEW t \in Tree, NEW pc \in BackupPc,
           Proceed(c, t, pc)
    PROVE  bpc' \in [Client -> BackupPc] /\ cur' \in [Client -> SUBSET Tree]
<1>1. (IF pc = "walk" THEN {} ELSE {t}) \in SUBSET Tree
  OBVIOUS
<1> QED BY <1>1 DEF Proceed, TypeOK

\* Every step keeps the types.
LEMMA TypeStep == TypeOK /\ [Next]_vars => TypeOK'
<1> SUFFICES ASSUME TypeOK, [Next]_vars PROVE TypeOK'
  OBVIOUS
<1>0. now \in Stamp /\ Absent \in Stamp
  BY DEF TypeOK, Stamp
<1> USE <1>0, ConstantsAssumption DEF TypeOK, PrunePc
<1>1. CASE UNCHANGED vars
  BY <1>1 DEF vars, repoVars, backupVars, pruneVars
<1>2. CASE Tick
  BY <1>2 DEF Tick, repoVars, backupVars, pruneVars
<1>3. ASSUME NEW c \in Client, BackupNext(c) PROVE TypeOK'
  <2> USE DEF repoVars, pruneVars
  <2>0. BackupPc = {"idle", "marks", "walk", "exists", "heal", "replica",
                    "replicaTouch", "touch", "gate", "verify"}
    BY DEF BackupPc
  <2>1. ASSUME NEW content \in Contents, BackupStart(c, content) PROVE TypeOK'
    BY <2>1, <2>0 DEF BackupStart
  <2>2. CASE ListGcMarks(c)
    BY <2>2, <2>0 DEF ListGcMarks
  <2>3. ASSUME NEW t \in Tree, NEW pc \in BackupPc, Proceed(c, t, pc),
               tree' \in [Tree -> Stamp], touch' \in [Tree -> Stamp],
               replica' \subseteq Tree, todo' \in [Client -> SUBSET Tree],
               seen' \in [Client -> SUBSET Tree],
               UNCHANGED <<now, mark, snaps, pruneVars, started, marksAtStart,
                           checkedAt, toHead, toHeadTouch>>
        PROVE  TypeOK'
    BY <2>3, ProceedType
  <2>4. ASSUME NEW t \in Tree, WriteTree(c, t) PROVE TypeOK'
    <3>1. AfterPrimary(c, t, TRUE) \in BackupPc /\ "exists" \in BackupPc
      BY <2>0, AfterPrimaryType
    <3>2. tree' \in [Tree -> Stamp] /\ todo' \in [Client -> SUBSET Tree]
      BY <2>4 DEF WriteTree
    <3>3. seen' \in [Client -> SUBSET Tree]
      BY <2>4 DEF WriteTree
    <3> QED BY <2>3, <2>4, <3>1, <3>2, <3>3 DEF WriteTree
  <2>5. ASSUME NEW t \in Tree,
               \/ ReadExisting(c, t) \/ HealTree(c, t)
               \/ WriteReplica(c, t) \/ TouchTree(c, t)
        PROVE  TypeOK'
    <3>1. /\ AfterPrimary(c, t, FALSE) \in BackupPc
          /\ {"heal", "walk", "touch"} \subseteq BackupPc
      BY <2>0, AfterPrimaryType
    <3>2. CASE ReadExisting(c, t)
      BY <2>3, <3>1, <3>2 DEF ReadExisting
    <3>3. CASE HealTree(c, t)
      BY <2>3, <3>1, <3>3 DEF HealTree
    <3>4. CASE WriteReplica(c, t)
      BY <2>3, <3>1, <3>4 DEF WriteReplica
    <3>5. CASE TouchTree(c, t)
      BY <2>3, <3>1, <3>5 DEF TouchTree
    <3> QED BY <2>5, <3>2, <3>3, <3>4, <3>5
  <2>6. CASE CommitAt(c)
    BY <2>6, <2>0 DEF CommitAt
  <2>7. CASE VerifyTouchedTrees(c)
    <3>1. Obligations(c) \in SUBSET (Tree \X Nat)
      BY DEF Obligations, Stamp
    <3> QED BY <2>0, <2>7, <3>1 DEF VerifyTouchedTrees
  <2>8. ASSUME NEW o \in toHead[c] \cup toHeadTouch[c],
               HeadTree(c, o) \/ HeadTouch(c, o)
        PROVE  TypeOK'
    <3>1. CASE HeadTree(c, o)
      BY <3>1 DEF HeadTree
    <3>2. CASE HeadTouch(c, o)
      BY <3>2 DEF HeadTouch
    <3> QED BY <2>8, <3>1, <3>2
  <2>9. ASSUME Idle(c), UNCHANGED <<now, tree, replica, touch, mark, pruneVars>>,
               snaps' \subseteq Snapshot
        PROVE  TypeOK'
    BY <2>0, <2>9 DEF Idle, NoObject
  <2>10. CASE CommitSnapshot(c)
    <3>1. snaps' \subseteq Snapshot
      BY <2>10 DEF CommitSnapshot, Snapshot
    <3> QED BY <2>9, <2>10, <3>1 DEF CommitSnapshot
  <2>11. ASSUME \/ BackupTooLong(c) \/ BackupFails(c)
                \/ \E o \in toHead[c] \cup toHeadTouch[c] : TreeMarked(c, o)
         PROVE  TypeOK'
    BY <2>9, <2>11 DEF BackupTooLong, BackupFails, TreeMarked
  <2> QED
    BY <1>3, <2>1, <2>2, <2>3, <2>4, <2>5, <2>6, <2>7, <2>8, <2>10, <2>11
       DEF BackupNext
<1>4. ASSUME NEW s \in snaps, Forget(s) PROVE TypeOK'
  BY <1>4 DEF Forget, backupVars, pruneVars
<1>5. CASE PruneNext
  <2> USE DEF repoVars, backupVars
  <2>1. CASE PruneStart
    BY <2>1 DEF PruneStart
  <2>2. CASE WalkReferences
    BY <2>2 DEF WalkReferences, Reachable, Snapshot, MinActiveLatest, ActiveLatest
  <2>3. CASE ListTrees \/ DeletionsDone \/ UnmarkDone \/ ListTouches
    BY <2>3 DEF ListTrees, DeletionsDone, UnmarkDone, ListTouches
  <2>4. CASE PlanPrune
    BY <2>4 DEF PlanPrune, NoObject
  <2>5. CASE PruneUnsafe \/ DryRun \/ PruneDone \/ PruneFails
    BY <2>5 DEF PruneUnsafe, DryRun, PruneDone, PruneFails, PruneIdle, NoObject
  <2>6. ASSUME NEW t \in Tree,
               HeadTarget(t) \/ HeadTargetTouch(t) \/ DeleteTree(t) \/ DeleteFails(t)
        PROVE  TypeOK'
    <3>1. CASE HeadTarget(t)
      BY <3>1 DEF HeadTarget
    <3>2. CASE HeadTargetTouch(t)
      BY <3>2 DEF HeadTargetTouch
    <3>3. CASE DeleteTree(t)
      BY <3>3 DEF DeleteTree
    <3>4. CASE DeleteFails(t)
      BY <3>4 DEF DeleteFails
    <3> QED BY <2>6, <3>1, <3>2, <3>3, <3>4
  <2>7. ASSUME NEW t \in Tree, DeleteReplica(t) \/ DeleteTouch(t)
        PROVE  TypeOK'
    <3>1. CASE DeleteReplica(t)
      BY <3>1 DEF DeleteReplica
    <3>2. CASE DeleteTouch(t)
      BY <3>2 DEF DeleteTouch
    <3> QED BY <2>7, <3>1, <3>2
  <2>8. ASSUME NEW t \in Tree, RemoveMark(t) \/ PutMark(t) PROVE TypeOK'
    <3>1. CASE RemoveMark(t)
      BY <3>1 DEF RemoveMark
    <3>2. CASE PutMark(t)
      BY <3>2 DEF PutMark
    <3> QED BY <2>8, <3>1, <3>2
  <2>9. ASSUME NEW t \in Tree, SweepTouch(t) \/ DeleteOrphanTouch(t) PROVE TypeOK'
    <3>1. CASE SweepTouch(t)
      BY <3>1 DEF SweepTouch
    <3>2. CASE DeleteOrphanTouch(t)
      BY <3>2 DEF DeleteOrphanTouch
    <3> QED BY <2>9, <3>1, <3>2
  <2> QED
    BY <1>5, <2>1, <2>2, <2>3, <2>4, <2>5, <2>6, <2>7, <2>8, <2>9 DEF PruneNext
<1> QED
  BY <1>1, <1>2, <1>3, <1>4, <1>5 DEF Next

\* The first state has the types.
LEMMA TypeInit == Init => TypeOK
  BY ConstantsAssumption DEF Init, TypeOK, BackupPc, PrunePc, Stamp, NoObject

\* The types of TreeGC hold in every reachable state: no request to the
\* repository and no step of backup or prune leaves them.
THEOREM TypeCorrect == Spec => []TypeOK
<1>1. Init => TypeOK
  BY TypeInit
<1>2. TypeOK /\ [Next]_vars => TypeOK'
  BY TypeStep
<1> QED BY <1>1, <1>2, PTL DEF Spec

-----------------------------------------------------------------------------
(***************************************************************************)
(* What one step of prune may do to the trees, the touches, the marks and  *)
(* to its own plan.  The invariants below are proved from these effects.   *)
(***************************************************************************)
TargetPc == {"headTouch", "deleteTree", "deleteReplica", "deleteTouch", "sweepDelete"}

\* Only the tree prune is busy with goes.
TreesKept ==
    \A t \in Tree : \/ tree'[t] = tree[t]
                    \/ /\ ppc = "deleteTree" /\ ppc' = "deleteReplica"
                       /\ t \in target /\ tree'[t] = Absent

\* A touch goes after its tree, and prune is done with that tree.
TouchesKept ==
    \A t \in Tree : \/ touch'[t] = touch[t]
                    \/ /\ ppc \in {"deleteTouch", "sweepDelete"}
                       /\ t \in target /\ touch'[t] = Absent
                       /\ target' = {} /\ toDelete' = toDelete
                       /\ tree' = tree /\ mark' = mark

\* Marks change in two phases, none of which deletes trees.
MarksKept ==
    \A t \in Tree : \/ mark'[t] = mark[t]
                    \/ mark'[t] = Absent /\ ppc = "unmark" /\ ppc' = "unmark"
                    \/ mark'[t] = now /\ ppc = "mark" /\ ppc' = "mark"

PlanKept ==
    \A t \in toDelete' :
        /\ ppc' \in Deleting /\ mark' = mark
        /\ \/ t \in toDelete
           \/ /\ ppc = "marks" /\ Deletable(t)
              /\ tree' = tree /\ touch' = touch

\* How prune comes to be busy with a tree.
TargetMoves ==
    \A t \in target' :
        /\ ppc' \in TargetPc /\ mark' = mark /\ touch' = touch
        /\ \/ /\ t \in target /\ ppc = "headTouch" /\ ppc' = "deleteTree"
              /\ touch[t] = Absent \/ touch[t] < mark[t]
              /\ tree' = tree
           \/ /\ t \in target /\ ppc = "deleteTree" /\ ppc' = "deleteReplica"
              /\ tree'[t] = Absent
           \/ /\ t \in target /\ ppc = "deleteReplica" /\ ppc' = "deleteTouch"
              /\ tree' = tree
           \/ /\ t \in toDelete /\ ppc = "delete" /\ ppc' = "headTouch"
              /\ tree[t] < mark[t] /\ tree' = tree
           \/ ppc = "sweep" /\ ppc' = "sweepDelete" /\ tree'[t] = Absent

\* The planning steps read.
ListingReads ==
    ppc' \in {"walk"} \cup Listing =>
        /\ tree' = tree /\ touch' = touch /\ mark' = mark
        /\ \/ ppc = "idle" /\ ppc' = "walk" /\ pnow' = now + PruneOffset
           \/ ppc = "walk" /\ ppc' = "trees" /\ live' = Reachable /\ pnow' = pnow
           \/ ppc \in Listing /\ live' = live /\ pnow' = pnow

PruneEffect ==
    /\ UNCHANGED <<now, snaps, backupVars>>
    /\ TreesKept /\ TouchesKept /\ MarksKept /\ PlanKept /\ TargetMoves
    /\ ListingReads
    /\ \A t, u \in target' : t = u

\* What a step of prune does to the rest of the state.
LEMMA PruneEffects ==
    ASSUME TypeOK, Shapes, PruneNext
    PROVE  PruneEffect
<1> USE ConstantsAssumption
    DEF TypeOK, Stamp, TargetPc, Deleting, Listing, PruneEffect, TreesKept,
        TouchesKept, MarksKept, PlanKept, TargetMoves, ListingReads, repoVars,
        backupVars
<1>0. /\ toDelete # {} => ppc \in Deleting
      /\ target # {} => ppc \in TargetPc
      /\ \A t, u \in target : t = u
  BY DEF Shapes
<1> USE <1>0
<1>1. CASE PruneStart
  BY <1>1 DEF PruneStart
<1>2. CASE WalkReferences
  BY <1>2 DEF WalkReferences
<1>3. CASE PruneUnsafe
  BY <1>3 DEF PruneUnsafe, PruneIdle
<1>4. CASE ListTrees
  BY <1>4 DEF ListTrees
<1>5. CASE PlanPrune
  BY <1>5 DEF PlanPrune
<1>6. CASE DryRun
  BY <1>6 DEF DryRun, PruneIdle
<1>7. CASE DeletionsDone
  BY <1>7 DEF DeletionsDone
<1>8. CASE UnmarkDone
  BY <1>8 DEF UnmarkDone
<1>9. CASE ListTouches
  BY <1>9 DEF ListTouches
<1>10. CASE PruneDone
  BY <1>10 DEF PruneDone, PruneIdle
<1>11. CASE PruneFails
  BY <1>11 DEF PruneFails, PruneIdle
<1>12. ASSUME NEW t \in Tree, HeadTarget(t) PROVE PruneEffect
  BY <1>12 DEF HeadTarget
<1>13. ASSUME NEW t \in Tree, HeadTargetTouch(t) PROVE PruneEffect
  BY <1>13 DEF HeadTargetTouch
<1>14. ASSUME NEW t \in Tree, DeleteTree(t) PROVE PruneEffect
  BY <1>14 DEF DeleteTree
<1>15. ASSUME NEW t \in Tree, DeleteFails(t) PROVE PruneEffect
  BY <1>15 DEF DeleteFails
<1>16. ASSUME NEW t \in Tree, DeleteReplica(t) PROVE PruneEffect
  BY <1>16 DEF DeleteReplica
<1>17. ASSUME NEW t \in Tree, DeleteTouch(t) PROVE PruneEffect
  BY <1>17 DEF DeleteTouch
<1>18. ASSUME NEW t \in Tree, RemoveMark(t) PROVE PruneEffect
  BY <1>18 DEF RemoveMark
<1>19. ASSUME NEW t \in Tree, PutMark(t) PROVE PruneEffect
  BY <1>19 DEF PutMark
<1>20. ASSUME NEW t \in Tree, SweepTouch(t) PROVE PruneEffect
  BY <1>20 DEF SweepTouch
<1>21. ASSUME NEW t \in Tree, DeleteOrphanTouch(t) PROVE PruneEffect
  BY <1>21 DEF DeleteOrphanTouch
<1> QED
  BY <1>1, <1>2, <1>3, <1>4, <1>5, <1>6, <1>7, <1>8, <1>9, <1>10, <1>11, <1>12, <1>13, <1>14, <1>15, <1>16, <1>17, <1>18, <1>19, <1>20, <1>21 DEF PruneNext

-----------------------------------------------------------------------------
(***************************************************************************)
(* What one step of client c's backup may do.                              *)
(***************************************************************************)
WritePc == {"walk", "exists", "heal", "replica", "replicaTouch", "touch"}

KeepMarks(c) == started'[c] = started[c] /\ marksAtStart'[c] = marksAtStart[c]
KeepWalk(c) == seen'[c] = seen[c] /\ cur'[c] = cur[c]
KeepClient(c) ==
    /\ KeepMarks(c) /\ KeepWalk(c)
    /\ bpc'[c] = bpc[c] /\ checkedAt'[c] = checkedAt[c] /\ toHead'[c] = toHead[c]

\* Trees and touches are only written, with the current time.
ObjectsWritten ==
    \A t \in Tree : tree'[t] \in {tree[t], now} /\ touch'[t] \in {touch[t], now}

Ends(c) ==
    /\ bpc'[c] = "idle" /\ seen'[c] = {} /\ cur'[c] = {}
    /\ started'[c] = 0 /\ checkedAt'[c] = 0 /\ marksAtStart'[c] = NoObject
    /\ UNCHANGED <<tree, touch>>
Begins(c) ==
    /\ bpc[c] = "idle" /\ bpc'[c] = "marks" /\ started'[c] = now
    /\ marksAtStart'[c] = marksAtStart[c] /\ KeepWalk(c)
    /\ checkedAt'[c] = checkedAt[c]
    /\ UNCHANGED <<tree, touch>>
ListsMarks(c) ==
    /\ bpc[c] = "marks" /\ bpc'[c] = "walk"
    /\ started'[c] = started[c] /\ marksAtStart'[c] = mark /\ KeepWalk(c)
    /\ checkedAt'[c] = checkedAt[c]
    /\ UNCHANGED <<tree, touch>>
\* A walked tree is there when it is first seen, and it is touched before the
\* walk leaves it if it was marked.
Walks(c) ==
    /\ bpc[c] \in WritePc /\ bpc'[c] \in WritePc
    /\ KeepMarks(c) /\ checkedAt'[c] = checkedAt[c]
    /\ \A t \in seen'[c] : t \in seen[c] \/ tree'[t] # Absent
    /\ \A t \in seen'[c] : \/ t \in cur'[c]
                           \/ t \in seen[c] /\ t \notin cur[c]
                           \/ marksAtStart[c][t] = Absent
                           \/ touch'[t] = now
    /\ bpc'[c] = "walk" => cur'[c] = {}
    /\ bpc'[c] = "replica" => \A t \in cur'[c] : marksAtStart[c][t] = Absent
    /\ \A t, u \in cur'[c] : t = u
Checks(c) ==
    /\ bpc[c] = "walk" /\ bpc'[c] = "gate" /\ ~TooLong(c) /\ checkedAt'[c] = now
    /\ KeepMarks(c) /\ KeepWalk(c)
    /\ UNCHANGED <<tree, touch>>
Verifies(c) ==
    /\ bpc[c] = "gate" /\ bpc'[c] = "verify" /\ toHead'[c] = Obligations(c)
    /\ KeepMarks(c) /\ KeepWalk(c) /\ checkedAt'[c] = checkedAt[c]
    /\ UNCHANGED <<tree, touch>>
Heads(c) ==
    /\ bpc[c] = "verify" /\ bpc'[c] = "verify"
    /\ KeepMarks(c) /\ KeepWalk(c) /\ checkedAt'[c] = checkedAt[c]
    /\ \A o \in toHead[c] : o \in toHead'[c] \/ (GateOpen(o[1]) /\ tree[o[1]] # Absent)
    /\ UNCHANGED <<tree, touch>>

ClientMove(c) ==
    \/ Ends(c) \/ Begins(c) \/ ListsMarks(c) \/ Walks(c) \/ Checks(c)
    \/ Verifies(c) \/ Heads(c)

BackupEffect(c) ==
    /\ UNCHANGED <<now, mark, pruneVars>>
    /\ ObjectsWritten
    /\ \A d \in Client \ {c} : KeepClient(d)
    /\ ClientMove(c)
    /\ \A s \in snaps' : \/ s \in snaps
                         \/ /\ bpc[c] = "verify" /\ toHead[c] = {}
                            /\ s.trees = seen[c] /\ Ends(c)

\* Going on to the next tree moves one client only.
LEMMA ProceedEffect ==
    ASSUME TypeOK, NEW c \in Client, NEW t \in Tree, NEW pc, Proceed(c, t, pc)
    PROVE  /\ bpc'[c] = pc /\ cur'[c] = (IF pc = "walk" THEN {} ELSE {t})
           /\ \A d \in Client \ {c} : bpc'[d] = bpc[d] /\ cur'[d] = cur[d]
  BY DEF Proceed, TypeOK

\* What a step of a backup does to the rest of the state.
LEMMA BackupEffects ==
    ASSUME TypeOK, Shapes, NEW c \in Client, BackupNext(c)
    PROVE  BackupEffect(c)
<1> USE DEF TypeOK, BackupEffect, ObjectsWritten, KeepClient, KeepMarks,
            KeepWalk, repoVars
<1>1. ASSUME NEW content \in Contents, BackupStart(c, content) PROVE BackupEffect(c)
  BY <1>1 DEF BackupStart, ClientMove, Begins
<1>2. CASE ListGcMarks(c)
  BY <1>2 DEF ListGcMarks, ClientMove, ListsMarks
<1>3. ASSUME NEW t \in Tree,
             \/ WriteTree(c, t) \/ ReadExisting(c, t) \/ HealTree(c, t)
             \/ WriteReplica(c, t) \/ TouchTree(c, t)
      PROVE  BackupEffect(c)
  <2>1. /\ UNCHANGED <<now, mark, pruneVars, snaps>> /\ ObjectsWritten
        /\ \A d \in Client \ {c} : KeepClient(d)
    BY <1>3 DEF WriteTree, ReadExisting, HealTree, WriteReplica, TouchTree, Proceed
  <2>2. Walks(c)
    <3>0. /\ AfterPrimary(c, t, TRUE) \in WritePc
          /\ AfterPrimary(c, t, TRUE) \in {"walk", "replica"} => marksAtStart[c][t] = Absent
          /\ AfterPrimary(c, t, FALSE) \in WritePc \ {"walk", "replica"}
      BY AfterPrimaryType DEF WritePc, NeedsTouch
    <3>1. CASE WriteTree(c, t)
      <4>1. PICK pc \in WritePc :
                /\ Proceed(c, t, pc)
                /\ pc \in {"walk", "replica"} => marksAtStart[c][t] = Absent
        BY <3>0, <3>1 DEF WriteTree, WritePc
      <4>2. seen'[c] = seen[c] \cup {t} /\ tree'[t] # Absent
        <5>1. seen'[c] = seen[c] \cup {t}
          BY <3>1 DEF WriteTree
        <5>2. tree'[t] = now \/ (tree[t] # Absent /\ tree' = tree)
          BY <3>1 DEF WriteTree
        <5> QED BY <5>1, <5>2
      <4>4. cur[c] = {}
        BY <3>1 DEF WriteTree, Shapes
      <4>3. bpc[c] \in WritePc /\ KeepMarks(c) /\ checkedAt'[c] = checkedAt[c]
        BY <3>1 DEF WriteTree, WritePc
      <4>5. bpc'[c] = pc /\ cur'[c] = (IF pc = "walk" THEN {} ELSE {t})
        BY <4>1, ProceedEffect
      <4> QED BY <4>1, <4>2, <4>3, <4>4, <4>5 DEF Walks
    <3>2. CASE ReadExisting(c, t) \/ HealTree(c, t)
      <4>1. PICK pc \in WritePc \ {"walk", "replica"} : Proceed(c, t, pc)
        BY <3>0, <3>2 DEF ReadExisting, HealTree, WritePc
      <4>2. seen'[c] = seen[c] /\ t \in cur[c]
        BY <3>2 DEF ReadExisting, HealTree
      <4>4. \A u \in cur[c] : u = t
        BY <4>2 DEF Shapes
      <4>3. bpc[c] \in WritePc /\ KeepMarks(c) /\ checkedAt'[c] = checkedAt[c]
        BY <3>2 DEF ReadExisting, HealTree, WritePc
      <4>5. bpc'[c] = pc /\ cur'[c] = {t}
        BY <4>1, ProceedEffect
      <4> QED BY <4>1, <4>2, <4>3, <4>4, <4>5 DEF Walks
    <3>4. CASE WriteReplica(c, t)
      BY <3>4 DEF WriteReplica, Proceed, Walks, WritePc, Shapes
    <3>5. CASE TouchTree(c, t)
      BY <3>5 DEF TouchTree, Proceed, Walks, WritePc, Shapes
    <3> QED BY <1>3, <3>1, <3>2, <3>4, <3>5
  <2> QED BY <2>1, <2>2 DEF ClientMove
<1>4. CASE CommitAt(c)
  BY <1>4 DEF CommitAt, ClientMove, Checks
<1>5. CASE VerifyTouchedTrees(c)
  BY <1>5 DEF VerifyTouchedTrees, ClientMove, Verifies
<1>6. ASSUME NEW o \in toHead[c] \cup toHeadTouch[c], HeadTree(c, o) \/ HeadTouch(c, o)
      PROVE  BackupEffect(c)
  <2>1. /\ UNCHANGED <<now, mark, snaps, tree, touch, pruneVars>>
        /\ \A d \in Client \ {c} : KeepClient(d)
        /\ bpc[c] = "verify" /\ bpc' = bpc
        /\ KeepMarks(c) /\ KeepWalk(c) /\ checkedAt' = checkedAt
    BY <1>6 DEF HeadTree, HeadTouch
  <2>2. ASSUME NEW q \in toHead[c], q \notin toHead'[c]
        PROVE  GateOpen(q[1]) /\ tree[q[1]] # Absent
    <3>1. HeadTree(c, o) /\ q = o
      BY <1>6, <2>2 DEF HeadTree, HeadTouch
    <3> QED BY <3>1 DEF HeadTree
  <2>3. Heads(c)
    BY <2>1, <2>2 DEF Heads
  <2> QED BY <2>1, <2>3 DEF ClientMove
<1>7. ASSUME Idle(c), UNCHANGED <<now, tree, replica, touch, mark, pruneVars>>
      PROVE  /\ Ends(c) /\ ObjectsWritten
             /\ \A d \in Client \ {c} : KeepClient(d)
  BY <1>7 DEF Idle, Ends
<1>8. CASE CommitSnapshot(c)
  BY <1>7, <1>8 DEF CommitSnapshot, ClientMove
<1>9. ASSUME \/ BackupTooLong(c) \/ BackupFails(c)
             \/ \E o \in toHead[c] \cup toHeadTouch[c] : TreeMarked(c, o)
      PROVE  BackupEffect(c)
  BY <1>7, <1>9 DEF BackupTooLong, BackupFails, TreeMarked, ClientMove
<1> QED
  BY <1>1, <1>2, <1>3, <1>4, <1>5, <1>6, <1>8, <1>9 DEF BackupNext

-----------------------------------------------------------------------------
(***************************************************************************)
(* The timing argument.  A backup in its gate is younger than prune's      *)
(* grace, so what prune may still delete was marked before it started.     *)
(***************************************************************************)
LEMMA GateInTime ==
    ASSUME IInv, TimingSound, NEW c \in Client, bpc[c] \in InGate
    PROVE  now + PruneOffset < started[c] + PruneGrace
<1>1. Margin \in Int
  BY ConstantsAssumption DEF Margin
<1>2. /\ checkedAt[c] \in Nat /\ started[c] \in Nat /\ now \in Nat
      /\ checkedAt[c] - started[c] + Margin < BackupGrace
      /\ now <= checkedAt[c] + MaxStall
  BY DEF IInv, Deadline, TypeOK
<1> QED BY <1>1, <1>2, ConstantsAssumption DEF TimingSound

\* A tree that prune is deleting was marked before a backup at the gate began.
LEMMA DoomedWasMarked ==
    ASSUME IInv, TimingSound, NEW c \in Client, bpc[c] \in InGate,
           NEW t \in Tree, Doomed(t)
    PROVE  mark[t] = marksAtStart[c][t] /\ mark[t] # Absent
<1>1. mark[t] # Absent /\ mark[t] + PruneGrace <= now + PruneOffset
  BY DEF IInv, DoomedExpired
<1>2. mark[t] = marksAtStart[c][t] \/ mark[t] >= started[c]
  BY <1>1 DEF IInv, MarkAge, InGate
<1>3. now + PruneOffset < started[c] + PruneGrace
  BY GateInTime
<1>4. mark[t] \in Int /\ started[c] \in Int /\ now \in Int
  BY DEF IInv, TypeOK, Stamp
<1> QED BY <1>1, <1>2, <1>3, <1>4, ConstantsAssumption

\* A step of prune preserves the invariant.
LEMMA PruneStep ==
    ASSUME IInv, TimingSound, PruneNext
    PROVE  IInv'
<1> USE ConstantsAssumption
<1>1. PruneEffect
  BY PruneEffects DEF IInv
<1>2. TypeOK /\ TypeOK'
  BY TypeStep DEF IInv, Next
<1>3. /\ now' = now /\ snaps' = snaps /\ bpc' = bpc /\ started' = started
      /\ marksAtStart' = marksAtStart /\ seen' = seen /\ cur' = cur
      /\ checkedAt' = checkedAt /\ toHead' = toHead
  BY <1>1 DEF PruneEffect, backupVars
<1>4. StampsPast'
  <2>1. ASSUME NEW t \in Tree
        PROVE  tree'[t] <= now /\ touch'[t] <= now /\ mark'[t] <= now
    <3>1. now \in Nat /\ tree[t] <= now /\ touch[t] <= now /\ mark[t] <= now
      BY <1>2 DEF IInv, StampsPast, TypeOK
    <3>2. /\ tree'[t] \in {tree[t], Absent}
          /\ touch'[t] \in {touch[t], Absent}
          /\ mark'[t] \in {mark[t], Absent, now}
      BY <1>1 DEF PruneEffect, TreesKept, TouchesKept, MarksKept
    <3> QED BY <3>1, <3>2
  <2>2. ppc' \in {"walk"} \cup Listing => pnow' <= now + PruneOffset
    BY <1>1, <1>2 DEF IInv, StampsPast, PruneEffect, ListingReads, TypeOK
  <2> QED BY <1>3, <2>1, <2>2 DEF IInv, StampsPast
<1>5. Shapes'
  BY <1>1, <1>2, <1>3
     DEF IInv, Shapes, PruneEffect, PlanKept, TargetMoves, TargetPc
<1>6. MarkAge'
  BY <1>1, <1>2, <1>3
     DEF IInv, StampsPast, MarkAge, PruneEffect, MarksKept, TypeOK
<1>7. DoomedExpired'
  <2> SUFFICES ASSUME NEW t \in Tree, Doomed(t)'
               PROVE  (mark[t] # Absent /\ mark[t] + PruneGrace <= now + PruneOffset)'
    BY DEF DoomedExpired
  <2>1. CASE t \in toDelete'
    BY <1>1, <1>2, <1>3, <2>1
       DEF IInv, DoomedExpired, Doomed, StampsPast, PruneEffect, PlanKept,
           Deletable, Listing, TypeOK, Stamp
  <2>2. CASE ppc' \in {"headTouch", "deleteTree"} /\ t \in target'
    BY <1>1, <1>2, <1>3, <2>2
       DEF IInv, DoomedExpired, Doomed, PruneEffect, TargetMoves
  <2> QED BY <2>1, <2>2 DEF Doomed
<1>8. Regrown'
  BY <1>1, <1>2, <1>3
     DEF IInv, Regrown, PruneEffect, TargetMoves
<1>9. UnmarkedTreesKept'
  <2> SUFFICES ASSUME NEW c \in Client, NEW t \in seen[c],
                      marksAtStart[c][t] = Absent,
                      now + PruneOffset < started[c] + PruneGrace
               PROVE  tree'[t] # Absent
    BY <1>3 DEF UnmarkedTreesKept
  <2>1. t \in Tree /\ tree[t] # Absent /\ bpc[c] \notin {"idle", "marks"}
    BY <1>2 DEF IInv, UnmarkedTreesKept, Shapes, TypeOK
  <2>2. mark[t] = Absent \/ mark[t] >= started[c]
    BY <2>1 DEF IInv, MarkAge
  <2>3. ~Doomed(t)
    BY <1>2, <2>1, <2>2 DEF IInv, DoomedExpired, TypeOK, Stamp
  <2> QED BY <1>1, <2>1, <2>3 DEF Doomed, PruneEffect, TreesKept
<1>10. RevivalKept'
  BY <1>1, <1>2, <1>3
     DEF IInv, RevivalKept, Regrown, PruneEffect, TreesKept, TouchesKept,
         TypeOK, Stamp
<1>11. Deadline'
  BY <1>3 DEF IInv, Deadline
<1>12. Verified'
  <2> SUFFICES ASSUME NEW c \in Client, bpc[c] = "verify", NEW t \in seen[c],
                      marksAtStart[c][t] # Absent,
                      <<t, marksAtStart[c][t]>> \notin toHead[c]
               PROVE  (/\ tree[t] # Absent /\ Revived(t, marksAtStart[c][t])
                       /\ Defended(t, marksAtStart[c][t]))'
    BY <1>3 DEF Verified
  <2>1. t \in Tree /\ marksAtStart[c][t] \in Nat
    BY <1>2 DEF TypeOK, Stamp
  <2>2. /\ tree[t] # Absent /\ Revived(t, marksAtStart[c][t])
        /\ Defended(t, marksAtStart[c][t])
    BY DEF IInv, Verified
  <2>3. Doomed(t) => mark[t] = marksAtStart[c][t]
    BY <2>1, DoomedWasMarked DEF InGate
  <2>4. tree'[t] = tree[t]
    BY <1>1, <2>1, <2>2 DEF PruneEffect, TreesKept, Defended
  <2>5. Revived(t, marksAtStart[c][t])'
    BY <1>1, <1>2, <1>3, <2>1, <2>2, <2>4
       DEF IInv, Regrown, Revived, PruneEffect, TouchesKept, TypeOK, Stamp
  <2>6. Defended(t, marksAtStart[c][t])'
    <3>1. mark[t] \in Int /\ touch[t] \in Int /\ tree[t] \in Int
      BY <1>2, <2>1 DEF TypeOK, Stamp
    <3>2. CASE t \notin target'
      BY <3>2 DEF Defended
    <3>3. CASE t \in target' /\ ppc' = "deleteTree"
      BY <1>1, <2>1, <2>2, <2>3, <3>1, <3>3
         DEF Doomed, Defended, PruneEffect, TargetMoves
    <3>4. CASE t \in target' /\ ppc' = "headTouch"
      <4>1. t \in toDelete /\ tree[t] < mark[t] /\ touch' = touch
        BY <1>1, <3>4 DEF PruneEffect, TargetMoves
      <4>2. touch[t] >= marksAtStart[c][t]
        BY <2>1, <2>2, <2>3, <3>1, <4>1 DEF Doomed, Revived
      <4> QED BY <1>3, <3>4, <4>1, <4>2 DEF Defended
    <3> QED BY <3>2, <3>3, <3>4 DEF Defended
  <2> QED BY <2>2, <2>4, <2>5, <2>6
<1>13. SnapshotsRestorable'
  BY <1>1, <1>2, <1>3
     DEF IInv, SnapshotsRestorable, SnapshotsDefended, Defended, PruneEffect,
         TreesKept, TypeOK, Snapshot
<1>14. SnapshotsDefended'
  <2> SUFFICES ASSUME NEW s \in snaps, NEW t \in s.trees
               PROVE  /\ (ppc \in Listing => \/ t \in live
                                             \/ mark[t] = Absent
                                             \/ mark[t] + PruneGrace > pnow
                                             \/ Revived(t, mark[t]))'
                      /\ (t \in toDelete => Revived(t, mark[t]))'
                      /\ Defended(t, mark[t])'
    BY <1>3 DEF SnapshotsDefended
  <2>1. t \in Tree /\ t \in Reachable
    BY <1>2 DEF TypeOK, Snapshot, Reachable
  <2>2. /\ tree[t] # Absent /\ tree'[t] = tree[t]
        /\ ppc \in Listing => \/ t \in live
                              \/ mark[t] = Absent
                              \/ mark[t] + PruneGrace > pnow
                              \/ Revived(t, mark[t])
        /\ t \in toDelete => Revived(t, mark[t])
        /\ Defended(t, mark[t])
    BY <1>1, <1>2, <1>3, <1>13, <2>1
       DEF IInv, SnapshotsRestorable, SnapshotsDefended, PruneEffect, TreesKept
  <2>3. (ppc \in Listing => \/ t \in live
                            \/ mark[t] = Absent
                            \/ mark[t] + PruneGrace > pnow
                            \/ Revived(t, mark[t]))'
    BY <1>1, <2>1, <2>2
       DEF PruneEffect, ListingReads, Revived, Listing
  <2>4. (t \in toDelete => Revived(t, mark[t]))'
    <3> SUFFICES ASSUME t \in toDelete' PROVE Revived(t, mark[t])'
      OBVIOUS
    <3>1. Revived(t, mark[t]) /\ mark' = mark
      BY <1>1, <1>2, <2>1, <2>2
         DEF PruneEffect, PlanKept, Deletable, Listing, TypeOK, Stamp
    <3>2. touch'[t] = touch[t] \/ tree[t] >= mark[t]
      BY <1>1, <2>1, <2>2 DEF IInv, Regrown, PruneEffect, TouchesKept
    <3> QED BY <2>2, <3>1, <3>2 DEF Revived
  <2>5. Defended(t, mark[t])'
    <3>1. t \in target /\ ppc = "headTouch" => mark[t] # Absent
      BY <2>1 DEF IInv, DoomedExpired, Doomed
    <3>2. mark[t] \in Nat \cup {-1} /\ touch[t] \in Int /\ tree[t] \in Int
      BY <1>2, <2>1 DEF TypeOK, Stamp
    <3>3. CASE t \notin target'
      BY <3>3 DEF Defended
    <3>4. CASE t \in target'
      <4>1. mark' = mark /\ touch' = touch
        BY <1>1, <3>4 DEF PruneEffect, TargetMoves
      <4>2. CASE ppc' = "deleteTree"
        BY <1>1, <2>2, <3>1, <3>2, <3>4, <4>2 DEF Defended, PruneEffect, TargetMoves
      <4>3. CASE ppc' = "headTouch"
        BY <1>1, <2>2, <3>2, <3>4, <4>1, <4>3
           DEF Defended, Revived, PruneEffect, TargetMoves
      <4> QED BY <4>2, <4>3 DEF Defended
    <3> QED BY <3>3, <3>4
  <2> QED BY <2>3, <2>4, <2>5
<1> QED
  BY <1>2, <1>4, <1>5, <1>6, <1>7, <1>8, <1>9, <1>10, <1>11, <1>12, <1>13, <1>14
     DEF IInv

\* A step of a backup preserves the invariant.
LEMMA BackupStep ==
    ASSUME IInv, TimingSound, WindowClosed, NEW c \in Client, BackupNext(c)
    PROVE  IInv'
<1> USE ConstantsAssumption
<1>1. BackupEffect(c)
  BY BackupEffects DEF IInv
<1>2. TypeOK /\ TypeOK'
  BY TypeStep DEF IInv, Next
<1>3. /\ now' = now /\ mark' = mark /\ ppc' = ppc /\ pnow' = pnow /\ live' = live
      /\ toDelete' = toDelete /\ target' = target
      /\ now \in Nat
  BY <1>1, <1>2 DEF BackupEffect, pruneVars, TypeOK
\* Objects only get newer.
<1>4. ASSUME NEW t \in Tree
      PROVE  /\ tree[t] <= tree'[t] /\ touch[t] <= touch'[t]
             /\ tree'[t] <= now /\ touch'[t] <= now
             /\ tree'[t] = tree[t] \/ tree'[t] = now
             /\ tree[t] \in Stamp /\ touch[t] \in Stamp /\ mark[t] \in Stamp
             /\ mark[t] <= now
  <2>1. tree'[t] \in {tree[t], now} /\ touch'[t] \in {touch[t], now}
    BY <1>1 DEF BackupEffect, ObjectsWritten
  <2>2. tree[t] <= now /\ touch[t] <= now /\ mark[t] <= now
    BY DEF IInv, StampsPast
  <2>3. tree[t] \in Stamp /\ touch[t] \in Stamp /\ mark[t] \in Stamp
    BY <1>2 DEF TypeOK
  <2> QED BY <1>3, <2>1, <2>2, <2>3 DEF Stamp
\* Every client's backup either stays where it is or is the one that moves.
<1>5. ASSUME NEW d \in Client
      PROVE  KeepClient(d) \/ (d = c /\ ClientMove(d))
  BY <1>1 DEF BackupEffect
<1>6. ASSUME NEW d \in Client, NEW t \in Tree
      PROVE  marksAtStart'[d][t] \in {marksAtStart[d][t], mark[t], Absent}
  BY <1>5 DEF KeepClient, KeepMarks, ClientMove, Ends, Begins, ListsMarks, Walks,
              Checks, Verifies, Heads, NoObject
<1>7. StampsPast'
  <2>1. ASSUME NEW d \in Client PROVE started'[d] <= now /\ checkedAt'[d] <= now
    <3>1. /\ started'[d] \in {started[d], now, 0}
          /\ checkedAt'[d] \in {checkedAt[d], now, 0}
      BY <1>5 DEF KeepClient, KeepMarks, ClientMove, Ends, Begins, ListsMarks,
                  Walks, Checks, Verifies, Heads
    <3> QED BY <1>3, <3>1 DEF IInv, StampsPast
  <2>2. ASSUME NEW d \in Client, NEW t \in Tree PROVE marksAtStart'[d][t] <= now
    <3>1. marksAtStart[d][t] <= now /\ mark[t] <= now
      BY DEF IInv, StampsPast
    <3> QED BY <1>3, <1>6, <3>1
  <2> QED BY <1>3, <1>4, <2>1, <2>2 DEF IInv, StampsPast
<1>8. Shapes'
  <2>1. ASSUME NEW d \in Client
        PROVE  (/\ bpc[d] \in {"idle", "marks"} => seen[d] = {}
                /\ bpc[d] \in {"idle", "marks", "walk"} \cup InGate => cur[d] = {}
                /\ \A t, u \in cur[d] : t = u
                /\ bpc[d] = "replica" => \A t \in cur[d] : marksAtStart[d][t] = Absent)'
    <3>1. CASE KeepClient(d)
      BY <3>1 DEF IInv, Shapes, KeepClient, KeepWalk, KeepMarks
    <3>2. CASE Walks(d)
      BY <3>2 DEF Walks, KeepMarks, WritePc, InGate
    <3>3. CASE Ends(d)
      BY <3>3 DEF Ends
    <3>4. CASE Begins(d) \/ ListsMarks(d) \/ Checks(d) \/ Verifies(d) \/ Heads(d)
      BY <3>4 DEF IInv, Shapes, Begins, ListsMarks, Checks, Verifies, Heads,
                  KeepWalk, InGate
    <3> QED BY <1>5, <3>1, <3>2, <3>3, <3>4 DEF ClientMove
  <2> QED BY <1>3, <2>1 DEF IInv, Shapes
<1>9. MarkAge'
  <2> SUFFICES ASSUME NEW d \in Client, bpc'[d] \notin {"idle", "marks"}, NEW t \in Tree
               PROVE  \/ mark[t] \in {Absent, marksAtStart'[d][t]}
                      \/ mark[t] >= started'[d]
    BY <1>3 DEF MarkAge
  <2>1. CASE ListsMarks(d)
    BY <2>1 DEF ListsMarks
  <2>2. CASE ~ListsMarks(d)
    <3>1. bpc[d] \notin {"idle", "marks"} /\ KeepMarks(d)
      BY <1>5, <2>2 DEF KeepClient, ClientMove, Ends, Begins, Walks, WritePc,
                        Checks, Verifies, Heads
    <3> QED BY <3>1 DEF IInv, MarkAge, KeepMarks
  <2> QED BY <2>1, <2>2
<1>10. DoomedExpired'
  BY <1>3 DEF IInv, DoomedExpired, Doomed
<1>11. Regrown'
  <2> SUFFICES ASSUME NEW t \in target, tree'[t] # Absent,
                      ppc \in {"deleteReplica", "deleteTouch", "sweepDelete"}
               PROVE  /\ tree'[t] >= mark[t]
                      /\ \A d \in Client : tree'[t] >= marksAtStart'[d][t]
    BY <1>3 DEF Regrown
  <2>1. t \in Tree
    BY <1>2 DEF TypeOK
  <2>2. tree'[t] = now \/ (tree[t] >= mark[t] /\ tree'[t] = tree[t])
    BY <1>4, <2>1 DEF IInv, Regrown
  <2>3. ASSUME NEW d \in Client PROVE tree'[t] >= marksAtStart'[d][t]
    <3>1. tree'[t] = now \/ (tree[t] >= marksAtStart[d][t] /\ tree'[t] = tree[t])
      BY <1>4, <2>1 DEF IInv, Regrown
    <3>2. marksAtStart[d][t] <= now /\ mark[t] <= now
      BY <2>1 DEF IInv, StampsPast
    <3>3. tree[t] \in Int /\ tree[t] >= -1
      BY <1>4, <2>1 DEF Stamp
    <3>4. marksAtStart[d][t] \in Int /\ mark[t] \in Int
      BY <1>2, <2>1 DEF TypeOK, Stamp
    <3> QED BY <1>3, <1>6, <2>1, <2>2, <3>1, <3>2, <3>3, <3>4
  <2> QED BY <1>4, <2>1, <2>2, <2>3 DEF Stamp
<1>12. UnmarkedTreesKept'
  <2> SUFFICES ASSUME NEW d \in Client, NEW t \in seen'[d],
                      marksAtStart'[d][t] = Absent,
                      now + PruneOffset < started'[d] + PruneGrace
               PROVE  tree'[t] # Absent
    BY <1>3 DEF UnmarkedTreesKept
  <2>1. t \in Tree
    BY <1>2 DEF TypeOK
  <2>2. \/ t \in seen[d] /\ KeepMarks(d)
        \/ tree'[t] # Absent
    BY <1>5 DEF IInv, Shapes, KeepClient, KeepWalk, ClientMove, Ends, Begins,
                ListsMarks, Walks, Checks, Verifies, Heads
  <2>3. t \in seen[d] /\ KeepMarks(d) => tree[t] # Absent
    BY DEF IInv, UnmarkedTreesKept, KeepMarks
  <2> QED BY <1>3, <1>4, <2>1, <2>2, <2>3
<1>13. RevivalKept'
  <2> SUFFICES ASSUME NEW d \in Client, NEW t \in seen'[d], t \notin cur'[d],
                      marksAtStart'[d][t] # Absent
               PROVE  \/ tree'[t] = Absent
                      \/ tree'[t] >= marksAtStart'[d][t]
                      \/ touch'[t] >= marksAtStart'[d][t]
    BY DEF RevivalKept
  <2>1. t \in Tree
    BY <1>2 DEF TypeOK
  <2>2. KeepMarks(d) /\ (touch'[t] = now \/ (t \in seen[d] /\ t \notin cur[d]))
    BY <1>5 DEF IInv, Shapes, KeepClient, KeepWalk, KeepMarks, ClientMove, Ends,
                Begins, ListsMarks, Walks, Checks, Verifies, Heads
  <2>3. marksAtStart[d][t] \in Int /\ marksAtStart[d][t] <= now
    BY <1>2, <2>1 DEF IInv, StampsPast, TypeOK, Stamp
  <2>4. t \in seen[d] /\ t \notin cur[d] =>
            \/ tree[t] = Absent
            \/ tree[t] >= marksAtStart[d][t]
            \/ touch[t] >= marksAtStart[d][t]
    BY <2>2 DEF IInv, RevivalKept, KeepMarks
  <2>5. /\ tree[t] \in Int /\ touch[t] \in Int /\ tree'[t] \in Int /\ touch'[t] \in Int
        /\ tree[t] <= tree'[t] /\ touch[t] <= touch'[t]
        /\ tree'[t] = tree[t] \/ tree'[t] = now
    BY <1>2, <1>4, <2>1 DEF TypeOK, Stamp
  <2> QED BY <1>3, <2>2, <2>3, <2>4, <2>5 DEF KeepMarks
<1>14. Deadline'
  <2> SUFFICES ASSUME NEW d \in Client, bpc'[d] \in InGate
               PROVE  /\ checkedAt'[d] - started'[d] + Margin < BackupGrace
                      /\ now <= checkedAt'[d] + MaxStall
    BY <1>3 DEF Deadline
  <2>1. CASE Checks(d)
    <3>1. started[d] \in Nat /\ Margin \in Int
      BY <1>2 DEF TypeOK, Margin
    <3> QED BY <1>3, <2>1, <3>1 DEF Checks, TooLong, KeepMarks
  <2>2. CASE ~Checks(d)
    <3>1. bpc[d] \in InGate /\ started'[d] = started[d] /\ checkedAt'[d] = checkedAt[d]
      BY <1>5, <2>2 DEF KeepClient, KeepMarks, ClientMove, Ends, Begins,
                        ListsMarks, Walks, WritePc, Verifies, Heads, InGate
    <3> QED BY <3>1 DEF IInv, Deadline
  <2> QED BY <2>1, <2>2
<1>15. Verified'
  <2> SUFFICES ASSUME NEW d \in Client, bpc'[d] = "verify", NEW t \in seen'[d],
                      marksAtStart'[d][t] # Absent,
                      <<t, marksAtStart'[d][t]>> \notin toHead'[d]
               PROVE  (/\ tree[t] # Absent /\ Revived(t, marksAtStart[d][t])
                       /\ Defended(t, marksAtStart[d][t]))'
    BY DEF Verified
  <2>1. t \in Tree
    BY <1>2 DEF TypeOK
  <2>2. ~Verifies(d)
    <3> SUFFICES ASSUME Verifies(d) PROVE FALSE
      OBVIOUS
    <3> QED BY <2>1 DEF Verifies, Obligations, KeepMarks, KeepWalk
  <2>3. /\ bpc[d] = "verify" /\ seen'[d] = seen[d] /\ cur[d] = {}
        /\ marksAtStart'[d] = marksAtStart[d]
        /\ KeepClient(d) \/ Heads(d)
    BY <1>5, <2>2 DEF IInv, Shapes, KeepClient, KeepMarks, KeepWalk, ClientMove,
                      Ends, Begins, ListsMarks, Walks, WritePc, Checks, Heads, InGate
  <2>4. /\ tree[t] # Absent /\ Revived(t, marksAtStart[d][t])
        /\ Defended(t, marksAtStart[d][t])
    <3>1. CASE <<t, marksAtStart[d][t]>> \notin toHead[d]
      BY <2>3, <3>1 DEF IInv, Verified
    <3>2. CASE <<t, marksAtStart[d][t]>> \in toHead[d]
      <4>1. GateOpen(t) /\ tree[t] # Absent
        BY <2>3, <3>2 DEF KeepClient, Heads
      <4>2. Revived(t, marksAtStart[d][t])
        BY <2>3, <4>1 DEF IInv, RevivalKept, Revived
      <4> QED BY <4>1, <4>2 DEF GateOpen, Defended
    <3> QED BY <3>1, <3>2
  <2>5. /\ tree[t] \in Stamp /\ touch[t] \in Stamp /\ tree'[t] \in Stamp
        /\ touch'[t] \in Stamp /\ marksAtStart[d][t] \in Stamp
        /\ tree[t] <= tree'[t] /\ touch[t] <= touch'[t]
    BY <1>2, <1>4, <2>1 DEF TypeOK
  <2> QED BY <1>3, <2>3, <2>4, <2>5 DEF Revived, Defended, Stamp
\* Why a snapshot may be written: each of its trees is there and defended.
<1>16. ASSUME NEW t \in seen[c], bpc[c] = "verify", toHead[c] = {}
       PROVE  /\ tree[t] # Absent
              /\ \/ mark[t] = Absent
                 \/ mark[t] + PruneGrace > now + PruneOffset
                 \/ Revived(t, mark[t])
              /\ Doomed(t) => Revived(t, mark[t]) /\ Defended(t, mark[t])
  <2>1. t \in Tree /\ started[c] \in Nat /\ mark[t] \in Int
    BY <1>2 DEF TypeOK, Stamp
  <2>2. now + PruneOffset < started[c] + PruneGrace
    BY <1>16, GateInTime DEF InGate
  <2>3. mark[t] \in {Absent, marksAtStart[c][t]} \/ mark[t] >= started[c]
    BY <1>16, <2>1 DEF IInv, MarkAge
  <2>4. Doomed(t) => mark[t] = marksAtStart[c][t] /\ mark[t] # Absent
    BY <1>16, <2>1, DoomedWasMarked DEF InGate
  <2>5. CASE marksAtStart[c][t] = Absent
    BY <1>3, <2>1, <2>2, <2>3, <2>4, <2>5 DEF IInv, UnmarkedTreesKept
  <2>6. CASE marksAtStart[c][t] # Absent
    <3>1. /\ tree[t] # Absent /\ Revived(t, marksAtStart[c][t])
          /\ Defended(t, marksAtStart[c][t])
      BY <1>16, <2>6 DEF IInv, Verified
    <3> QED BY <1>3, <2>1, <2>2, <2>3, <2>4, <3>1
  <2> QED BY <2>5, <2>6
<1>17. SnapshotsRestorable'
  <2> SUFFICES ASSUME NEW s \in snaps', NEW t \in s.trees PROVE tree'[t] # Absent
    BY DEF SnapshotsRestorable
  <2>1. t \in Tree
    BY <1>2 DEF TypeOK, Snapshot
  <2>2. tree[t] # Absent
    BY <1>1, <1>16 DEF IInv, SnapshotsRestorable, BackupEffect
  <2> QED BY <1>3, <1>4, <2>1, <2>2
<1>18. SnapshotsDefended'
  <2> SUFFICES ASSUME NEW s \in snaps', NEW t \in s.trees
               PROVE  /\ (ppc \in Listing => \/ t \in live
                                             \/ mark[t] = Absent
                                             \/ mark[t] + PruneGrace > pnow
                                             \/ Revived(t, mark[t]))'
                      /\ (t \in toDelete => Revived(t, mark[t]))'
                      /\ Defended(t, mark[t])'
    BY DEF SnapshotsDefended
  <2>1. /\ t \in Tree /\ tree[t] \in Stamp /\ touch[t] \in Stamp /\ mark[t] \in Stamp
        /\ tree'[t] \in Stamp /\ touch'[t] \in Stamp
        /\ tree[t] <= tree'[t] /\ touch[t] <= touch'[t]
    BY <1>2, <1>4 DEF TypeOK, Snapshot
  <2>2. /\ ppc \in Listing => \/ t \in live
                              \/ mark[t] = Absent
                              \/ mark[t] + PruneGrace > pnow
                              \/ Revived(t, mark[t])
        /\ t \in toDelete => Revived(t, mark[t])
        /\ Defended(t, mark[t])
    <3>1. CASE s \in snaps
      BY <3>1 DEF IInv, SnapshotsDefended
    <3>2. CASE s \notin snaps
      <4>1. /\ \/ mark[t] = Absent
               \/ mark[t] + PruneGrace > now + PruneOffset
               \/ Revived(t, mark[t])
            /\ Doomed(t) => Revived(t, mark[t]) /\ Defended(t, mark[t])
        BY <1>1, <1>16, <3>2 DEF BackupEffect
      <4>2. ppc \in Listing => pnow <= now + PruneOffset
        BY DEF IInv, StampsPast
      <4>3. pnow \in Int
        BY <1>2 DEF TypeOK
      <4>4. ~Doomed(t) => t \notin toDelete /\ Defended(t, mark[t])
        BY DEF Doomed, Defended
      <4> QED BY <1>3, <2>1, <4>1, <4>2, <4>3, <4>4 DEF Doomed, Stamp
    <3> QED BY <3>1, <3>2
  <2>3. Revived(t, mark[t]) => Revived(t, mark[t])'
    BY <1>3, <2>1 DEF Revived, Stamp
  <2>4. Defended(t, mark[t])'
    BY <1>3, <2>1, <2>2 DEF Defended, Stamp
  <2> QED BY <1>3, <2>2, <2>3, <2>4
<1> QED
  BY <1>2, <1>7, <1>8, <1>9, <1>10, <1>11, <1>12, <1>13, <1>14, <1>15, <1>17, <1>18
     DEF IInv

\* Time, a forgotten snapshot and a step that changes nothing preserve it.
LEMMA QuietStep ==
    ASSUME IInv, Tick \/ (\E s \in snaps : Forget(s)) \/ UNCHANGED vars
    PROVE  IInv'
<1> USE ConstantsAssumption
<1>1. TypeOK /\ TypeOK'
  BY TypeStep DEF IInv, Next
<1>2. /\ UNCHANGED <<tree, touch, mark, bpc, started, marksAtStart, seen, cur,
                     checkedAt, toHead, ppc, pnow, live, toDelete, target>>
      /\ now <= now' /\ snaps' \subseteq snaps
      /\ now \in Nat /\ now' \in Nat
  BY <1>1 DEF Tick, Forget, vars, repoVars, backupVars, pruneVars, TypeOK
<1>3. StampsPast'
  <2>1. ASSUME NEW t \in Tree PROVE tree[t] <= now' /\ touch[t] <= now' /\ mark[t] <= now'
    <3>1. tree[t] \in Stamp /\ touch[t] \in Stamp /\ mark[t] \in Stamp
      BY <1>1 DEF TypeOK
    <3>2. tree[t] <= now /\ touch[t] <= now /\ mark[t] <= now
      BY DEF IInv, StampsPast
    <3> QED BY <1>2, <3>1, <3>2 DEF Stamp
  <2>2. ASSUME NEW c \in Client PROVE started[c] <= now' /\ checkedAt[c] <= now'
    <3>1. started[c] \in Nat /\ checkedAt[c] \in Nat
      BY <1>1 DEF TypeOK
    <3>2. started[c] <= now /\ checkedAt[c] <= now
      BY DEF IInv, StampsPast
    <3> QED BY <1>2, <3>1, <3>2
  <2>3. ASSUME NEW c \in Client, NEW t \in Tree PROVE marksAtStart[c][t] <= now'
    <3>1. marksAtStart[c][t] \in Stamp
      BY <1>1 DEF TypeOK
    <3>2. marksAtStart[c][t] <= now
      BY DEF IInv, StampsPast
    <3> QED BY <1>2, <3>1, <3>2 DEF Stamp
  <2>4. ppc \in {"walk"} \cup Listing => pnow <= now' + PruneOffset
    <3> SUFFICES ASSUME ppc \in {"walk"} \cup Listing PROVE pnow <= now' + PruneOffset
      OBVIOUS
    <3>1. pnow \in Int /\ now \in Nat /\ now' \in Int /\ now <= now'
      BY <1>1, <1>2 DEF TypeOK
    <3>2. pnow <= now + PruneOffset
      BY DEF IInv, StampsPast
    <3>3. \A n \in Int : now <= n => pnow <= n + PruneOffset
      BY <3>1, <3>2
    <3> QED BY <3>1, <3>3
  <2> QED BY <1>2, <2>1, <2>2, <2>3, <2>4 DEF StampsPast
<1>4. Shapes' /\ MarkAge' /\ Regrown' /\ RevivalKept' /\ Verified'
  BY <1>2 DEF IInv, Shapes, MarkAge, Regrown, RevivalKept, Verified, Revived, Defended
<1>5. DoomedExpired'
  BY <1>1, <1>2 DEF IInv, DoomedExpired, Doomed, TypeOK, Stamp
<1>6. UnmarkedTreesKept'
  BY <1>1, <1>2 DEF IInv, UnmarkedTreesKept, TypeOK
<1>7. Deadline'
  <2>1. CASE Tick
    BY <1>1, <1>2, <2>1 DEF IInv, Deadline, Tick, TypeOK
  <2>2. CASE now' = now
    BY <1>2, <2>2 DEF IInv, Deadline
  <2> QED BY <2>1, <2>2 DEF Forget, vars
<1>8. SnapshotsRestorable' /\ SnapshotsDefended'
  BY <1>2 DEF IInv, SnapshotsRestorable, SnapshotsDefended, Revived, Defended
<1> QED BY <1>1, <1>3, <1>4, <1>5, <1>6, <1>7, <1>8 DEF IInv

\* IInv holds at the start.
LEMMA InvInit == Init => IInv
<1> SUFFICES ASSUME Init PROVE IInv
  OBVIOUS
<1>1. TypeOK
  BY TypeInit
<1> QED
  BY <1>1, ConstantsAssumption
     DEF Init, NoObject, IInv, StampsPast, Shapes, MarkAge, DoomedExpired,
         Doomed, Regrown, UnmarkedTreesKept, RevivalKept, Deadline, Verified,
         SnapshotsRestorable, SnapshotsDefended, InGate, Listing

\* The invariant holds whatever the number of clients and trees, as long as
\* the graces fit the clocks and no gate falls into prune's request window.
THEOREM Invariance ==
    ASSUME TimingSound, WindowClosed
    PROVE  Spec => []IInv
<1>1. Init => IInv
  BY InvInit
<1>2. IInv /\ [Next]_vars => IInv'
  BY PruneStep, BackupStep, QuietStep DEF Next
<1> QED BY <1>1, <1>2, PTL DEF Spec

\* Every tree a committed snapshot reaches is stored until the snapshot is
\* forgotten: two-phase prune without locks never breaks a backup.
THEOREM Restorability ==
    ASSUME TimingSound, WindowClosed
    PROVE  Spec => []SnapshotsRestorable
<1>1. IInv => SnapshotsRestorable
  BY DEF IInv
<1> QED BY <1>1, Invariance, PTL

\* A tree that a running backup met unmarked stays stored until the backup is as
\* old, on prune's clock, as prune's grace: no mark put since it began can have
\* expired.  Of an older backup nothing is said; its gate is what protects it.
THEOREM RunningBackups ==
    ASSUME TimingSound, WindowClosed
    PROVE  Spec => []UnmarkedTreesKept
<1>1. IInv => UnmarkedTreesKept
  BY DEF IInv
<1> QED BY <1>1, Invariance, PTL

\* The touch by which a backup revives a marked tree is as new as the mark while
\* the tree is stored and older than the mark: the group deletion and the orphan
\* sweep of a prune take no touch from a tree that needs it.  The tree itself may
\* be gone; the backup then fails at its gate.
THEOREM Revivals ==
    ASSUME TimingSound, WindowClosed
    PROVE  Spec => []RevivalKept
<1>1. IInv => RevivalKept
  BY DEF IInv
<1> QED BY <1>1, Invariance, PTL

-----------------------------------------------------------------------------
\* A step adds at most one snapshot or forgets one.
LEMMA SnapshotSteps ==
    ASSUME [Next]_vars
    PROVE  \/ snaps' = snaps
           \/ \E s \in snaps' : snaps' = snaps \cup {s}
           \/ \E s \in snaps : snaps' = snaps \ {s}
<1>1. CASE UNCHANGED vars
  BY <1>1 DEF vars, repoVars
<1>2. CASE Tick
  BY <1>2 DEF Tick, repoVars
<1>3. ASSUME NEW c \in Client, BackupNext(c)
      PROVE  snaps' = snaps \/ \E s \in snaps' : snaps' = snaps \cup {s}
  <2>1. CASE CommitSnapshot(c)
    BY <2>1 DEF CommitSnapshot
  <2>2. CASE ~CommitSnapshot(c)
    BY <1>3, <2>2
       DEF BackupNext, repoVars, BackupStart, ListGcMarks, WriteTree, ReadExisting,
           HealTree, WriteReplica, TouchTree, CommitAt, BackupTooLong,
           VerifyTouchedTrees, HeadTree, HeadTouch, TreeMarked, BackupFails
  <2> QED BY <2>1, <2>2
<1>4. ASSUME NEW s \in snaps, Forget(s) PROVE \E r \in snaps : snaps' = snaps \ {r}
  BY <1>4 DEF Forget
<1>5. CASE PruneNext
  BY <1>5
     DEF PruneNext, repoVars, PruneStart, WalkReferences, PruneUnsafe, ListTrees,
         PlanPrune, DryRun, DeletionsDone, UnmarkDone, ListTouches, PruneDone,
         HeadTarget, HeadTargetTouch, DeleteTree, DeleteFails, DeleteReplica,
         DeleteTouch, RemoveMark, PutMark, SweepTouch, DeleteOrphanTouch, PruneFails
<1> QED BY <1>1, <1>2, <1>3, <1>4, <1>5 DEF Next

\* TreeGC implements SnapshotStore: a snapshot appears whole, stays whole and
\* goes only when it is forgotten.
THEOREM Refinement ==
    ASSUME TimingSound, WindowClosed
    PROVE  Spec => StoreSpec
<1>1. Init => Store!Init
  BY DEF Init, Restorable, Store!Init
<1>2. SnapshotsRestorable /\ SnapshotsRestorable' /\ [Next]_vars
          => [Store!Next]_Store!vars
  <2> SUFFICES ASSUME SnapshotsRestorable, SnapshotsRestorable', [Next]_vars
               PROVE  [Store!Next]_Store!vars
    OBVIOUS
  <2>1. Restorable = snaps /\ Restorable' = snaps'
    BY DEF SnapshotsRestorable, Restorable
  <2> QED
    BY <2>1, SnapshotSteps
       DEF Store!Next, Store!Commit, Store!Forget, Store!vars
<1> QED BY <1>1, <1>2, Restorability, PTL DEF Spec, StoreSpec, Store!Spec
=============================================================================
