---------------------------- MODULE PackGCProofs ----------------------------
(***************************************************************************)
(* Proofs about PackGC, for any number of clients, chunks, packs and index *)
(* blobs, any graces and any clock offsets that satisfy the assumptions    *)
(* named below: its types, what the index may list, what a backup may      *)
(* reuse, and that a committed snapshot keeps every chunk it reaches.      *)
(***************************************************************************)
EXTENDS PackGC, TLAPS, WellFoundedInduction

USE DEF Absent

-----------------------------------------------------------------------------
(***************************************************************************)
(* Assumptions on the constants.                                           *)
(***************************************************************************)
\* The index lists stored packs only: nobody runs rebuild-index, which can
\* list a pack that prune is deleting, and no backup takes so long that prune
\* marks and deletes a pack before its backup has written it to the index.
NoPhantoms == ~Rebuilds /\ MaxBackup < 2 * (PruneGrace - PruneOffset)

\* A mark that the gate of commit_at calls young is too young for prune until
\* the snapshot is written.
GateSound ==
    \A c \in Client : BackupGrace - ClientOffset[c] + MaxStall + PruneOffset <= PruneGrace

\* What keeps snapshots whole.
Sound == TimingSound /\ (NoPhantoms \/ GateSound)

-----------------------------------------------------------------------------
(***************************************************************************)
(* The inductive invariant.                                                *)
(***************************************************************************)
Used == {p \in Pack : holds[p] # {}} \cup made

\* Every name the repository or a program knows has been written: a new name
\* is known to nobody.
Names ==
    /\ \A o \in Object : stored[o] # Absent \/ mark[o] # Absent => o \in Used
    /\ \A o \in Object : stored[o] <= now
    /\ toDelete \cup toMark \subseteq Used
    /\ \A b \in Blob : /\ lists[b] \subseteq Used /\ supersedes[b] \subseteq made
                       /\ b \in made \/ (lists[b] = {} /\ supersedes[b] = {})
    /\ blobs \cup rblobs \subseteq made
    /\ rpacks \cup newPacks \subseteq Used
    /\ target \subseteq Used
    /\ \A c \in Client : own[c] \subseteq Used
    /\ \A c \in Client : \A r \in reuse[c] : r[1] \in holds[r[2]]

Planning == {"walk", "plan", "repack"}

\* What prune deletes was marked a grace ago; what is gone stays gone.
PruneTimes ==
    /\ ppc \in {"walk", "plan"} => pnow <= now + PruneOffset
    /\ \A o \in toDelete : mark[o] # Absent /\ mark[o] + PruneGrace <= now + PruneOffset
    /\ \A p \in target : stored[p] = Absent

Eff == Effective(StoredBlobs)

\* bs is a set of blobs that may be superseded together: it has, of the stored
\* blobs, all that its members supersede.
Closed(bs) == \A b \in bs : supersedes[b] \cap StoredBlobs \subseteq bs

\* The stored blobs that do not count are superseded by some that do, and only
\* such blobs are deleted.
IndexShape ==
    /\ \A b \in StoredBlobs \ Eff : \E e \in Eff : b \in supersedes[e]
    /\ toDelete \cap Eff = {}

\* What prune has loaded stays valid until it has rewritten the index.
PruneIndex ==
    /\ ppc \in Planning =>
          /\ blobs \subseteq StoredBlobs /\ Closed(blobs)
          /\ Packs(blobs) \cap StoredPacks \subseteq Indexed
    /\ ppc \in {"walk", "plan"} =>
          \A b \in StoredBlobs : mark[b] # Absent => b \in blobs
    /\ ppc = "repack" =>
          /\ phantoms \subseteq Used \ StoredPacks
          /\ Packs(blobs) \ phantoms \subseteq StoredPacks
          /\ newPacks \subseteq StoredPacks \ toDelete
    /\ ppc # "repack" => newPacks = {}

\* The same for rebuild-index, which deletes nothing.
RebuildIndex ==
    /\ rpc # "idle" => Rebuilds /\ Closed(rblobs)
    /\ rpc \in {"read", "write"} =>
          \A b \in rblobs : lists[b] \cap StoredPacks \subseteq rpacks

\* prune cannot have marked and deleted a pack that is so new.
Fresh(c) == now + 2 * PruneOffset < started[c] + 2 * PruneGrace
Young(c) == now + PruneOffset < started[c] + PruneGrace

\* The packs of a running backup.
OwnPacks(c) ==
    \A p \in own[c] :
        /\ stored[p] # Absent => stored[p] >= started[c]
        /\ p \in toMark => now + PruneOffset >= started[c] + PruneGrace
        /\ mark[p] # Absent => mark[p] + PruneOffset >= started[c] + PruneGrace
        /\ Fresh(c) => stored[p] # Absent
        /\ Fresh(c) /\ bpc[c] \in {"ready"} \cup InGate => p \in Indexed

\* The marks it found at its start are the older ones.
ReusedMarks(c) ==
    /\ bpc[c] = "index" => \A p \in Pack \ marked[c] : mark[p] = Absent \/ mark[p] >= started[c]
    /\ \A r \in reuse[c] : mark[r[2]] = Absent \/ mark[r[2]] >= started[c]

Deadlines(c) ==
    /\ started[c] <= now
    /\ bpc[c] = "idle" => own[c] = {} /\ reuse[c] = {}
    /\ bpc[c] \in {"marks", "index"} => own[c] = {} /\ reuse[c] = {}
    /\ bpc[c] # "idle" => now <= started[c] + MaxBackup
    /\ bpc[c] \in InGate =>
          /\ started[c] <= checkedAt[c] /\ checkedAt[c] <= now
          /\ now <= checkedAt[c] + MaxStall
          /\ checkedAt[c] - started[c] + Margin < BackupGrace

\* A mark that lets the gate pass.
LateMark(c, p) ==
    \/ mark[p] = Absent
    \/ mark[p] >= checkedAt[c]
    \/ mark[p] + BackupGrace > checkedAt[c] + ClientOffset[c]

GateSees(c) ==
    bpc[c] = "gateIndex" => \A p \in Pack : p \in gateExpired[c] \/ LateMark(c, p)

IInv ==
    /\ TypeOK /\ Names /\ PruneTimes /\ IndexShape /\ PruneIndex /\ RebuildIndex
    /\ \A c \in Client : /\ OwnPacks(c) /\ ReusedMarks(c)
                         /\ Deadlines(c) /\ GateSees(c)

\* Why IndexStored holds: what a blob that prune has not loaded lists is too
\* young to be deleted, and the new index lacks what is to be deleted.
IndexAhead ==
    /\ IndexStored
    /\ ppc \in {"walk", "plan"} =>
          \A b \in StoredBlobs \ blobs : \A p \in lists[b] :
              mark[p] = Absent \/ mark[p] + PruneGrace > pnow
    /\ ppc = "repack" =>
          \A b \in StoredBlobs \ blobs : lists[b] \cap toDelete = {}
    /\ ppc \in {"execute", "deleteParity"} => Indexed \cap toDelete = {}

\* A reused chunk whose pack passed the gate, or will not pass it.
Verified ==
    \A c \in Client : bpc[c] = "verify" =>
        \A r \in reuse[c] : \E q \in Pack :
            /\ r[1] \in holds[q]
            /\ \/ stored[q] # Absent /\ q \in Indexed /\ LateMark(c, q)
               \/ q \in toHead[c] /\ (q \in gateExpired[c] \/ stored[q] = Absent)

\* prune is not about to delete p, a pack that holds x.
Spared(x, p) ==
    /\ p \notin toDelete
    /\ ppc = "plan" => x \in live \/ mark[p] = Absent \/ mark[p] + PruneGrace > pnow

\* Every chunk of a snapshot has a stored pack that stays.
SnapshotsHeld ==
    \A x \in Referenced : \E p \in Indexed \cap StoredPacks :
        x \in holds[p] /\ Spared(x, p)
-----------------------------------------------------------------------------
(***************************************************************************)
(* Types.                                                                  *)
(***************************************************************************)
LEMMA StampFacts ==
    /\ Nat \subseteq Stamp /\ Absent \in Stamp /\ Stamp \subseteq Int
    /\ NoObject \in [Object -> Stamp]
    /\ \A n \in Stamp : n # Absent <=> n \in Nat
  BY DEF Stamp, NoObject

\* An object is a pack or an index blob, never both.
LEMMA PackNotBlob == \A o \in Object : o \in Pack <=> o \notin Blob
  BY ConstantsAssumption DEF Object

\* Every step keeps the types.
LEMMA PutPackType ==
    ASSUME TypeOK, NEW p \in Pack, NEW chunks \in SUBSET Chunk, PutPack(p, chunks)
    PROVE  holds' \in [Pack -> SUBSET Chunk] /\ stored' \in [Object -> Stamp]
  BY StampFacts DEF PutPack, TypeOK, Object

\* Putting an index blob keeps the types of the repository.
LEMMA PutBlobType ==
    ASSUME TypeOK, NEW b \in Blob, NEW ps \in SUBSET Pack, NEW old \in SUBSET Blob,
           PutBlob(b, ps, old)
    PROVE  /\ stored' \in [Object -> Stamp] /\ made' \subseteq Blob
           /\ lists' \in [Blob -> SUBSET Pack] /\ supersedes' \in [Blob -> SUBSET Blob]
  BY StampFacts DEF PutBlob, TypeOK, Object

\* What an index lists are packs; the effective blobs are among the given ones.
LEMMA PacksType ==
    ASSUME TypeOK
    PROVE  \A bs \in SUBSET Blob : Packs(bs) \subseteq Pack /\ Effective(bs) \subseteq bs
  BY DEF TypeOK, Packs, Effective

\* canonical_rank orders packs by name: every nonempty set of names has a first.
LEMMA LeastElement ==
    ASSUME NEW S \in SUBSET Nat, S # {}
    PROVE  \E n \in S : \A k \in S : n <= k
<1> DEFINE R == OpToRel(<, Nat)
<1>1. PICK n \in S : \A k \in S : ~(<<k, n>> \in R)
  <2> HIDE DEF R
  <2>1. IsWellFoundedOn(R, Nat)
    BY NatLessThanWellFounded DEF R
  <2> QED BY <2>1, WFMin
<1>2. \A k \in S : ~(k < n)
  BY <1>1 DEF OpToRel
<1> QED BY <1>2

\* canonical_rank finds a pack, and an unmarked one when there is one.
LEMMA BestFacts ==
    ASSUME NEW ps \in SUBSET Pack, ps # {}, NEW m
    PROVE  Best(ps, m) \in ps /\ (ps \subseteq m \/ Best(ps, m) \notin m)
<1> DEFINE first == IF ps \subseteq m THEN ps ELSE ps \ m
<1>1. first # {} /\ first \in SUBSET Nat
  BY ConstantsAssumption
<1>2. \E p \in first : \A q \in first : p <= q
  BY <1>1, LeastElement
<1>3. Best(ps, m) \in first
  BY <1>2 DEF Best
<1> QED BY <1>3

\* A chunk that a backup reuses is in a listed pack, unmarked at its start.
LEMMA ReusableFacts ==
    ASSUME TypeOK, NEW c \in Client, NEW r \in Reusable(c)
    PROVE  /\ r[1] \in todo[c] /\ r[2] \in Indexed \ marked[c]
           /\ r[1] \in holds[r[2]] /\ r \in Chunk \X Pack
<1>1. PICK x \in todo[c] :
          /\ ~ Holders(x, Indexed) \subseteq marked[c]
          /\ r = <<x, Best(Holders(x, Indexed), marked[c])>>
  BY DEF Reusable
<1>2. Holders(x, Indexed) \in SUBSET Pack
  BY PacksType DEF Holders, Indexed, StoredBlobs
<1>3. /\ Best(Holders(x, Indexed), marked[c]) \in Holders(x, Indexed)
      /\ Best(Holders(x, Indexed), marked[c]) \notin marked[c]
  BY <1>1, <1>2, BestFacts
<1>4. x \in Chunk
  BY DEF TypeOK
<1> QED BY <1>1, <1>2, <1>3, <1>4 DEF Holders

\* The gate resolves every reused chunk that the index still knows to a listed
\* pack that holds it.
LEMMA ResolvedFacts ==
    ASSUME TypeOK, NEW c \in Client
    PROVE  /\ Resolved(c) \subseteq Indexed
           /\ \A r \in reuse[c] : Holders(r[1], Indexed) # {}
                  => \E q \in Resolved(c) : q \in Indexed /\ r[1] \in holds[q]
<1>1. ASSUME NEW r \in reuse[c], Holders(r[1], Indexed) # {}
      PROVE  Best(Holders(r[1], Indexed), gateMarked[c]) \in Holders(r[1], Indexed)
  <2>1. Holders(r[1], Indexed) \in SUBSET Pack
    BY PacksType DEF Holders, Indexed, StoredBlobs
  <2> QED BY <1>1, <2>1, BestFacts
<1> QED BY <1>1 DEF Resolved, Holders

\* prune finds a stored pack for every live chunk, and keeps it.
LEMMA CanonicalFacts ==
    ASSUME TypeOK, References, NEW x \in live
    PROVE  /\ Canonical(x) \in Packs(blobs) \cap StoredPacks
           /\ Canonical(x) \in NeededPacks /\ x \in holds[Canonical(x)]
<1>1. Packs(blobs) \subseteq Pack
  BY PacksType DEF TypeOK
<1>2. /\ Holders(x, Packs(blobs) \ PhantomPacks) \in SUBSET Pack
      /\ Holders(x, Packs(blobs) \ PhantomPacks) # {}
  BY <1>1 DEF Holders, References
<1>3. Canonical(x) \in Holders(x, Packs(blobs) \ PhantomPacks)
  BY <1>2, BestFacts DEF Canonical
<1>4. Canonical(x) \in Packs(blobs) /\ stored[Canonical(x)] # Absent /\ x \in holds[Canonical(x)]
  BY <1>3 DEF Holders, PhantomPacks
<1> QED BY <1>1, <1>4 DEF StoredPacks, NeededPacks

\* Every action keeps the types.
LEMMA TypeStep == TypeOK /\ [Next]_vars => TypeOK'
<1> SUFFICES ASSUME TypeOK, [Next]_vars PROVE TypeOK'
  OBVIOUS
<1> USE ConstantsAssumption, StampFacts
<1>0. now \in Stamp /\ Absent \in Stamp
  BY DEF TypeOK
<1>1. CASE UNCHANGED vars
  BY <1>1 DEF TypeOK, vars, repoVars, backupVars, pruneVars, planVars, workVars, rebuildVars
<1>2. CASE Tick
  BY <1>2 DEF TypeOK, Tick, repoVars, backupVars, pruneVars, planVars, workVars, rebuildVars
<1>3. ASSUME NEW c \in Client, BackupNext(c) PROVE TypeOK'
  <2> USE DEF TypeOK, repoVars, pruneVars, planVars, workVars, rebuildVars, Goto, BackupPc
  <2>1. ASSUME NEW content \in Contents, BackupStart(c, content) PROVE TypeOK'
    BY <2>1 DEF BackupStart
  <2>2. CASE ListGcMarks(c)
    BY <2>2 DEF ListGcMarks
  <2>3. CASE LoadIndex(c)
    <3>1. Reusable(c) \in SUBSET (Chunk \X Pack)
      BY ReusableFacts
    <3>2. todo' \in [Client -> SUBSET Chunk]
      BY <2>3 DEF LoadIndex
    <3> QED BY <2>3, <3>1, <3>2 DEF LoadIndex
  <2>4. ASSUME NEW p \in Pack, NEW chunks \in SUBSET todo[c], UploadPack(c, p, chunks)
        PROVE  TypeOK'
    <3>1. /\ chunks \in SUBSET Chunk /\ PutPack(p, chunks)
          /\ (IF Parity THEN "parity" ELSE "upload") \in BackupPc
      BY <2>4 DEF UploadPack
    <3>2. holds' \in [Pack -> SUBSET Chunk] /\ stored' \in [Object -> Stamp]
      BY <3>1, PutPackType
    <3>3. bpc' \in [Client -> BackupPc]
      BY <2>4, <3>1 DEF UploadPack
    <3>4. own' \in [Client -> SUBSET Pack] /\ todo' \in [Client -> SUBSET Chunk]
      BY <2>4 DEF UploadPack
    <3> QED BY <2>4, <3>2, <3>3, <3>4 DEF UploadPack
  <2>5. ASSUME NEW p \in Pack, UploadParity(c, p) PROVE TypeOK'
    <3>1. parity' \subseteq Pack
      BY <2>5 DEF UploadParity
    <3> QED BY <2>5, <3>1 DEF UploadParity
  <2>6. ASSUME NEW p \in Pack, HeadPack(c, p) PROVE TypeOK'
    BY <2>6 DEF HeadPack
  <2>7. ASSUME NEW b \in Blob, WriteIndex(c, b) PROVE TypeOK'
    <3>1. own[c] \in SUBSET Pack /\ {} \in SUBSET Blob /\ PutBlob(b, own[c], {})
      BY <2>7 DEF WriteIndex
    <3>2. /\ stored' \in [Object -> Stamp] /\ made' \subseteq Blob
          /\ lists' \in [Blob -> SUBSET Pack] /\ supersedes' \in [Blob -> SUBSET Blob]
      BY ONLY TypeOK, <3>1, PutBlobType
    <3> QED BY <2>7, <3>2 DEF WriteIndex
  <2>8. CASE CommitAt(c)
    BY <2>8 DEF CommitAt
  <2>9. CASE GateMarks(c)
    BY <2>9 DEF GateMarks
  <2>10. CASE GateIndex(c)
    <3>1. Resolved(c) \in SUBSET Pack
      BY ResolvedFacts, PacksType DEF Indexed, StoredBlobs
    <3> QED BY <2>10, <3>1 DEF GateIndex
  <2>11. ASSUME Idle(c), snaps' \subseteq SUBSET Chunk,
                UNCHANGED <<now, stored, mark, holds, made, lists, supersedes, parity,
                            pruneVars, rebuildVars>>
         PROVE  TypeOK'
    BY <2>11 DEF Idle
  <2>12. CASE CommitSnapshot(c)
    <3>1. Content(c) \subseteq Chunk
      BY DEF Content
    <3>2. snaps' \subseteq SUBSET Chunk
      BY <2>12, <3>1 DEF CommitSnapshot
    <3> QED BY <2>11, <2>12, <3>2 DEF CommitSnapshot
  <2>13. CASE BackupTooLong(c) \/ PackMissing(c) \/ BackupFails(c)
    BY <2>11, <2>13 DEF BackupTooLong, PackMissing, BackupFails
  <2> QED
    BY <1>3, <2>1, <2>2, <2>3, <2>4, <2>5, <2>6, <2>7, <2>8, <2>9, <2>10, <2>12, <2>13
       DEF BackupNext
<1>4. ASSUME NEW s \in snaps, Forget(s) PROVE TypeOK'
  BY <1>4 DEF TypeOK, Forget, backupVars, pruneVars, planVars, workVars, rebuildVars
<1>5. CASE PruneNext
  <2> USE DEF TypeOK, repoVars, backupVars, rebuildVars, planVars, workVars, PrunePc
  <2>1. CASE PruneStart
    BY <2>1 DEF PruneStart, StoredBlobs
  <2>2. CASE WalkReferences
    BY <2>2 DEF WalkReferences, Referenced
  <2>3. CASE PlanPrune
    <3>1. NeededPacks \subseteq Pack
      BY <2>3, CanonicalFacts DEF PlanPrune, NeededPacks, StoredPacks
    <3>2. PhantomPacks \subseteq Pack
      BY PacksType DEF PhantomPacks
    <3>3. /\ toDelete' \subseteq Object /\ marksToRemove' \subseteq Object
          /\ toMark' \subseteq Object /\ repack' \subseteq Pack
      BY <2>3 DEF PlanPrune
    <3>4. kept' \subseteq Pack /\ phantoms' \subseteq Pack
      BY <2>3, <3>1, <3>2 DEF PlanPrune
    <3> QED BY <2>3, <3>3, <3>4 DEF PlanPrune
  <2>4. CASE PruneUnsafe \/ DryRun \/ PruneDone \/ PruneFails
    <3>1. PruneIdle /\ UNCHANGED <<now, repoVars, backupVars, rebuildVars>>
      BY ONLY <2>4 DEF PruneUnsafe, DryRun, PruneDone, PruneFails
    <3> QED BY <3>1 DEF PruneIdle, PlanIdle
  <2>5. ASSUME NEW p \in Pack, NEW chunks \in SUBSET live, RepackPut(p, chunks)
        PROVE  TypeOK'
    <3>1. chunks \in SUBSET Chunk /\ PutPack(p, chunks)
      BY <2>5 DEF RepackPut
    <3>2. holds' \in [Pack -> SUBSET Chunk] /\ stored' \in [Object -> Stamp]
      BY <3>1, PutPackType
    <3> QED BY <2>5, <3>2 DEF RepackPut
  <2>6. ASSUME NEW p \in Pack, RepackFails(p) \/ SweepParity(p) PROVE TypeOK'
    <3>1. CASE RepackFails(p)
      BY <3>1 DEF RepackFails
    <3>2. CASE SweepParity(p)
      <4>1. parity' \subseteq Pack /\ sidecars' \subseteq Pack
        BY <3>2 DEF SweepParity
      <4> QED BY <3>2, <4>1 DEF SweepParity
    <3> QED BY <2>6, <3>1, <3>2
  <2>7. ASSUME NEW b \in Blob, RewriteIndex(b) PROVE TypeOK'
    <3>1. NewIndex \in SUBSET Pack /\ blobs \in SUBSET Blob /\ PutBlob(b, NewIndex, blobs)
      BY <2>7, PacksType DEF RewriteIndex, NewIndex
    <3>2. /\ stored' \in [Object -> Stamp] /\ made' \subseteq Blob
          /\ lists' \in [Blob -> SUBSET Pack] /\ supersedes' \in [Blob -> SUBSET Blob]
      BY ONLY TypeOK, <3>1, PutBlobType
    <3> QED BY <2>7, <3>2 DEF RewriteIndex, PlanIdle
  <2>8. CASE KeepIndex
    BY <2>8 DEF KeepIndex, PlanIdle
  <2>9. ASSUME NEW o \in Object, DeleteObject(o) PROVE TypeOK'
    <3>1. stored' \in [Object -> Stamp]
      BY <1>0, <2>9 DEF DeleteObject
    <3>2. target' \subseteq Pack
      BY <2>9 DEF DeleteObject, Sidecar
    <3> QED BY <2>9, <3>1, <3>2 DEF DeleteObject
  <2>10. ASSUME NEW o \in Object, DeleteFails(o) PROVE TypeOK'
    BY <2>10 DEF DeleteFails
  <2>11. ASSUME NEW o \in Object, RemoveMark(o) \/ PutMark(o) PROVE TypeOK'
    <3>1. mark' \in [Object -> Stamp]
      BY <1>0, <2>11 DEF RemoveMark, PutMark
    <3>2. CASE RemoveMark(o)
      BY <3>1, <3>2 DEF RemoveMark
    <3>3. CASE PutMark(o)
      BY <3>1, <3>3 DEF PutMark
    <3> QED BY <2>11, <3>2, <3>3
  <2>12. CASE DeleteParity \/ ListStored \/ ListSidecars
    <3>1. CASE DeleteParity
      BY <3>1 DEF DeleteParity
    <3>2. CASE ListStored
      BY <3>2 DEF ListStored
    <3>3. CASE ListSidecars
      BY <3>3 DEF ListSidecars
    <3> QED BY <2>12, <3>1, <3>2, <3>3
  <2> QED
    BY <1>5, <2>1, <2>2, <2>3, <2>4, <2>5, <2>6, <2>7, <2>8, <2>9, <2>10, <2>11, <2>12
       DEF PruneNext
<1>6. CASE RebuildNext
  <2> USE DEF TypeOK, repoVars, backupVars, pruneVars, planVars, workVars, RebuildPc
  <2>1. CASE RebuildStart \/ RebuildList \/ RebuildRead
    <3>1. CASE RebuildStart
      BY <3>1 DEF RebuildStart, StoredBlobs
    <3>2. CASE RebuildList
      BY <3>2 DEF RebuildList, StoredPacks
    <3>3. CASE RebuildRead
      BY <3>3 DEF RebuildRead, RebuildIdle
    <3> QED BY <2>1, <3>1, <3>2, <3>3
  <2>2. ASSUME NEW b \in Blob, RebuildWrite(b) PROVE TypeOK'
    <3>1. rpacks \in SUBSET Pack /\ rblobs \in SUBSET Blob /\ PutBlob(b, rpacks, rblobs)
      BY <2>2 DEF RebuildWrite
    <3>2. /\ stored' \in [Object -> Stamp] /\ made' \subseteq Blob
          /\ lists' \in [Blob -> SUBSET Pack] /\ supersedes' \in [Blob -> SUBSET Blob]
      BY ONLY TypeOK, <3>1, PutBlobType
    <3> QED BY <2>2, <3>2 DEF RebuildWrite, RebuildIdle
  <2> QED BY <1>6, <2>1, <2>2 DEF RebuildNext
<1> QED
  BY <1>1, <1>2, <1>3, <1>4, <1>5, <1>6 DEF Next

\* The first state has the types.
LEMMA TypeInit == Init => TypeOK
  BY ConstantsAssumption, StampFacts
     DEF Init, EmptyRepo, Quiet, TypeOK, BackupPc, PrunePc, RebuildPc

\* The types of PackGC hold in every reachable state: no request to the
\* repository and no step of backup, prune or rebuild-index leaves them.
THEOREM TypeCorrect == Spec => []TypeOK
<1>1. Init => TypeOK
  BY TypeInit
<1>2. TypeOK /\ [Next]_vars => TypeOK'
  BY TypeStep
<1> QED BY <1>1, <1>2, PTL DEF Spec

-----------------------------------------------------------------------------
(***************************************************************************)
(* What one step may do, to the repository and to each program.  The       *)
(* invariant is proved from these effects.                                 *)
(***************************************************************************)
RepoKept == UNCHANGED <<now, stored, mark, holds, made, lists, supersedes, snaps>>

\* Names are used once; objects go only when prune deletes them.
ObjectsChange ==
    \A o \in Object :
        \/ stored'[o] = stored[o]
        \/ o \notin Used /\ o \in Used' /\ stored'[o] = now
        \/ /\ o \in toDelete /\ ppc = "execute" /\ ppc' \in {"execute", "deleteParity"}
           /\ stored'[o] = Absent

\* Marks come and go only when all deletions are done.
MarksChange ==
    \A o \in Object :
        \/ mark'[o] = mark[o]
        \/ /\ ppc = "execute" /\ ppc' = "execute" /\ toDelete = {} /\ toDelete' = {}
           /\ \/ mark'[o] = Absent
              \/ mark[o] = Absent /\ o \in toMark /\ mark'[o] = now

NamesKept ==
    /\ now' = now \/ (Tick /\ now' = now + 1 /\ stored' = stored)
    /\ Used \subseteq Used'
    /\ \A p \in Pack : holds[p] # {} => holds'[p] = holds[p]
    /\ \A b \in made : lists'[b] = lists[b] /\ supersedes'[b] = supersedes[b]

\* The index changes by one new blob, or by the loss of some of prune's.
BlobPut(b) ==
    /\ b \in Blob \ made /\ made' = made \cup {b}
    /\ \A o \in Object \ {b} : stored'[o] = stored[o]
    /\ stored'[b] = now /\ now' = now
    /\ \A d \in Blob \ {b} : lists'[d] = lists[d] /\ supersedes'[d] = supersedes[d]
    /\ \/ /\ supersedes'[b] = {}
          /\ \E c \in Client : lists'[b] = own[c] /\ bpc[c] = "upload" /\ bpc'[c] = "ready"
       \/ /\ ppc = "repack" /\ ppc' = "execute"
          /\ lists'[b] = NewIndex /\ supersedes'[b] = blobs
       \/ rpc = "write" /\ lists'[b] = rpacks /\ supersedes'[b] = rblobs

BlobsChange ==
    \/ UNCHANGED <<made, lists, supersedes>>
    \/ \E b \in Blob : BlobPut(b)

SnapsChange ==
    \/ snaps' \subseteq snaps
    \/ \E c \in Client :
          /\ bpc[c] = "verify" /\ toHead[c] = {}
          /\ snaps' = snaps \cup {Content(c)}
          /\ UNCHANGED <<now, stored, mark, holds, made, lists, supersedes, ppc,
                         pnow, live, toDelete>>

RepoMove == ObjectsChange /\ MarksChange /\ NamesKept /\ BlobsChange /\ SnapsChange

\* An action that leaves the repository alone is a move of the repository.
LEMMA RepoKeptMoves ==
    ASSUME TypeOK, RepoKept
    PROVE  RepoMove
  BY DEF RepoKept, RepoMove, ObjectsChange, MarksChange, NamesKept, BlobsChange,
         SnapsChange, Used

\* A new pack.
LEMMA PutPackMoves ==
    ASSUME TypeOK, NEW p \in Pack, NEW chunks \in SUBSET Chunk, chunks # {},
           PutPack(p, chunks), UNCHANGED <<now, mark, made, lists, supersedes, snaps>>
    PROVE  /\ RepoMove
           /\ p \notin Used /\ p \in Used' /\ stored'[p] = now
<1>1. p \notin Used /\ p \in Object
  BY PackNotBlob DEF PutPack, Used, TypeOK, Object
<1>2. /\ Used' = Used \cup {p} /\ stored'[p] = now
      /\ \A o \in Object \ {p} : stored'[o] = stored[o]
  <2>1. /\ holds' = [holds EXCEPT ![p] = chunks] /\ stored' = [stored EXCEPT ![p] = now]
        /\ holds[p] = {}
    BY DEF PutPack
  <2>2. \A q \in Pack : holds'[q] = IF q = p THEN chunks ELSE holds[q]
    BY <2>1 DEF TypeOK
  <2> QED BY <1>1, <2>1, <2>2 DEF Used, TypeOK
<1>3. \A q \in Pack : holds[q] # {} => holds'[q] = holds[q]
  BY DEF PutPack, TypeOK
<1> QED
  BY <1>1, <1>2, <1>3
     DEF RepoMove, ObjectsChange, MarksChange, NamesKept, BlobsChange, SnapsChange

\* A new index blob, by one of the three programs.
LEMMA PutBlobMoves ==
    ASSUME TypeOK, NEW b \in Blob, NEW ps \in SUBSET Pack, NEW old \in SUBSET Blob,
           PutBlob(b, ps, old), UNCHANGED <<now, mark, holds, snaps>>,
           \/ /\ old = {}
              /\ \E c \in Client : ps = own[c] /\ bpc[c] = "upload" /\ bpc'[c] = "ready"
           \/ ppc = "repack" /\ ppc' = "execute" /\ ps = NewIndex /\ old = blobs
           \/ rpc = "write" /\ ps = rpacks /\ old = rblobs
    PROVE  RepoMove /\ BlobPut(b) /\ lists'[b] = ps
<1>1. /\ b \in Blob \ made /\ made' = made \cup {b} /\ b \in Object
      /\ \A o \in Object \ {b} : stored'[o] = stored[o]
      /\ stored'[b] = now
      /\ \A d \in Blob \ {b} : lists'[d] = lists[d] /\ supersedes'[d] = supersedes[d]
      /\ lists'[b] = ps /\ supersedes'[b] = old
  BY DEF PutBlob, TypeOK, Object
<1>2. BlobPut(b)
  BY <1>1 DEF BlobPut
<1>3. b \notin Used /\ b \in Used' /\ Used \subseteq Used'
  BY <1>1, PackNotBlob DEF Used
<1>4. ObjectsChange /\ MarksChange /\ NamesKept
  BY <1>1, <1>3 DEF ObjectsChange, MarksChange, NamesKept, TypeOK
<1> QED BY <1>1, <1>2, <1>4 DEF RepoMove, BlobsChange, SnapsChange

-----------------------------------------------------------------------------
\* What prune does to its plan.
PruneKeeps ==
    UNCHANGED <<ppc, pnow, blobs, live, phantoms, newPacks, toDelete, toMark, target>>
PruneLoads ==
    /\ ppc = "idle" /\ ppc' = "walk"
    /\ pnow' = now + PruneOffset /\ blobs' = StoredBlobs
    /\ RepoKept /\ UNCHANGED <<newPacks, toDelete, toMark, target>>
PruneWalks ==
    /\ ppc = "walk" /\ ppc' = "plan" /\ live' = Referenced
    /\ RepoKept /\ UNCHANGED <<pnow, blobs, newPacks, toDelete, toMark, target>>
PruneDecides ==
    /\ ppc = "plan" /\ ppc' = "repack" /\ References
    /\ toDelete' = {o \in Object : Deletable(o)}
    /\ \A o \in toMark' : o \in Object /\ stored[o] # Absent /\ stored[o] + PruneGrace <= pnow
    /\ phantoms' = PhantomPacks
    /\ RepoKept /\ UNCHANGED <<blobs, live, newPacks, target>>
PruneRepacks ==
    /\ ppc = "repack" /\ ppc' = "repack"
    /\ \A p \in newPacks' : p \in newPacks \/ (p \notin Used /\ p \in Used' /\ stored'[p] = now)
    /\ \A o \in Used : stored'[o] = stored[o]
    /\ toMark' \subseteq toMark
    /\ UNCHANGED <<made, mark, blobs, live, phantoms, toDelete, target>>
PruneRewrites ==
    /\ ppc = "repack" /\ ppc' = "execute" /\ newPacks' = {} /\ blobs' = {}
    /\ mark' = mark
    /\ \/ /\ \E b \in Blob : BlobPut(b) /\ lists'[b] = NewIndex /\ supersedes'[b] = blobs
       \/ ~Rewrite /\ RepoKept
    /\ UNCHANGED <<toDelete, toMark, target>>
PruneExecutes ==
    /\ ppc \in {"execute", "deleteParity", "sidecars", "sweep"}
    /\ ppc' \in {"execute", "deleteParity", "sidecars", "sweep"}
    /\ ppc' = "execute" => ppc \in {"execute", "deleteParity"}
    /\ ppc' = "deleteParity" => ppc \in {"execute", "deleteParity"}
    /\ UNCHANGED <<blobs, newPacks>> /\ toDelete' \subseteq toDelete /\ toMark' \subseteq toMark
    /\ \A p \in target' : p \in target \/ (p \in toDelete /\ stored'[p] = Absent)
    /\ UNCHANGED <<made, lists, supersedes>>
    /\ \A o \in Object : stored'[o] # stored[o] => stored'[o] = Absent /\ o \in toDelete
PruneEnds ==
    /\ ppc' = "idle" /\ blobs' = {} /\ newPacks' = {}
    /\ toDelete' = {} /\ toMark' = {} /\ target' = {}
    /\ RepoKept

PruneMove ==
    \/ PruneKeeps \/ PruneLoads \/ PruneWalks \/ PruneDecides \/ PruneRepacks
    \/ PruneRewrites \/ PruneExecutes \/ PruneEnds

\* What the backup of client c does to its state.
KeepRun(c) == started'[c] = started[c] /\ reuse'[c] = reuse[c]
KeepGate(c) == KeepRun(c) /\ own'[c] = own[c] /\ checkedAt'[c] = checkedAt[c]
KeepClient(c) ==
    /\ KeepGate(c) /\ bpc'[c] = bpc[c] /\ marked'[c] = marked[c]
    /\ gateExpired'[c] = gateExpired[c] /\ toHead'[c] = toHead[c]
Ends(c) == bpc'[c] = "idle" /\ reuse'[c] = {} /\ own'[c] = {} /\ started'[c] = 0
Begins(c) ==
    /\ bpc[c] = "idle" /\ bpc'[c] = "marks" /\ started'[c] = now
    /\ reuse'[c] = reuse[c] /\ own'[c] = own[c] /\ RepoKept
ListsMarks(c) ==
    /\ bpc[c] = "marks" /\ bpc'[c] = "index"
    /\ marked'[c] = {p \in Pack : mark[p] # Absent}
    /\ KeepRun(c) /\ own'[c] = own[c] /\ RepoKept
LoadsIndex(c) ==
    /\ bpc[c] = "index" /\ bpc'[c] = "upload" /\ reuse'[c] = Reusable(c)
    /\ started'[c] = started[c] /\ own'[c] = own[c] /\ RepoKept
Uploads(c) ==
    /\ bpc[c] \in {"upload", "parity"} /\ bpc'[c] \in {"upload", "parity"}
    /\ KeepRun(c) /\ PruneKeeps
    /\ \A p \in own'[c] : p \in own[c] \/ (p \notin Used /\ p \in Used' /\ stored'[p] = now)
WritesIndex(c) ==
    /\ bpc[c] = "upload" /\ bpc'[c] = "ready"
    /\ KeepRun(c) /\ own'[c] = own[c] /\ PruneKeeps /\ mark' = mark
    /\ \E b \in Blob : BlobPut(b) /\ lists'[b] = own[c] /\ supersedes'[b] = {}
Checks(c) ==
    /\ bpc[c] = "ready" \/ (bpc[c] = "upload" /\ own[c] = {})
    /\ bpc'[c] = "gate" /\ ~TooLong(c) /\ checkedAt'[c] = now
    /\ KeepRun(c) /\ own'[c] = own[c] /\ RepoKept
ListsGate(c) ==
    /\ bpc[c] = "gate" /\ bpc'[c] = "gateIndex" /\ KeepGate(c) /\ RepoKept
    /\ gateExpired'[c] =
          {p \in Pack : /\ mark[p] # Absent
                        /\ mark[p] + BackupGrace <= checkedAt[c] + ClientOffset[c]}
Resolves(c) ==
    /\ bpc[c] = "gateIndex" /\ bpc'[c] = "verify" /\ KeepGate(c) /\ RepoKept
    /\ gateExpired'[c] = gateExpired[c]
    /\ AllResolved(c) /\ toHead'[c] = Resolved(c)
Heads(c) ==
    /\ bpc[c] = "verify" /\ bpc'[c] = "verify" /\ KeepGate(c) /\ RepoKept
    /\ gateExpired'[c] = gateExpired[c]
    /\ \A p \in toHead[c] : p \in toHead'[c] \/ (p \notin gateExpired[c] /\ stored[p] # Absent)

ClientMove(c) ==
    \/ KeepClient(c) \/ Ends(c) \/ Begins(c) \/ ListsMarks(c) \/ LoadsIndex(c)
    \/ Uploads(c) \/ WritesIndex(c) \/ Checks(c) \/ ListsGate(c) \/ Resolves(c)
    \/ Heads(c)

\* What rebuild-index does.
RebuildKeeps == UNCHANGED rebuildVars
RebuildLists ==
    /\ \/ rpc = "idle" /\ rpc' = "packs" /\ Rebuilds /\ rblobs' = StoredBlobs /\ rpacks' = rpacks
       \/ rpc = "packs" /\ rpc' = "read" /\ rblobs' = rblobs /\ rpacks' = StoredPacks
       \/ rpc = "read" /\ rpc' = "write" /\ UNCHANGED <<rblobs, rpacks>>
    /\ RepoKept
RebuildEnds == rpc' = "idle" /\ rblobs' = {} /\ rpacks' = {}
RebuildMove == RebuildKeeps \/ RebuildLists \/ RebuildEnds

StepEffect ==
    RepoMove /\ PruneMove /\ (\A c \in Client : ClientMove(c)) /\ RebuildMove

\* What a step of a backup does to the rest of the state.
LEMMA BackupEffects ==
    ASSUME TypeOK, NEW c \in Client, BackupNext(c)
    PROVE  StepEffect
<1>1. UNCHANGED <<pruneVars, rebuildVars>>
  BY DEF BackupNext, BackupStart, ListGcMarks, LoadIndex, UploadPack, UploadParity,
         HeadPack, WriteIndex, CommitAt, BackupTooLong, GateMarks, GateIndex,
         PackMissing, CommitSnapshot, BackupFails
<1>2. PruneKeeps /\ PruneMove /\ RebuildMove
  BY <1>1 DEF PruneKeeps, PruneMove, RebuildMove, RebuildKeeps, pruneVars, planVars, workVars
<1>3. ASSUME RepoMove, ClientMove(c), \A d \in Client \ {c} : KeepClient(d)
      PROVE  StepEffect
  BY <1>2, <1>3 DEF StepEffect, ClientMove
<1>4. ASSUME UNCHANGED <<now, repoVars>> PROVE RepoKept /\ RepoMove
  BY <1>4, RepoKeptMoves DEF RepoKept, repoVars
<1> DEFINE Others == \A d \in Client \ {c} : KeepClient(d)
<1> USE DEF KeepClient, KeepGate, KeepRun, Goto, TypeOK
<1>5. ASSUME NEW content \in Contents, BackupStart(c, content) PROVE StepEffect
  <2>1. Begins(c) /\ Others
    BY <1>4, <1>5 DEF BackupStart, Begins
  <2> QED BY <1>3, <1>4, <1>5, <2>1 DEF BackupStart, ClientMove
<1>6. CASE ListGcMarks(c)
  <2>1. ListsMarks(c) /\ Others
    BY <1>4, <1>6 DEF ListGcMarks, ListsMarks
  <2> QED BY <1>3, <1>4, <1>6, <2>1 DEF ListGcMarks, ClientMove
<1>7. CASE LoadIndex(c)
  <2>1. LoadsIndex(c) /\ Others
    BY <1>4, <1>7 DEF LoadIndex, LoadsIndex
  <2> QED BY <1>3, <1>4, <1>7, <2>1 DEF LoadIndex, ClientMove
<1>8. ASSUME NEW p \in Pack, NEW chunks \in SUBSET todo[c], UploadPack(c, p, chunks)
      PROVE  StepEffect
  <2>1. RepoMove /\ p \notin Used /\ p \in Used' /\ stored'[p] = now
    <3>1. /\ chunks \in SUBSET Chunk /\ chunks # {} /\ PutPack(p, chunks)
          /\ UNCHANGED <<now, mark, made, lists, supersedes, snaps>>
      BY <1>8 DEF UploadPack
    <3> QED BY <3>1, PutPackMoves
  <2>2. Uploads(c) /\ Others
    BY <1>2, <1>8, <2>1 DEF UploadPack, Uploads
  <2> QED BY <1>3, <2>1, <2>2 DEF ClientMove
<1>9. ASSUME NEW p \in Pack, UploadParity(c, p) PROVE StepEffect
  <2>1. RepoKept /\ Uploads(c) /\ Others
    BY <1>2, <1>9 DEF UploadParity, Uploads, RepoKept
  <2> QED BY <1>3, <2>1, RepoKeptMoves DEF ClientMove
<1>10. ASSUME NEW p \in Pack, HeadPack(c, p) PROVE StepEffect
  <2>1. Heads(c) /\ Others
    BY <1>4, <1>10 DEF HeadPack, Heads
  <2> QED BY <1>3, <1>4, <1>10, <2>1 DEF HeadPack, ClientMove
<1>11. ASSUME NEW b \in Blob, WriteIndex(c, b) PROVE StepEffect
  <2>1. bpc[c] = "upload" /\ bpc'[c] = "ready" /\ own'[c] = own[c] /\ Others /\ KeepRun(c)
    BY <1>11 DEF WriteIndex
  <2>2. RepoMove /\ BlobPut(b) /\ lists'[b] = own[c] /\ supersedes'[b] = {}
    <3>1. /\ own[c] \in SUBSET Pack /\ {} \in SUBSET Blob /\ PutBlob(b, own[c], {})
          /\ UNCHANGED <<now, mark, holds, snaps>>
      BY <1>11 DEF WriteIndex
    <3>2. supersedes'[b] = {}
      BY <3>1 DEF PutBlob
    <3> QED BY ONLY TypeOK, <2>1, <3>1, <3>2, PutBlobMoves
  <2>3. WritesIndex(c)
    BY <1>2, <1>11, <2>1, <2>2 DEF WritesIndex, WriteIndex
  <2> QED BY <1>3, <2>1, <2>2, <2>3 DEF ClientMove
<1>12. CASE CommitAt(c)
  <2>1. Checks(c) /\ Others
    BY <1>4, <1>12 DEF CommitAt, Checks, Prepared
  <2> QED BY <1>3, <1>4, <1>12, <2>1 DEF CommitAt, ClientMove
<1>13. CASE GateMarks(c)
  <2>1. ListsGate(c) /\ Others
    BY <1>4, <1>13 DEF GateMarks, ListsGate
  <2> QED BY <1>3, <1>4, <1>13, <2>1 DEF GateMarks, ClientMove
<1>14. CASE GateIndex(c)
  <2>1. Resolves(c) /\ Others
    BY <1>4, <1>14 DEF GateIndex, Resolves
  <2> QED BY <1>3, <1>4, <1>14, <2>1 DEF GateIndex, ClientMove
<1>15. ASSUME Idle(c) PROVE ClientMove(c) /\ Others
  BY <1>15 DEF Idle, Ends, ClientMove
<1>16. CASE CommitSnapshot(c)
  <2>1. RepoMove
    <3>1. SnapsChange
      BY <1>1, <1>16 DEF SnapsChange, CommitSnapshot, pruneVars, planVars, workVars
    <3> QED BY <3>1, <1>16 DEF CommitSnapshot, RepoMove, ObjectsChange, MarksChange,
                               NamesKept, BlobsChange, Used
  <2> QED BY <1>3, <1>15, <1>16, <2>1 DEF CommitSnapshot
<1>17. CASE BackupTooLong(c) \/ PackMissing(c) \/ BackupFails(c)
  BY <1>3, <1>4, <1>15, <1>17 DEF BackupTooLong, PackMissing, BackupFails
<1> QED
  BY <1>5, <1>6, <1>7, <1>8, <1>9, <1>10, <1>11, <1>12, <1>13, <1>14, <1>16, <1>17
     DEF BackupNext

\* What a step of prune does to the rest of the state.
LEMMA PruneEffects ==
    ASSUME TypeOK, PruneNext
    PROVE  StepEffect
<1>1. UNCHANGED <<backupVars, rebuildVars>>
  BY DEF PruneNext, PruneStart, WalkReferences, PlanPrune, PruneUnsafe, DryRun,
         KeepIndex, RepackPut, RepackFails, SweepParity, RewriteIndex, DeleteObject,
         DeleteFails, RemoveMark, PutMark, DeleteParity, ListStored, ListSidecars,
         PruneDone, PruneFails
<1>2. RebuildMove /\ \A d \in Client : KeepClient(d)
  BY <1>1 DEF RebuildMove, RebuildKeeps, KeepClient, KeepGate, KeepRun, backupVars
<1>3. ASSUME RepoMove, PruneMove PROVE StepEffect
  BY <1>2, <1>3 DEF StepEffect, ClientMove
<1>4. ASSUME UNCHANGED <<now, repoVars>> PROVE RepoKept /\ RepoMove
  BY <1>4, RepoKeptMoves DEF RepoKept, repoVars
<1> USE DEF planVars, workVars
<1>5. CASE PruneStart
  <2>1. PruneLoads
    BY <1>4, <1>5 DEF PruneStart, PruneLoads
  <2> QED BY <1>3, <1>4, <1>5, <2>1 DEF PruneStart, PruneMove
<1>6. CASE WalkReferences
  <2>1. PruneWalks
    BY <1>4, <1>6 DEF WalkReferences, PruneWalks
  <2> QED BY <1>3, <1>4, <1>6, <2>1 DEF WalkReferences, PruneMove
<1>7. CASE PlanPrune
  <2>1. RepoKept /\ RepoMove
    BY <1>4, <1>7 DEF PlanPrune
  <2>2. ASSUME NEW o \in toMark'
        PROVE  o \in Object /\ stored[o] # Absent /\ stored[o] + PruneGrace <= pnow
    <3>1. CASE Markable(o) /\ o \in Object
      BY <3>1 DEF Markable
    <3>2. CASE Repackable(o) /\ o \in Pack
      <4>1. PICK x \in live : o = Canonical(x)
        BY <3>2 DEF Repackable, NeededPacks
      <4>2. o \in StoredPacks
        BY <1>7, <4>1, CanonicalFacts DEF PlanPrune
      <4> QED BY <3>2, <4>2 DEF Repackable, StoredPacks, Object
    <3> QED BY <1>7, <2>2, <3>1, <3>2 DEF PlanPrune, Object
  <2>3. PruneDecides
    BY <1>7, <2>1, <2>2 DEF PlanPrune, PruneDecides
  <2> QED BY <1>3, <2>1, <2>3 DEF PruneMove
<1>8. CASE PruneUnsafe \/ DryRun \/ PruneDone \/ PruneFails
  <2>1. PruneIdle /\ UNCHANGED <<now, repoVars>>
    BY <1>8 DEF PruneUnsafe, DryRun, PruneDone, PruneFails
  <2>2. PruneEnds
    BY <1>4, <2>1 DEF PruneEnds, PruneIdle, PlanIdle
  <2> QED BY <1>3, <1>4, <2>1, <2>2 DEF PruneMove
<1>9. ASSUME NEW p \in Pack, NEW chunks \in SUBSET live, RepackPut(p, chunks)
      PROVE  StepEffect
  <2>1. RepoMove /\ p \notin Used /\ p \in Used' /\ stored'[p] = now
    <3>1. /\ chunks \in SUBSET Chunk /\ chunks # {} /\ PutPack(p, chunks)
          /\ UNCHANGED <<now, mark, made, lists, supersedes, snaps>>
      BY <1>9 DEF RepackPut, TypeOK
    <3> QED BY <3>1, PutPackMoves
  <2>2. \A o \in Used : stored'[o] = stored[o]
    <3>1. \A o \in Object \ {p} : stored'[o] = stored[o]
      BY <1>9 DEF RepackPut, PutPack, TypeOK
    <3> QED BY <3>1, <2>1 DEF Used, TypeOK, Object
  <2>3. PruneRepacks
    BY <1>9, <2>1, <2>2 DEF RepackPut, PruneRepacks
  <2> QED BY <1>3, <2>1, <2>3 DEF PruneMove
<1>10. ASSUME NEW p \in Pack, RepackFails(p) PROVE StepEffect
  <2>1. PruneRepacks
    BY <1>10 DEF RepackFails, PruneRepacks, repoVars
  <2> QED BY <1>3, <1>4, <1>10, <2>1 DEF RepackFails, PruneMove
<1>11. ASSUME NEW p \in Pack, SweepParity(p) PROVE StepEffect
  <2>1. RepoKept /\ PruneKeeps
    BY <1>11 DEF SweepParity, PruneKeeps, RepoKept
  <2> QED BY <1>3, <2>1, RepoKeptMoves DEF PruneMove
<1>12. ASSUME NEW b \in Blob, RewriteIndex(b) PROVE StepEffect
  <2>1. RepoMove /\ BlobPut(b) /\ lists'[b] = NewIndex /\ supersedes'[b] = blobs
    <3>1. /\ NewIndex \in SUBSET Pack /\ blobs \in SUBSET Blob /\ PutBlob(b, NewIndex, blobs)
          /\ UNCHANGED <<now, mark, holds, snaps>> /\ ppc = "repack" /\ ppc' = "execute"
      BY <1>12, PacksType DEF RewriteIndex, NewIndex, TypeOK
    <3>2. supersedes'[b] = blobs
      BY <3>1 DEF PutBlob, TypeOK
    <3> QED BY ONLY TypeOK, <3>1, <3>2, PutBlobMoves
  <2>2. PruneRewrites
    BY <1>12, <2>1 DEF RewriteIndex, PruneRewrites, PlanIdle
  <2> QED BY <1>3, <2>1, <2>2 DEF PruneMove
<1>13. CASE KeepIndex
  <2>1. PruneRewrites
    BY <1>4, <1>13 DEF KeepIndex, PruneRewrites, PlanIdle, repoVars
  <2> QED BY <1>3, <1>4, <1>13, <2>1 DEF KeepIndex, PruneMove
<1>14. ASSUME NEW o \in Object, DeleteObject(o) PROVE StepEffect
  <2>1. /\ ppc = "execute" /\ ppc' \in {"execute", "deleteParity"} /\ o \in toDelete
        /\ toDelete' \subseteq toDelete /\ UNCHANGED <<toMark, newPacks, blobs>>
        /\ UNCHANGED <<now, mark, holds, made, lists, supersedes, snaps>>
    BY <1>14 DEF DeleteObject
  <2>2. \A q \in Object : \/ stored'[q] = stored[q]
                          \/ q = o /\ stored'[q] = Absent
    BY <1>14 DEF DeleteObject, TypeOK
  <2>3. \A p \in target' : p = o /\ stored'[p] = Absent
    BY <1>14 DEF DeleteObject, Sidecar, TypeOK
  <2>4. RepoMove
    BY <2>1, <2>2 DEF RepoMove, ObjectsChange, MarksChange, NamesKept, BlobsChange,
                      SnapsChange, Used
  <2>5. PruneExecutes
    BY <2>1, <2>2, <2>3 DEF PruneExecutes
  <2> QED BY <1>3, <2>4, <2>5 DEF PruneMove
<1>15. ASSUME NEW o \in Object, DeleteFails(o) PROVE StepEffect
  <2>1. PruneExecutes
    BY <1>15 DEF DeleteFails, PruneExecutes, repoVars
  <2> QED BY <1>3, <1>4, <1>15, <2>1 DEF DeleteFails, PruneMove
<1>16. ASSUME NEW o \in Object, RemoveMark(o) \/ PutMark(o) PROVE StepEffect
  <2>1. /\ ppc = "execute" /\ ppc' = "execute" /\ toDelete = {} /\ toDelete' = {}
        /\ toMark' \subseteq toMark /\ UNCHANGED <<newPacks, blobs, target>>
        /\ UNCHANGED <<now, stored, holds, made, lists, supersedes, snaps>>
    BY <1>16 DEF RemoveMark, PutMark
  <2>2. \A q \in Object :
            \/ mark'[q] = mark[q] \/ mark'[q] = Absent
            \/ mark[q] = Absent /\ q \in toMark /\ mark'[q] = now
    <3>1. CASE RemoveMark(o)
      BY <3>1 DEF RemoveMark, TypeOK
    <3>2. CASE PutMark(o)
      BY <3>2 DEF PutMark, TypeOK
    <3> QED BY <1>16, <3>1, <3>2
  <2>3. RepoMove
    BY <2>1, <2>2 DEF RepoMove, ObjectsChange, MarksChange, NamesKept, BlobsChange,
                      SnapsChange, Used
  <2>4. PruneExecutes
    BY <2>1 DEF PruneExecutes
  <2> QED BY <1>3, <2>3, <2>4 DEF PruneMove
<1>17. CASE DeleteParity \/ ListStored \/ ListSidecars
  <2>1. RepoKept
    BY <1>17 DEF DeleteParity, ListStored, ListSidecars, RepoKept, repoVars
  <2>2. PruneExecutes
    BY <1>17 DEF DeleteParity, ListStored, ListSidecars, PruneExecutes, repoVars, Executed
  <2> QED BY <1>3, <2>1, <2>2, RepoKeptMoves DEF PruneMove
<1> QED
  BY <1>5, <1>6, <1>7, <1>8, <1>9, <1>10, <1>11, <1>12, <1>13, <1>14, <1>15, <1>16, <1>17
     DEF PruneNext

\* What any step does, in the terms the rest of the proof uses.
LEMMA StepEffects ==
    ASSUME TypeOK, [Next]_vars
    PROVE  StepEffect
<1>1. ASSUME UNCHANGED <<backupVars, pruneVars, rebuildVars>>, RepoMove PROVE StepEffect
  BY <1>1 DEF StepEffect, PruneMove, PruneKeeps, RebuildMove, RebuildKeeps, ClientMove,
              KeepClient, KeepGate, KeepRun, backupVars, pruneVars, planVars, workVars
<1>2. CASE UNCHANGED vars
  BY <1>1, <1>2, RepoKeptMoves DEF vars, repoVars, RepoKept
<1>3. CASE Tick
  <2>1. RepoMove
    BY <1>3 DEF Tick, repoVars, RepoMove, ObjectsChange, MarksChange, NamesKept,
                BlobsChange, SnapsChange, Used
  <2> QED BY <1>1, <1>3, <2>1 DEF Tick
<1>4. ASSUME NEW s \in snaps, Forget(s) PROVE StepEffect
  <2>1. RepoMove
    BY <1>4 DEF Forget, RepoMove, ObjectsChange, MarksChange, NamesKept, BlobsChange,
                SnapsChange, Used
  <2> QED BY <1>1, <1>4, <2>1 DEF Forget
<1>5. CASE RebuildNext
  <2>1. UNCHANGED <<backupVars, pruneVars>>
    BY <1>5 DEF RebuildNext, RebuildStart, RebuildList, RebuildRead, RebuildWrite
  <2>2. ASSUME RepoMove, RebuildMove PROVE StepEffect
    BY <2>1, <2>2 DEF StepEffect, PruneMove, PruneKeeps, ClientMove, KeepClient,
                      KeepGate, KeepRun, backupVars, pruneVars, planVars, workVars
  <2>3. CASE RebuildStart \/ RebuildList \/ RebuildRead
    <3>1. RepoKept
      BY <2>3 DEF RebuildStart, RebuildList, RebuildRead, RepoKept, repoVars
    <3>2. RebuildMove
      BY <2>3, <3>1 DEF RebuildStart, RebuildList, RebuildRead, RebuildIdle,
                        RebuildMove, RebuildLists, RebuildEnds
    <3> QED BY <2>2, <3>1, <3>2, RepoKeptMoves
  <2>4. ASSUME NEW b \in Blob, RebuildWrite(b) PROVE StepEffect
    <3>1. RepoMove
      <4>1. /\ rpacks \in SUBSET Pack /\ rblobs \in SUBSET Blob
            /\ PutBlob(b, rpacks, rblobs) /\ rpc = "write"
            /\ UNCHANGED <<now, mark, holds, snaps>>
        BY <2>4 DEF RebuildWrite, TypeOK
      <4> QED BY ONLY TypeOK, <4>1, PutBlobMoves
    <3>2. RebuildMove
      BY <2>4 DEF RebuildWrite, RebuildIdle, RebuildMove, RebuildEnds
    <3> QED BY <2>2, <3>1, <3>2
  <2> QED BY <1>5, <2>3, <2>4 DEF RebuildNext
<1> QED BY <1>2, <1>3, <1>4, <1>5, BackupEffects, PruneEffects DEF Next

-----------------------------------------------------------------------------
(***************************************************************************)
(* Names and clocks.                                                       *)
(***************************************************************************)
LEMMA ClockStep ==
    ASSUME TypeOK, StepEffect
    PROVE  now \in Nat /\ now' \in Nat /\ now <= now'
  BY DEF StepEffect, RepoMove, NamesKept, TypeOK

\* What is stored and what is listed has been written.
LEMMA StoredNames ==
    ASSUME TypeOK, Names
    PROVE  /\ StoredBlobs \subseteq made /\ StoredPacks \subseteq Used
           /\ \A bs \in SUBSET Blob : Packs(bs) \subseteq Used
           /\ \A p \in Pack : p \in Used <=> holds[p] # {}
           /\ \A b \in Blob : b \in Used <=> b \in made
  BY PackNotBlob DEF Names, StoredBlobs, StoredPacks, Used, Packs, Effective, TypeOK, Object

\* Every step keeps Names.
LEMMA NamesStep ==
    ASSUME TypeOK, TypeOK', Names, StepEffect
    PROVE  Names'
<1>1. ObjectsChange /\ MarksChange /\ NamesKept /\ BlobsChange
  BY DEF StepEffect, RepoMove
<1>2. Used \subseteq Used' /\ Used \subseteq Object
  BY <1>1 DEF NamesKept, Used, TypeOK, Object
<1>3. \A o \in Object : stored'[o] # Absent \/ mark'[o] # Absent => o \in Used'
  BY <1>1, <1>2 DEF Names, ObjectsChange, MarksChange
<1>4. \A o \in Object : stored'[o] <= now'
  <2> SUFFICES ASSUME NEW o \in Object PROVE stored'[o] <= now'
    OBVIOUS
  <2>1. stored[o] <= now /\ stored[o] \in Int /\ now <= now' /\ now \in Nat /\ now' \in Nat
    BY ClockStep, StampFacts DEF Names, TypeOK
  <2> QED BY <1>1, <2>1 DEF ObjectsChange
<1>5. toDelete' \cup toMark' \subseteq Used'
  <2>1. CASE PruneDecides
    <3>1. \A o \in toDelete' \cup toMark' :
              o \in Object /\ (mark[o] # Absent \/ stored[o] # Absent)
      BY <2>1 DEF PruneDecides, Deletable
    <3> QED BY <1>2, <3>1 DEF Names
  <2>2. CASE ~PruneDecides
    <3>1. toDelete' \subseteq toDelete /\ toMark' \subseteq toMark
      BY <2>2 DEF StepEffect, PruneMove, PruneKeeps, PruneLoads, PruneWalks, PruneRepacks,
                  PruneRewrites, PruneExecutes, PruneEnds
    <3> QED BY <1>2, <3>1 DEF Names
  <2> QED BY <2>1, <2>2
<1>6. /\ blobs' \cup rblobs' \subseteq made'
      /\ rpacks' \cup newPacks' \subseteq Used'
  <2>1. made \subseteq made'
    BY <1>1 DEF BlobsChange, BlobPut
  <2>2. blobs' \subseteq blobs \cup StoredBlobs
    BY DEF StepEffect, PruneMove, PruneKeeps, PruneLoads, PruneWalks, PruneDecides,
           PruneRepacks, PruneRewrites, PruneExecutes, PruneEnds
  <2>3. newPacks' \subseteq newPacks \cup Used'
    BY DEF StepEffect, PruneMove, PruneKeeps, PruneLoads, PruneWalks, PruneDecides,
           PruneRepacks, PruneRewrites, PruneExecutes, PruneEnds
  <2>4. rblobs' \subseteq rblobs \cup StoredBlobs /\ rpacks' \subseteq rpacks \cup StoredPacks
    BY DEF StepEffect, RebuildMove, RebuildKeeps, RebuildLists, RebuildEnds, rebuildVars
  <2> QED BY <1>2, <2>1, <2>2, <2>3, <2>4, StoredNames DEF Names
<1>7. \A b \in Blob : /\ lists'[b] \subseteq Used' /\ supersedes'[b] \subseteq made'
                      /\ b \in made' \/ (lists'[b] = {} /\ supersedes'[b] = {})
  <2>1. CASE UNCHANGED <<made, lists, supersedes>>
    BY <1>2, <2>1 DEF Names
  <2>2. ASSUME NEW b \in Blob, BlobPut(b),
               NEW d \in Blob
        PROVE  /\ lists'[d] \subseteq Used' /\ supersedes'[d] \subseteq made'
               /\ d \in made' \/ (lists'[d] = {} /\ supersedes'[d] = {})
    <3>1. CASE d # b
      BY <1>2, <2>2, <3>1 DEF BlobPut, Names
    <3>2. lists'[b] \subseteq Used
      <4>1. Packs(blobs) \subseteq Used
        BY StoredNames DEF TypeOK
      <4> QED BY <2>2, <4>1 DEF BlobPut, NewIndex, Names
    <3>3. supersedes'[b] \subseteq made /\ b \in made' /\ made \subseteq made'
      BY <2>2 DEF BlobPut, Names
    <3> QED BY <1>2, <3>1, <3>2, <3>3
  <2> QED BY <1>1, <2>1, <2>2 DEF BlobsChange
<1>8. target' \subseteq Used'
  <2>1. target' \subseteq target \cup toDelete
    BY DEF StepEffect, PruneMove, PruneKeeps, PruneLoads, PruneWalks, PruneDecides,
           PruneRepacks, PruneRewrites, PruneExecutes, PruneEnds
  <2> QED BY <1>2, <2>1 DEF Names
<1>9. ASSUME NEW c \in Client
      PROVE  own'[c] \subseteq Used' /\ \A r \in reuse'[c] : r[1] \in holds'[r[2]]
  <2>1. ClientMove(c)
    BY DEF StepEffect
  <2>2. own'[c] \subseteq own[c] \cup Used'
    BY <2>1 DEF ClientMove, KeepClient, KeepGate, KeepRun, Ends, Begins, ListsMarks, LoadsIndex,
                Uploads, WritesIndex, Checks, ListsGate, Resolves, Heads
  <2>3. reuse'[c] = reuse[c] \/ reuse'[c] = {} \/ reuse'[c] = Reusable(c)
    BY <2>1 DEF ClientMove, KeepClient, KeepGate, KeepRun, Ends, Begins, ListsMarks, LoadsIndex,
                Uploads, WritesIndex, Checks, ListsGate, Resolves, Heads
  <2>4. ASSUME NEW r \in reuse'[c] PROVE r[1] \in holds'[r[2]]
    <3>1. r[1] \in holds[r[2]]
      BY <2>3, <2>4, ReusableFacts DEF Names
    <3>2. r[2] \in Pack
      BY <2>4 DEF TypeOK
    <3> QED BY <1>1, <3>1, <3>2 DEF NamesKept
  <2> QED BY <1>2, <2>2, <2>4 DEF Names
<1> QED BY <1>3, <1>4, <1>5, <1>6, <1>7, <1>8, <1>9 DEF Names

\* Every step keeps PruneTimes.
LEMMA PruneTimesStep ==
    ASSUME TypeOK, TypeOK', Names, PruneTimes, StepEffect
    PROVE  PruneTimes'
<1>1. now \in Nat /\ now' \in Nat /\ now <= now' /\ PruneMove /\ ObjectsChange /\ MarksChange
  BY ClockStep DEF StepEffect, RepoMove
<1> USE ConstantsAssumption
<1>2. ppc' \in {"walk", "plan"} => pnow' <= now' + PruneOffset
  <2>1. pnow \in Int
    BY DEF TypeOK
  <2>2. CASE ppc' \in {"walk", "plan"}
    <3>1. \/ pnow' = now + PruneOffset
          \/ pnow' = pnow /\ ppc \in {"walk", "plan"}
      BY <1>1, <2>2 DEF PruneMove, PruneKeeps, PruneLoads, PruneWalks, PruneDecides,
             PruneRepacks, PruneRewrites, PruneExecutes, PruneEnds
    <3> QED BY <1>1, <2>1, <3>1 DEF PruneTimes
  <2> QED BY <2>2
<1>3. ASSUME NEW o \in toDelete'
      PROVE  mark'[o] # Absent /\ mark'[o] + PruneGrace <= now' + PruneOffset
  <2>1. mark'[o] = mark[o]
    BY <1>1, <1>3 DEF MarksChange, TypeOK
  <2>2. mark[o] \in Int /\ pnow \in Int
    BY <1>3, StampFacts DEF TypeOK
  <2>3. o \in toDelete \/ (ppc = "plan" /\ Deletable(o))
    BY <1>1, <1>3 DEF PruneMove, PruneKeeps, PruneLoads, PruneWalks, PruneDecides,
           PruneRepacks, PruneRewrites, PruneExecutes, PruneEnds
  <2>4. mark[o] # Absent /\ mark[o] + PruneGrace <= now + PruneOffset
    BY <1>1, <2>2, <2>3 DEF PruneTimes, Deletable
  <2> QED BY <1>1, <2>1, <2>2, <2>4
<1>4. ASSUME NEW p \in target' PROVE stored'[p] = Absent
  <2>1. p \in Object /\ (p \in target \/ stored'[p] = Absent)
    BY <1>1, <1>4 DEF PruneMove, PruneKeeps, PruneLoads, PruneWalks, PruneDecides,
           PruneRepacks, PruneRewrites, PruneExecutes, PruneEnds, TypeOK, Object
  <2> QED BY <1>1, <2>1 DEF PruneTimes, Names, ObjectsChange
<1> QED BY <1>2, <1>3, <1>4 DEF PruneTimes

-----------------------------------------------------------------------------
(***************************************************************************)
(* The index.                                                              *)
(***************************************************************************)
LEMMA EffFacts ==
    /\ Eff \subseteq StoredBlobs
    /\ \A b \in Blob : b \in StoredBlobs <=> stored[b] # Absent
    /\ \A bs : \A b : b \in Effective(bs) <=> b \in bs /\ \A d \in bs : b \notin supersedes[d]
    /\ \A p : p \in Indexed <=> \E e \in Eff : p \in lists[e]
  BY DEF Eff, Effective, StoredBlobs, Indexed, Packs

\* The blobs that count change only when a blob is written.
LEMMA EffStep ==
    ASSUME TypeOK, TypeOK', Names, IndexShape, StepEffect
    PROVE  \/ UNCHANGED <<made, lists, supersedes>> /\ Eff' = Eff /\ StoredBlobs' \subseteq StoredBlobs
           \/ \E b \in Blob : /\ BlobPut(b) /\ b \notin Used /\ stored[b] = Absent
                              /\ StoredBlobs' = StoredBlobs \cup {b}
                              /\ supersedes'[b] \subseteq made
                              /\ Eff' = {b} \cup (Eff \ supersedes'[b])
<1>1. ObjectsChange /\ BlobsChange
  BY DEF StepEffect, RepoMove
<1>2. CASE UNCHANGED <<made, lists, supersedes>>
  <2>1. ASSUME NEW b \in Blob
        PROVE  stored'[b] = stored[b] \/ (b \in toDelete /\ stored'[b] = Absent)
    <3>1. b \in Object /\ (b \in Used <=> b \in made) /\ (b \in Used' <=> b \in made')
      BY PackNotBlob DEF Used, Object
    <3> QED BY <1>1, <1>2, <3>1 DEF ObjectsChange
  <2>2. StoredBlobs' \subseteq StoredBlobs /\ StoredBlobs \ StoredBlobs' \subseteq toDelete
    BY <2>1 DEF StoredBlobs
  <2>3. Eff \subseteq StoredBlobs'
    BY <2>2, EffFacts DEF IndexShape
  <2>4. Eff' = Effective(StoredBlobs')
    BY <1>2 DEF Eff, Effective, StoredBlobs
  <2>5. Eff \subseteq Eff'
    BY <2>2, <2>3, <2>4 DEF Eff, Effective
  <2>6. ASSUME NEW b \in Eff' PROVE b \in Eff
    <3>1. b \in StoredBlobs /\ \A d \in StoredBlobs' : b \notin supersedes[d]
      BY <2>2, <2>4 DEF Effective
    <3>2. \A e \in Eff : b \notin supersedes[e]
      BY <2>3, <3>1
    <3> QED BY <3>1, <3>2 DEF IndexShape
  <2> QED BY <1>2, <2>2, <2>5, <2>6
<1>3. ASSUME NEW b \in Blob, BlobPut(b)
      PROVE  /\ b \notin Used /\ stored[b] = Absent
             /\ StoredBlobs' = StoredBlobs \cup {b}
             /\ supersedes'[b] \subseteq made
             /\ Eff' = {b} \cup (Eff \ supersedes'[b])
  <2>1. /\ b \notin made /\ b \in Object /\ b \notin Used /\ stored[b] = Absent
        /\ \A d \in Blob \ {b} : stored'[d] = stored[d] /\ supersedes'[d] = supersedes[d]
        /\ stored'[b] = now /\ now # Absent
    BY <1>3, PackNotBlob DEF BlobPut, Used, Object, TypeOK, Names
  <2>2. StoredBlobs' = StoredBlobs \cup {b} /\ b \notin StoredBlobs
    BY <2>1 DEF StoredBlobs
  <2>3. supersedes'[b] \subseteq made
    BY <1>3 DEF BlobPut, Names
  <2>4. \A d \in StoredBlobs : b \notin supersedes[d]
    BY <2>1 DEF Names, StoredBlobs
  <2>5. \A d : d \in Eff' <=> d \in StoredBlobs' /\ \A e \in StoredBlobs' : d \notin supersedes'[e]
    BY DEF Eff, Effective
  <2>6. \A d : d \in Eff <=> d \in StoredBlobs /\ \A e \in StoredBlobs : d \notin supersedes[e]
    BY DEF Eff, Effective
  <2>7. \A d \in StoredBlobs : d # b /\ supersedes'[d] = supersedes[d]
    BY <2>1, <2>2 DEF StoredBlobs
  <2> QED BY <2>1, <2>2, <2>3, <2>4, <2>5, <2>6, <2>7
<1> QED BY <1>1, <1>2, <1>3 DEF BlobsChange

\* A stored pack leaves the index only when prune rewrites the index to delete
\* the pack.
LEMMA IndexedStep ==
    ASSUME TypeOK, TypeOK', Names, IndexShape, PruneIndex, RebuildIndex, StepEffect,
           NEW p \in Indexed \cap StoredPacks
    PROVE  p \in Indexed' \/ (p \in toDelete /\ ppc = "repack" /\ ppc' = "execute")
<1>1. PICK e \in Eff : p \in lists[e]
  BY EffFacts
<1>2. e \in StoredBlobs /\ e \in made /\ e \in Blob
  BY <1>1, EffFacts, StoredNames DEF StoredBlobs
<1>3. \A d : d \in Eff' /\ p \in lists'[d] => p \in Indexed'
  BY DEF Eff, Indexed, Packs
<1>4. CASE Eff' = Eff /\ lists' = lists
  BY <1>1, <1>3, <1>4
<1>5. ASSUME NEW b \in Blob, BlobPut(b), Eff' = {b} \cup (Eff \ supersedes'[b])
      PROVE  p \in Indexed' \/ (p \in toDelete /\ ppc = "repack" /\ ppc' = "execute")
  <2>1. lists'[e] = lists[e]
    BY <1>2, <1>5 DEF BlobPut
  <2>2. CASE e \notin supersedes'[b]
    BY <1>1, <1>3, <1>5, <2>1, <2>2
  <2>3. CASE e \in supersedes'[b] /\ ppc = "repack" /\ ppc' = "execute"
             /\ lists'[b] = NewIndex /\ supersedes'[b] = blobs
    <3>1. blobs \subseteq StoredBlobs /\ phantoms \cap StoredPacks = {}
      BY <2>3 DEF PruneIndex, Planning
    <3>2. e \in Effective(blobs)
      BY <1>1, <2>3, <3>1, EffFacts DEF Eff
    <3>3. p \in Packs(blobs) \ phantoms
      BY <1>1, <3>1, <3>2 DEF Packs
    <3>4. p \in lists'[b] \/ p \in toDelete
      BY <2>3, <3>3 DEF NewIndex, DeletedPacks
    <3> QED BY <1>3, <1>5, <2>3, <3>4
  <2>4. CASE e \in supersedes'[b] /\ rpc = "write" /\ lists'[b] = rpacks
             /\ supersedes'[b] = rblobs
    <3>1. p \in rpacks
      BY <1>1, <2>4 DEF RebuildIndex
    <3> QED BY <1>3, <1>5, <2>4, <3>1
  <2> QED BY <1>5, <2>2, <2>3, <2>4 DEF BlobPut
<1> QED BY <1>4, <1>5, EffStep

\* Every step keeps IndexShape: a blob is superseded by one that counts.
LEMMA IndexShapeStep ==
    ASSUME TypeOK, TypeOK', Names, IndexShape, PruneIndex, RebuildIndex, StepEffect
    PROVE  IndexShape'
<1>1. \A b \in (StoredBlobs \ Eff)' : \E e \in Eff' : b \in supersedes'[e]
  <2>1. CASE UNCHANGED <<made, lists, supersedes>> /\ Eff' = Eff /\ StoredBlobs' \subseteq StoredBlobs
    BY <2>1 DEF IndexShape
  <2>2. ASSUME NEW b \in Blob, BlobPut(b), StoredBlobs' = StoredBlobs \cup {b},
               Eff' = {b} \cup (Eff \ supersedes'[b]),
               NEW d \in StoredBlobs', d \notin Eff'
        PROVE  \E e \in Eff' : d \in supersedes'[e]
    <3>1. d \in StoredBlobs /\ b \in Eff'
      BY <2>2
    <3>2. CASE d \in Eff
      BY <2>2, <3>1, <3>2
    <3>3. CASE d \notin Eff
      <4>1. PICK e \in Eff : d \in supersedes[e]
        BY <3>1, <3>3 DEF IndexShape
      <4>2. e \in Blob /\ e # b /\ supersedes'[e] = supersedes[e]
        BY <2>2, <4>1, EffFacts, StoredNames DEF BlobPut, StoredBlobs
      <4>3. CASE e \notin supersedes'[b]
        BY <2>2, <4>1, <4>2, <4>3
      <4>4. CASE e \in supersedes'[b]
        <5>1. Closed(supersedes'[b])
          BY <2>2, <4>4 DEF BlobPut, PruneIndex, RebuildIndex, Planning
        <5> QED BY <3>1, <4>1, <4>4, <5>1 DEF Closed
      <4> QED BY <4>3, <4>4
    <3> QED BY <3>2, <3>3
  <2> QED BY <2>1, <2>2, EffStep
<1>2. ASSUME NEW b \in Eff', b \in toDelete' PROVE FALSE
  <2>1. CASE PruneDecides
    <3>1. Eff' = Eff
      BY <2>1 DEF PruneDecides, RepoKept, Eff, Effective, StoredBlobs
    <3>2. b \in StoredBlobs /\ mark[b] # Absent /\ b \notin Effective(blobs)
      BY <1>2, <2>1, <3>1, EffFacts DEF PruneDecides, Deletable, IsLive
    <3>3. b \in blobs /\ blobs \subseteq StoredBlobs
      BY <2>1, <3>2 DEF PruneDecides, PruneIndex, Planning
    <3>4. PICK d \in blobs : b \in supersedes[d]
      BY <3>2, <3>3, EffFacts
    <3> QED BY <1>2, <3>1, <3>3, <3>4, EffFacts DEF Eff
  <2>2. CASE ~PruneDecides
    <3>1. b \in toDelete
      BY <1>2, <2>2 DEF StepEffect, PruneMove, PruneKeeps, PruneLoads, PruneWalks,
             PruneRepacks, PruneRewrites, PruneExecutes, PruneEnds
    <3>2. b \in Eff \/ b \notin Used
      BY <1>2, EffStep
    <3> QED BY <3>1, <3>2 DEF IndexShape, Names
  <2> QED BY <2>1, <2>2
<1> QED BY <1>1, <1>2 DEF IndexShape

\* While prune plans, nothing that is known is deleted.
LEMMA PlanningKeeps ==
    ASSUME TypeOK, Names, StepEffect, ppc' \notin {"execute", "deleteParity"}
    PROVE  /\ \A o \in Used : stored'[o] = stored[o]
           /\ \A o \in Object : o \notin Used => stored[o] = Absent
           /\ StoredBlobs' \cap made = StoredBlobs /\ StoredPacks' \cap Used = StoredPacks
           /\ \A o \in Object : mark'[o] = mark[o]
<1>1. \A o \in Used : stored'[o] = stored[o]
  BY DEF StepEffect, RepoMove, ObjectsChange, Used, TypeOK, Object
<1>2. \A o \in Object : o \notin Used => stored[o] = Absent
  BY DEF Names
<1>3. \A o \in Object : mark'[o] = mark[o]
  BY DEF StepEffect, RepoMove, MarksChange
<1>4. StoredBlobs' \cap made = StoredBlobs /\ StoredPacks' \cap Used = StoredPacks
  <2>1. made \subseteq Used /\ made \subseteq Blob /\ Blob \cup Pack = Object
    BY DEF Used, TypeOK, Object
  <2> QED BY <1>1, <2>1, StoredNames DEF StoredBlobs, StoredPacks
<1> QED BY <1>1, <1>2, <1>3, <1>4

\* What prune has loaded of the index is not changed under it.
LEMMA LoadedKept ==
    ASSUME TypeOK, Names, StepEffect, blobs' = blobs
    PROVE  /\ Packs(blobs)' = Packs(blobs)
           /\ \A b \in blobs : lists'[b] = lists[b] /\ supersedes'[b] = supersedes[b]
<1>1. \A b \in blobs : lists'[b] = lists[b] /\ supersedes'[b] = supersedes[b]
  BY DEF StepEffect, RepoMove, NamesKept, Names
<1> QED BY <1>1 DEF Packs, Effective

\* Every step keeps PruneIndex.
LEMMA PruneIndexStep ==
    ASSUME TypeOK, TypeOK', Names, Names', IndexShape, PruneIndex, RebuildIndex, StepEffect
    PROVE  PruneIndex'
<1>0. PruneMove
  BY DEF StepEffect
<1>1. ASSUME ppc' \in Planning
      PROVE  /\ blobs' \subseteq StoredBlobs' /\ Closed(blobs)'
             /\ Packs(blobs)' \cap StoredPacks' \subseteq Indexed'
  <2>1. CASE PruneLoads
    <3>1. blobs' = StoredBlobs'
      BY <2>1 DEF PruneLoads, RepoKept, StoredBlobs
    <3> QED BY <3>1 DEF Closed, Indexed
  <2>2. CASE ~PruneLoads
    <3>1. ppc \in Planning /\ blobs' = blobs
      BY <1>0, <1>1, <2>2 DEF Planning, PruneMove, PruneKeeps, PruneWalks, PruneDecides,
             PruneRepacks, PruneRewrites, PruneExecutes, PruneEnds
    <3>2. /\ \A o \in Used : stored'[o] = stored[o]
          /\ StoredBlobs' \cap made = StoredBlobs /\ StoredPacks' \cap Used = StoredPacks
      BY <1>1, PlanningKeeps DEF Planning
    <3>3. /\ blobs \subseteq StoredBlobs /\ Closed(blobs) /\ blobs \subseteq made
          /\ Packs(blobs) \cap StoredPacks \subseteq Indexed
      BY <3>1 DEF PruneIndex, Names
    <3>4. blobs' \subseteq StoredBlobs'
      BY <3>1, <3>2, <3>3
    <3>5. Closed(blobs)'
      <4> SUFFICES ASSUME NEW b \in blobs, NEW d \in supersedes'[b], d \in StoredBlobs'
                   PROVE  d \in blobs
        BY <3>1 DEF Closed
      <4>1. d \in supersedes[b] /\ b \in Blob
        BY <3>1, LoadedKept DEF TypeOK
      <4>2. d \in made
        BY <4>1 DEF Names
      <4> QED BY <3>2, <3>3, <4>1, <4>2 DEF Closed
    <3>6. Packs(blobs)' \cap StoredPacks' \subseteq Indexed'
      <4> SUFFICES ASSUME NEW p \in Packs(blobs), p \in StoredPacks' PROVE p \in Indexed'
        BY <3>1, LoadedKept
      <4>1. p \in Used
        BY StoredNames DEF TypeOK
      <4>2. p \in Indexed \cap StoredPacks
        BY <3>2, <3>3, <4>1
      <4> QED BY <1>1, <4>2, IndexedStep DEF Planning
    <3> QED BY <3>4, <3>5, <3>6
  <2> QED BY <2>1, <2>2
<1>2. ASSUME ppc' \in {"walk", "plan"}, NEW b \in StoredBlobs', mark'[b] # Absent
      PROVE  b \in blobs'
  <2>1. b \in Blob /\ b \in Object /\ mark'[b] = mark[b]
    BY <1>2, PlanningKeeps DEF StoredBlobs, Object
  <2>2. b \in made /\ b \in StoredBlobs
    <3>1. b \in Used
      BY <1>2, <2>1 DEF Names
    <3> QED BY <1>2, <2>1, <3>1, StoredNames, PlanningKeeps
  <2>3. CASE PruneLoads
    BY <2>2, <2>3 DEF PruneLoads
  <2>4. CASE ~PruneLoads
    <3>1. ppc \in {"walk", "plan"} /\ blobs' = blobs
      BY <1>0, <1>2, <2>4 DEF PruneMove, PruneKeeps, PruneWalks, PruneDecides,
             PruneRepacks, PruneRewrites, PruneExecutes, PruneEnds
    <3> QED BY <1>2, <2>1, <2>2, <3>1 DEF PruneIndex
  <2> QED BY <2>3, <2>4
<1>3. ASSUME ppc' = "repack"
      PROVE  /\ phantoms' \subseteq Used' \ StoredPacks'
             /\ Packs(blobs)' \ phantoms' \subseteq StoredPacks'
             /\ newPacks' \subseteq StoredPacks' \ toDelete'
  <2>1. /\ blobs' = blobs
        /\ \/ PruneDecides
           \/ ppc = "repack" /\ phantoms' = phantoms /\ toDelete' = toDelete
    BY <1>0, <1>3 DEF PruneMove, PruneKeeps, PruneLoads, PruneWalks, PruneDecides,
             PruneRepacks, PruneRewrites, PruneExecutes, PruneEnds
  <2>2. /\ Used \subseteq Used' /\ StoredPacks' \cap Used = StoredPacks
        /\ Packs(blobs)' = Packs(blobs) /\ Packs(blobs) \subseteq Pack \cap Used
    BY <1>3, <2>1, PlanningKeeps, LoadedKept, StoredNames, PacksType
       DEF StepEffect, RepoMove, NamesKept, TypeOK
  <2>3. CASE PruneDecides
    <3>1. newPacks' = {} /\ phantoms' = PhantomPacks
      BY <2>3 DEF PruneDecides, PruneIndex
    <3> QED BY <2>2, <3>1 DEF PhantomPacks, StoredPacks
  <2>4. CASE ppc = "repack" /\ phantoms' = phantoms /\ toDelete' = toDelete
    <3>1. /\ phantoms \subseteq Used \ StoredPacks /\ Packs(blobs) \ phantoms \subseteq StoredPacks
          /\ newPacks \subseteq StoredPacks \ toDelete
      BY <2>4 DEF PruneIndex
    <3>2. \A p \in newPacks' : p \in newPacks \/ (p \notin Used /\ stored'[p] = now)
      BY <1>0, <1>3, <2>4 DEF PruneMove, PruneKeeps, PruneLoads, PruneWalks, PruneDecides,
             PruneRepacks, PruneRewrites, PruneExecutes, PruneEnds
    <3>3. newPacks' \subseteq Pack /\ now # Absent /\ toDelete \subseteq Used
      BY DEF TypeOK, Names
    <3>4. newPacks' \subseteq StoredPacks' \ toDelete
      BY <2>2, <3>1, <3>2, <3>3 DEF StoredPacks
    <3> QED BY <2>2, <2>4, <3>1, <3>4
  <2> QED BY <2>1, <2>3, <2>4
<1>4. ppc' # "repack" => newPacks' = {}
  BY <1>0 DEF PruneIndex, PruneMove, PruneKeeps, PruneLoads, PruneWalks, PruneDecides,
             PruneRepacks, PruneRewrites, PruneExecutes, PruneEnds
<1> QED BY <1>1, <1>2, <1>3, <1>4 DEF PruneIndex

\* Every step keeps RebuildIndex.
LEMMA RebuildIndexStep ==
    ASSUME TypeOK, TypeOK', Names, RebuildIndex, StepEffect
    PROVE  RebuildIndex'
<1>0. RebuildMove
  BY DEF StepEffect
<1>1. /\ \A b \in made : lists'[b] = lists[b] /\ supersedes'[b] = supersedes[b]
      /\ StoredBlobs' \cap made \subseteq StoredBlobs
      /\ StoredPacks' \cap Used \subseteq StoredPacks
  <2>1. NamesKept /\ \A o \in Used : stored'[o] # Absent => stored[o] # Absent
    BY DEF StepEffect, RepoMove, ObjectsChange, Used, TypeOK, Object
  <2> QED BY <2>1 DEF NamesKept, StoredBlobs, StoredPacks, Used
<1>2. ASSUME rpc' # "idle" PROVE Rebuilds /\ Closed(rblobs)'
  <2>1. CASE RebuildLists /\ rpc = "idle"
    BY <2>1 DEF RebuildLists, RepoKept, Closed, StoredBlobs
  <2>2. CASE ~(RebuildLists /\ rpc = "idle")
    <3>1. rpc # "idle" /\ rblobs' = rblobs
      BY <1>0, <1>2, <2>2 DEF RebuildMove, RebuildKeeps, RebuildLists, RebuildEnds, rebuildVars
    <3>2. Rebuilds /\ Closed(rblobs) /\ rblobs \subseteq made
      BY <3>1 DEF RebuildIndex, Names
    <3> SUFFICES ASSUME NEW b \in rblobs, NEW d \in supersedes'[b], d \in StoredBlobs'
                 PROVE  d \in rblobs
      BY <3>1, <3>2 DEF Closed
    <3>3. b \in Blob /\ d \in supersedes[b]
      BY <1>1, <3>2 DEF TypeOK
    <3>4. d \in made
      BY <3>3 DEF Names
    <3> QED BY <1>1, <3>2, <3>3, <3>4 DEF Closed
  <2> QED BY <2>1, <2>2
<1>3. ASSUME rpc' \in {"read", "write"}, NEW b \in rblobs'
      PROVE  lists'[b] \cap StoredPacks' \subseteq rpacks'
  <2>1. rblobs' = rblobs /\ rblobs \subseteq made
    BY <1>0, <1>3 DEF Names, RebuildMove, RebuildKeeps, RebuildLists, RebuildEnds, rebuildVars
  <2>2. b \in Blob /\ lists'[b] = lists[b] /\ lists[b] \subseteq Used
    BY <1>1, <1>3, <2>1 DEF TypeOK, Names
  <2>3. \/ rpc \in {"read", "write"} /\ rpacks' = rpacks
        \/ rpacks' = StoredPacks
    BY <1>0, <1>3 DEF RebuildMove, RebuildKeeps, RebuildLists, RebuildEnds, rebuildVars
  <2>4. CASE rpc \in {"read", "write"} /\ rpacks' = rpacks
    BY <1>1, <1>3, <2>1, <2>2, <2>4 DEF RebuildIndex
  <2>5. CASE rpacks' = StoredPacks
    BY <1>1, <2>2, <2>5
  <2> QED BY <2>3, <2>4, <2>5
<1> QED BY <1>2, <1>3 DEF RebuildIndex

-----------------------------------------------------------------------------
(***************************************************************************)
(* The backups.                                                            *)
(***************************************************************************)
LEMMA MarginFacts == Margin \in Int /\ 0 <= Margin
  BY ConstantsAssumption DEF Margin

\* A backup in its gate is younger than prune's grace.
LEMMA GateInTime ==
    ASSUME TypeOK, TimingSound, NEW c \in Client, Deadlines(c), bpc[c] \in InGate
    PROVE  Young(c)
<1>1. /\ checkedAt[c] \in Nat /\ started[c] \in Nat /\ now \in Nat
      /\ checkedAt[c] - started[c] + Margin < BackupGrace
      /\ now <= checkedAt[c] + MaxStall
  BY DEF Deadlines, TypeOK
<1> QED BY <1>1, MarginFacts, ConstantsAssumption DEF TimingSound, Young

\* A backup within one grace is within two.
LEMMA YoungIsFresh ==
    ASSUME TypeOK, NEW c \in Client, Deadlines(c), Young(c)
    PROVE  Fresh(c)
<1>1. started[c] \in Nat /\ now \in Nat /\ started[c] <= now
  BY DEF Deadlines, TypeOK
<1> QED BY <1>1, ConstantsAssumption DEF Young, Fresh

\* prune deletes no pack of a fresh backup.
LEMMA OwnNotDeleted ==
    ASSUME TypeOK, PruneTimes, NEW c \in Client, OwnPacks(c), Fresh(c), NEW p \in own[c]
    PROVE  p \notin toDelete
<1> SUFFICES ASSUME p \in toDelete PROVE FALSE
  OBVIOUS
<1>1. /\ mark[p] # Absent /\ mark[p] + PruneGrace <= now + PruneOffset
      /\ mark[p] + PruneOffset >= started[c] + PruneGrace
  BY DEF PruneTimes, OwnPacks
<1>2. mark[p] \in Int /\ started[c] \in Int /\ now \in Int
  BY StampFacts DEF TypeOK
<1> QED BY <1>1, <1>2, ConstantsAssumption DEF Fresh

\* Every step keeps OwnPacks: prune marks a pack of a backup late and deletes
\* it a grace later.
LEMMA OwnPacksStep ==
    ASSUME IInv, TypeOK', StepEffect, NEW c \in Client
    PROVE  OwnPacks(c)'
<1>0. /\ TypeOK /\ Names /\ PruneTimes /\ IndexShape /\ PruneIndex /\ RebuildIndex
      /\ OwnPacks(c) /\ Deadlines(c)
  BY DEF IInv
<1>1. /\ PruneMove /\ ClientMove(c) /\ ObjectsChange /\ MarksChange /\ Used \subseteq Used'
  BY DEF StepEffect, RepoMove, NamesKept
<1>2. now \in Nat /\ now' \in Nat /\ now <= now'
  BY <1>0, ClockStep
<1> SUFFICES ASSUME NEW p \in own'[c]
             PROVE  (/\ stored[p] # Absent => stored[p] >= started[c]
                     /\ p \in toMark => now + PruneOffset >= started[c] + PruneGrace
                     /\ mark[p] # Absent => mark[p] + PruneOffset >= started[c] + PruneGrace
                     /\ Fresh(c) => stored[p] # Absent
                     /\ Fresh(c) /\ bpc[c] \in {"ready"} \cup InGate => p \in Indexed)'
  BY DEF OwnPacks
<1>3. p \in Object /\ p \in Pack
  BY DEF TypeOK, Object
<1>4. /\ stored[p] \in Int /\ mark[p] \in Int /\ stored'[p] \in Int /\ mark'[p] \in Int
      /\ started[c] \in Nat /\ pnow \in Int
  BY <1>0, <1>3, StampFacts DEF TypeOK
<1>5. started'[c] = started[c]
  BY <1>0, <1>1 DEF Deadlines, ClientMove, KeepClient, KeepGate, KeepRun, Ends, Begins,
         ListsMarks, LoadsIndex, Uploads, WritesIndex, Checks, ListsGate, Resolves, Heads
<1> USE ConstantsAssumption
<1>6. CASE p \in own[c]
  <2>1. p \in Used
    BY <1>0, <1>6 DEF Names
  <2>2. stored'[p] = stored[p] \/ (stored'[p] = Absent /\ p \in toDelete)
    BY <1>1, <1>3, <2>1 DEF ObjectsChange
  <2>3. stored'[p] # Absent => stored'[p] >= started[c]
    BY <1>0, <1>6, <2>2 DEF OwnPacks
  <2>4. p \in toMark' => now + PruneOffset >= started[c] + PruneGrace
    <3>1. CASE p \in toMark
      BY <1>0, <1>6, <3>1 DEF OwnPacks
    <3>2. CASE p \in toMark' /\ p \notin toMark
      <4>1. PruneDecides
        BY <1>1, <3>2 DEF PruneMove, PruneKeeps, PruneLoads, PruneWalks,
             PruneRepacks, PruneRewrites, PruneExecutes, PruneEnds
      <4>2. stored[p] # Absent /\ stored[p] + PruneGrace <= pnow /\ pnow <= now + PruneOffset
        BY <1>0, <3>2, <4>1 DEF PruneDecides, PruneTimes
      <4>3. stored[p] >= started[c]
        BY <1>0, <1>6, <4>2 DEF OwnPacks
      <4> QED BY <1>2, <1>4, <4>2, <4>3
    <3> QED BY <3>1, <3>2
  <2>5. mark'[p] # Absent => mark'[p] + PruneOffset >= started[c] + PruneGrace
    <3>1. \/ mark'[p] = mark[p] \/ mark'[p] = Absent
          \/ p \in toMark /\ mark'[p] = now
      BY <1>1, <1>3 DEF MarksChange
    <3> QED BY <1>0, <1>6, <3>1 DEF OwnPacks
  <2>6. Fresh(c)' => Fresh(c)
    BY <1>2, <1>4, <1>5 DEF Fresh
  <2>7. Fresh(c) => stored'[p] # Absent
    BY <1>0, <1>6, <2>2, OwnNotDeleted DEF OwnPacks
  <2>8. ASSUME Fresh(c), bpc'[c] \in {"ready"} \cup InGate
        PROVE  p \in Indexed'
    <3>1. CASE bpc[c] \in {"ready"} \cup InGate
      <4>1. p \in Indexed \cap StoredPacks
        BY <1>0, <1>3, <1>6, <2>8, <3>1 DEF OwnPacks, StoredPacks
      <4> QED BY <1>0, <1>6, <2>8, <4>1, IndexedStep, OwnNotDeleted
    <3>2. CASE bpc[c] \notin {"ready"} \cup InGate
      <4>1. WritesIndex(c)
        BY <1>1, <1>6, <2>8, <3>2 DEF InGate, ClientMove, KeepClient, Ends, Begins, ListsMarks,
           LoadsIndex, Uploads, Checks, ListsGate, Resolves, Heads
      <4>2. PICK b \in Blob : BlobPut(b) /\ lists'[b] = own[c] /\ supersedes'[b] = {}
        BY <4>1 DEF WritesIndex
      <4>3. b \in Eff'
        BY <1>0, <4>2, EffStep DEF BlobPut, TypeOK
      <4> QED BY <1>6, <4>2, <4>3 DEF Indexed, Packs, Eff
    <3> QED BY <3>1, <3>2
  <2>9. now' + PruneOffset >= started[c] + PruneGrace
            \/ ~(now + PruneOffset >= started[c] + PruneGrace)
    BY <1>2, <1>4
  <2> QED BY <1>5, <2>3, <2>4, <2>5, <2>6, <2>7, <2>8, <2>9
<1>7. CASE p \notin own[c]
  <2>1. Uploads(c) /\ p \notin Used /\ stored'[p] = now
    BY <1>1, <1>7 DEF ClientMove, KeepClient, KeepGate, KeepRun, Ends, Begins,
         ListsMarks, LoadsIndex, Uploads, WritesIndex, Checks, ListsGate, Resolves, Heads
  <2>2. mark[p] = Absent /\ p \notin toMark /\ toMark' = toMark
    BY <1>0, <1>3, <2>1 DEF Names, Uploads, PruneKeeps
  <2>3. mark'[p] = Absent
    BY <1>1, <1>3, <2>2 DEF MarksChange
  <2>4. bpc'[c] \notin {"ready"} \cup InGate
    BY <2>1 DEF Uploads, InGate
  <2>5. started[c] <= now
    BY <1>0 DEF Deadlines
  <2> QED BY <1>2, <1>4, <1>5, <2>1, <2>2, <2>3, <2>4, <2>5
<1> QED BY <1>6, <1>7

\* Every step keeps ReusedMarks.
LEMMA ReusedMarksStep ==
    ASSUME IInv, TypeOK', StepEffect, NEW c \in Client
    PROVE  ReusedMarks(c)'
<1>0. TypeOK /\ Names /\ ReusedMarks(c) /\ Deadlines(c)
  BY DEF IInv
<1>1. ClientMove(c) /\ MarksChange
  BY DEF StepEffect, RepoMove
<1>2. now \in Nat /\ started[c] \in Nat /\ started[c] <= now
  BY <1>0 DEF Deadlines, TypeOK
<1>3. ASSUME NEW p \in Pack, mark[p] = Absent \/ mark[p] >= started[c]
      PROVE  mark'[p] = Absent \/ mark'[p] >= started[c]
  BY <1>1, <1>2, <1>3 DEF MarksChange, Object
<1>4. ASSUME bpc'[c] = "index", NEW p \in Pack \ marked'[c]
      PROVE  mark'[p] = Absent \/ mark'[p] >= started'[c]
  <2>1. /\ started'[c] = started[c]
        /\ \/ bpc[c] = "index" /\ marked'[c] = marked[c]
           \/ marked'[c] = {q \in Pack : mark[q] # Absent}
    BY <1>1, <1>4 DEF ClientMove, KeepClient, KeepGate, KeepRun, Ends, Begins,
         ListsMarks, LoadsIndex, Uploads, WritesIndex, Checks, ListsGate, Resolves, Heads
  <2>2. mark[p] = Absent \/ mark[p] >= started[c]
    BY <1>0, <1>4, <2>1 DEF ReusedMarks
  <2> QED BY <1>3, <2>1, <2>2
<1>5. ASSUME NEW r \in reuse'[c]
      PROVE  mark'[r[2]] = Absent \/ mark'[r[2]] >= started'[c]
  <2>1. r[2] \in Pack
    BY <1>5 DEF TypeOK
  <2>2. /\ started'[c] = started[c]
        /\ r \in reuse[c] \/ (bpc[c] = "index" /\ r \in Reusable(c))
    BY <1>0, <1>1, <1>5 DEF Deadlines, ClientMove, KeepClient, KeepGate, KeepRun, Ends, Begins,
         ListsMarks, LoadsIndex, Uploads, WritesIndex, Checks, ListsGate, Resolves, Heads
  <2>3. mark[r[2]] = Absent \/ mark[r[2]] >= started[c]
    BY <1>0, <2>1, <2>2, ReusableFacts DEF ReusedMarks
  <2> QED BY <1>3, <2>1, <2>2, <2>3
<1> QED BY <1>4, <1>5 DEF ReusedMarks

\* Every step keeps Deadlines.
LEMMA DeadlinesStep ==
    ASSUME IInv, TypeOK', StepEffect, NEW c \in Client
    PROVE  Deadlines(c)'
<1>0. TypeOK /\ Deadlines(c) /\ ClientMove(c)
  BY DEF IInv, StepEffect
<1>1. now \in Nat /\ now' \in Nat /\ now <= now'
  BY <1>0, ClockStep
<1>2. /\ started[c] \in Nat /\ checkedAt[c] \in Nat /\ started'[c] \in Nat
      /\ checkedAt'[c] \in Nat
  BY <1>0 DEF TypeOK
<1> USE ConstantsAssumption
<1>3. CASE Tick /\ now' = now + 1
  <2>1. UNCHANGED <<bpc, started, own, reuse, checkedAt>>
    BY <1>3 DEF Tick, backupVars
  <2>2. /\ bpc[c] \in InGate => now < checkedAt[c] + MaxStall
        /\ bpc[c] # "idle" => now < started[c] + MaxBackup
    BY <1>3 DEF Tick
  <2>3. started[c] <= now' /\ (bpc[c] # "idle" => now' <= started[c] + MaxBackup)
    BY <1>0, <1>1, <1>2, <1>3, <2>2 DEF Deadlines
  <2>4. bpc[c] \in InGate => checkedAt[c] <= now' /\ now' <= checkedAt[c] + MaxStall
    BY <1>0, <1>1, <1>2, <1>3, <2>2 DEF Deadlines
  <2> QED BY <1>0, <2>1, <2>3, <2>4 DEF Deadlines
<1>4. CASE now' = now
  <2>1. CASE KeepClient(c)
    BY <1>0, <1>4, <2>1 DEF Deadlines, KeepClient, KeepGate, KeepRun
  <2>2. CASE Ends(c)
    BY <1>1, <2>2 DEF Deadlines, Ends, InGate
  <2>3. CASE Begins(c)
    BY <1>0, <1>1, <1>4, <2>3 DEF Deadlines, Begins, InGate
  <2>4. CASE ListsMarks(c) \/ LoadsIndex(c) \/ Uploads(c) \/ WritesIndex(c)
    BY <1>0, <1>4, <2>4 DEF Deadlines, KeepRun, ListsMarks, LoadsIndex, Uploads,
                            WritesIndex, InGate
  <2>5. CASE Checks(c)
    <3>1. /\ checkedAt'[c] = now /\ started'[c] = started[c] /\ bpc[c] # "idle"
          /\ bpc'[c] = "gate" /\ now - started[c] + Margin < BackupGrace
      BY <1>1, <1>2, <2>5, MarginFacts DEF Checks, KeepRun, TooLong
    <3> QED BY <1>0, <1>1, <1>2, <1>4, <3>1 DEF Deadlines
  <2>6. CASE ListsGate(c) \/ Resolves(c) \/ Heads(c)
    BY <1>0, <1>4, <2>6 DEF Deadlines, ListsGate, Resolves, Heads, KeepGate, KeepRun, InGate
  <2> QED BY <1>0, <2>1, <2>2, <2>3, <2>4, <2>5, <2>6 DEF ClientMove
<1> QED BY <1>3, <1>4 DEF StepEffect, RepoMove, NamesKept

\* A mark that is late stays so.
LEMMA LateMarkStep ==
    ASSUME IInv, TypeOK', StepEffect, NEW c \in Client, bpc[c] \in InGate,
           checkedAt'[c] = checkedAt[c], NEW p \in Pack, LateMark(c, p)
    PROVE  LateMark(c, p)'
<1>1. \/ mark'[p] = mark[p] \/ mark'[p] = Absent
      \/ mark'[p] = now
  BY DEF StepEffect, RepoMove, MarksChange, Object
<1>2. checkedAt[c] <= now /\ now \in Nat /\ checkedAt[c] \in Nat
  BY DEF IInv, Deadlines, TypeOK
<1> QED BY <1>1, <1>2 DEF LateMark

\* Every step keeps GateSees: the gate sees the expired marks.
LEMMA GateSeesStep ==
    ASSUME IInv, TypeOK', StepEffect, NEW c \in Client
    PROVE  GateSees(c)'
<1> SUFFICES ASSUME bpc'[c] = "gateIndex", NEW p \in Pack
             PROVE  p \in gateExpired'[c] \/ LateMark(c, p)'
  BY DEF GateSees
<1>0. TypeOK /\ GateSees(c)
  BY DEF IInv
<1>1. /\ checkedAt'[c] = checkedAt[c] /\ bpc[c] \in InGate
      /\ \/ bpc[c] = "gateIndex" /\ gateExpired'[c] = gateExpired[c]
         \/ ListsGate(c)
  BY DEF StepEffect, InGate, ClientMove, KeepClient, KeepGate, KeepRun, Ends, Begins,
         ListsMarks, LoadsIndex, Uploads, WritesIndex, Checks, ListsGate, Resolves, Heads
<1>2. p \in gateExpired'[c] \/ LateMark(c, p)
  <2>1. CASE bpc[c] = "gateIndex" /\ gateExpired'[c] = gateExpired[c]
    BY <1>0, <2>1 DEF GateSees
  <2>2. CASE ListsGate(c)
    <3>1. mark[p] \in Int /\ checkedAt[c] \in Int
      BY <1>0, StampFacts DEF TypeOK, Object
    <3>2. ClientOffset[c] \in Int /\ BackupGrace \in Int
      BY ConstantsAssumption
    <3> QED BY <2>2, <3>1, <3>2 DEF ListsGate, LateMark
  <2> QED BY <1>1, <2>1, <2>2
<1> QED BY <1>1, <1>2, LateMarkStep

\* IInv is inductive.
LEMMA IInvStep == IInv /\ [Next]_vars => IInv'
<1> SUFFICES ASSUME IInv, [Next]_vars PROVE IInv'
  OBVIOUS
<1>1. TypeOK /\ Names /\ PruneTimes /\ IndexShape /\ PruneIndex /\ RebuildIndex
  BY DEF IInv
<1>2. TypeOK' /\ StepEffect
  BY <1>1, TypeStep, StepEffects
<1>3. Names'
  BY <1>1, <1>2, NamesStep
<1>4. PruneTimes' /\ IndexShape' /\ PruneIndex' /\ RebuildIndex'
  BY <1>1, <1>2, <1>3, PruneTimesStep, IndexShapeStep, PruneIndexStep, RebuildIndexStep
<1>5. \A c \in Client : OwnPacks(c)' /\ ReusedMarks(c)' /\ Deadlines(c)' /\ GateSees(c)'
  BY <1>2, OwnPacksStep, ReusedMarksStep, DeadlinesStep, GateSeesStep
<1> QED BY <1>2, <1>3, <1>4, <1>5 DEF IInv

\* IInv holds at the start.
LEMMA IInvInit == Init => IInv
<1> SUFFICES ASSUME Init PROVE IInv
  OBVIOUS
<1>1. TypeOK
  BY TypeInit
<1> USE ConstantsAssumption DEF Init, EmptyRepo, Quiet, NoObject
<1>2. StoredBlobs = {} /\ StoredPacks = {}
  BY DEF StoredBlobs, StoredPacks, Object
<1>3. Names /\ PruneTimes /\ RebuildIndex
  BY DEF Names, PruneTimes, RebuildIndex
<1>4. IndexShape /\ PruneIndex
  BY <1>2 DEF IndexShape, PruneIndex, Planning, Eff, Effective
<1>5. \A c \in Client : OwnPacks(c) /\ ReusedMarks(c) /\ Deadlines(c) /\ GateSees(c)
  BY DEF OwnPacks, ReusedMarks, Deadlines, GateSees, InGate
<1> QED BY <1>1, <1>3, <1>4, <1>5 DEF IInv

\* The invariant holds for any constants: it assumes nothing of the clocks.
THEOREM Invariance == Spec => []IInv
<1>1. Init => IInv
  BY IInvInit
<1>2. IInv /\ [Next]_vars => IInv'
  BY IInvStep
<1> QED BY <1>1, <1>2, PTL DEF Spec

-----------------------------------------------------------------------------
(***************************************************************************)
(* The index lists stored packs only.                                      *)
(***************************************************************************)
LEMMA BackupsFresh ==
    ASSUME NoPhantoms, IInv, NEW c \in Client, bpc[c] # "idle"
    PROVE  Fresh(c)
<1>1. started[c] \in Nat /\ now \in Nat /\ now <= started[c] + MaxBackup
  BY DEF IInv, Deadlines, TypeOK
<1> QED BY <1>1, ConstantsAssumption DEF NoPhantoms, Fresh

\* A pack of a running backup is stored, and safe from the prune that runs.
LEMMA FreshPacks ==
    ASSUME IInv, NEW c \in Client, Fresh(c), NEW p \in own[c]
    PROVE  /\ p \in Pack /\ stored[p] # Absent /\ p \notin toDelete
           /\ ppc \in {"walk", "plan"} => mark[p] = Absent \/ mark[p] + PruneGrace > pnow
<1>1. p \in Pack /\ stored[p] # Absent /\ p \notin toDelete
  BY OwnNotDeleted DEF IInv, OwnPacks, TypeOK
<1>2. ASSUME ppc \in {"walk", "plan"}, mark[p] # Absent PROVE mark[p] + PruneGrace > pnow
  <2>1. mark[p] + PruneOffset >= started[c] + PruneGrace /\ pnow <= now + PruneOffset
    BY <1>2 DEF IInv, OwnPacks, PruneTimes
  <2>2. mark[p] \in Int /\ started[c] \in Int /\ now \in Int /\ pnow \in Int
    BY <1>1, StampFacts DEF IInv, TypeOK, Object
  <2> QED BY <2>1, <2>2, ConstantsAssumption DEF Fresh
<1> QED BY <1>1, <1>2

\* Who lists a pack in a new blob: its backup, or prune.
LEMMA NewlyListed ==
    ASSUME NoPhantoms, IInv, NEW b \in Blob, BlobPut(b)
    PROVE  \/ \E c \in Client : lists'[b] = own[c] /\ Fresh(c) /\ supersedes'[b] = {}
           \/ /\ ppc = "repack" /\ ppc' = "execute"
              /\ lists'[b] = NewIndex /\ supersedes'[b] = blobs
<1>1. rpc # "write"
  BY DEF IInv, RebuildIndex, NoPhantoms
<1> QED BY <1>1, BackupsFresh DEF BlobPut

\* Every step keeps IndexAhead: prune rewrites the index before it deletes.
LEMMA IndexAheadStep ==
    ASSUME NoPhantoms, IInv, IInv', StepEffect, IndexAhead
    PROVE  IndexAhead'
<1>0. /\ TypeOK /\ TypeOK' /\ Names /\ PruneTimes /\ IndexShape /\ PruneIndex
      /\ RebuildIndex
  BY DEF IInv
<1>1. PruneMove /\ ObjectsChange /\ MarksChange /\ NamesKept
  BY DEF StepEffect, RepoMove
<1>2. ASSUME NEW p \in Indexed'
      PROVE  \/ p \in Indexed /\ UNCHANGED <<made, lists, supersedes>> /\ Eff' = Eff
             \/ \E b \in Blob : /\ BlobPut(b)
                                /\ \/ p \in lists'[b]
                                   \/ \E e \in Eff \ supersedes'[b] : p \in lists[e]
  <2>1. PICK e \in Eff' : p \in lists'[e]
    BY <1>2 DEF Indexed, Packs, Eff
  <2>2. CASE UNCHANGED <<made, lists, supersedes>> /\ Eff' = Eff
    BY <2>1, <2>2, EffFacts
  <2>3. ASSUME NEW b \in Blob, BlobPut(b), Eff' = {b} \cup (Eff \ supersedes'[b])
        PROVE  p \in lists'[b] \/ \E d \in Eff \ supersedes'[b] : p \in lists[d]
    <3>1. CASE e = b
      BY <2>1, <3>1
    <3>2. CASE e # b
      <4>1. e \in Eff \ supersedes'[b] /\ e \in Blob
        BY <2>1, <2>3, <3>2, EffFacts DEF StoredBlobs
      <4>2. lists'[e] = lists[e]
        BY <2>3, <3>2, <4>1 DEF BlobPut
      <4> QED BY <2>1, <4>1, <4>2
    <3> QED BY <3>1, <3>2
  <2> QED BY <1>0, <2>2, <2>3, EffStep
<1>3. IndexStored'
  <2> SUFFICES ASSUME NEW p \in Indexed' PROVE p \in StoredPacks'
    BY DEF IndexStored
  <2>1. p \in Pack
    BY <1>0 DEF Indexed, Packs, Effective, StoredBlobs, TypeOK
  <2>2. CASE p \in Indexed /\ UNCHANGED <<made, lists, supersedes>>
    <3>1. stored[p] # Absent /\ p \in Object /\ p \in Used
      BY <1>0, <2>2, StoredNames DEF IndexAhead, IndexStored, StoredPacks, Object
    <3>2. ~(p \in toDelete /\ ppc = "execute")
      BY <2>2 DEF IndexAhead
    <3> QED BY <1>1, <2>1, <3>1, <3>2 DEF ObjectsChange, StoredPacks
  <2>3. ASSUME NEW b \in Blob, BlobPut(b),
               p \in lists'[b] \/ \E e \in Eff \ supersedes'[b] : p \in lists[e]
        PROVE  p \in StoredPacks'
    <3>1. stored'[p] = stored[p]
      BY <2>1, <2>3, PackNotBlob DEF BlobPut, Object
    <3>2. stored[p] # Absent
      <4>1. CASE \E e \in Eff : p \in lists[e]
        BY <4>1, EffFacts DEF IndexAhead, IndexStored, StoredPacks
      <4>2. CASE p \in lists'[b]
        <5>1. CASE p \in NewIndex /\ ppc = "repack"
          BY <1>0, <5>1 DEF NewIndex, PruneIndex, StoredPacks
        <5> QED BY <2>3, <4>2, <5>1, NewlyListed, FreshPacks
      <4> QED BY <2>3, <4>1, <4>2
    <3> QED BY <2>1, <3>1, <3>2 DEF StoredPacks
  <2> QED BY <1>2, <2>2, <2>3
\* The blobs that prune has not loaded: one that was there, or a backup's.
<1>4. ASSUME ppc' \in Planning, ppc \in Planning, blobs' = blobs,
             NEW b \in StoredBlobs' \ blobs', NEW p \in lists'[b]
      PROVE  \/ b \in StoredBlobs \ blobs /\ p \in lists[b]
             \/ \E c \in Client : p \in own[c] /\ Fresh(c)
  <2>1. CASE b \in made
    BY <1>0, <1>1, <1>4, <2>1, PlanningKeeps DEF Planning, NamesKept
  <2>2. CASE b \notin made
    <3>1. BlobPut(b)
      <4>1. b \notin StoredBlobs
        BY <1>0, <2>2, StoredNames
      <4>2. PICK d \in Blob : BlobPut(d) /\ StoredBlobs' = StoredBlobs \cup {d}
        BY <1>0, <1>4, <4>1, EffStep
      <4> QED BY <1>4, <4>1, <4>2
    <3> QED BY <1>4, <3>1, NewlyListed DEF Planning, StoredBlobs
  <2> QED BY <2>1, <2>2
<1>5. ASSUME ppc' \in {"walk", "plan"}, NEW b \in StoredBlobs' \ blobs', NEW p \in lists'[b]
      PROVE  mark'[p] = Absent \/ mark'[p] + PruneGrace > pnow'
  <2>1. CASE PruneLoads
    BY <1>5, <2>1 DEF PruneLoads, RepoKept, StoredBlobs
  <2>2. CASE ~PruneLoads
    <3>1. ppc \in {"walk", "plan"} /\ blobs' = blobs /\ pnow' = pnow
      BY <1>1, <1>5, <2>2 DEF PruneMove, PruneKeeps, PruneWalks, PruneDecides,
             PruneRepacks, PruneRewrites, PruneExecutes, PruneEnds
    <3>2. p \in Pack /\ mark'[p] = mark[p]
      BY <1>0, <1>5, PlanningKeeps DEF TypeOK, StoredBlobs, Object
    <3>3. mark[p] = Absent \/ mark[p] + PruneGrace > pnow
      BY <1>4, <1>5, <3>1, FreshPacks DEF Planning, IndexAhead
    <3> QED BY <3>1, <3>2, <3>3
  <2> QED BY <2>1, <2>2
<1>6. ASSUME ppc' = "repack", NEW b \in StoredBlobs' \ blobs', NEW p \in lists'[b] \cap toDelete'
      PROVE  FALSE
  <2>1. CASE PruneDecides
    <3>1. b \in StoredBlobs \ blobs /\ p \in lists[b] /\ ppc = "plan" /\ Deletable(p)
      BY <1>6, <2>1 DEF PruneDecides, RepoKept, StoredBlobs
    <3>2. mark[p] = Absent \/ mark[p] + PruneGrace > pnow
      BY <3>1 DEF IndexAhead
    <3>3. p \in Pack
      BY <1>0, <3>1 DEF TypeOK, StoredBlobs
    <3>4. mark[p] \in Int /\ pnow \in Int
      BY <1>0, <3>3, StampFacts DEF TypeOK, Object
    <3> QED BY <3>1, <3>2, <3>4, ConstantsAssumption DEF Deletable
  <2>2. CASE ~PruneDecides
    <3>1. ppc = "repack" /\ blobs' = blobs /\ toDelete' = toDelete
      BY <1>1, <1>6, <2>2 DEF PruneMove, PruneKeeps, PruneLoads, PruneWalks,
             PruneRepacks, PruneRewrites, PruneExecutes, PruneEnds
    <3> QED BY <1>4, <1>6, <3>1, FreshPacks DEF Planning, IndexAhead
  <2> QED BY <2>1, <2>2
<1>7. ASSUME ppc' \in {"execute", "deleteParity"}, NEW p \in Indexed' \cap toDelete'
      PROVE  FALSE
  <2>0. toDelete' \subseteq toDelete /\ (PruneRewrites \/ ppc \in {"execute", "deleteParity"})
    BY <1>1, <1>7 DEF PruneMove, PruneKeeps, PruneLoads, PruneWalks, PruneDecides,
             PruneRepacks, PruneRewrites, PruneExecutes, PruneEnds
  <2>1. ~\E c \in Client : p \in own[c] /\ Fresh(c)
    BY <1>7, <2>0, FreshPacks
  <2>2. CASE ppc \in {"execute", "deleteParity"}
    <3>1. p \notin Indexed
      BY <1>7, <2>0, <2>2 DEF IndexAhead
    <3>2. ASSUME NEW b \in Blob, BlobPut(b) PROVE p \notin lists'[b]
      BY <2>1, <2>2, <3>2, NewlyListed
    <3> QED BY <1>2, <1>7, <3>1, <3>2, EffFacts
  <2>3. CASE PruneRewrites
    <3>1. \A e \in StoredBlobs \ blobs : p \notin lists[e]
      BY <1>7, <2>0, <2>3 DEF PruneRewrites, IndexAhead
    <3>2. ASSUME NEW b \in Blob, BlobPut(b), lists'[b] = NewIndex, supersedes'[b] = blobs
          PROVE  FALSE
      <4>1. p \notin lists'[b]
        BY <1>0, <1>7, <2>0, <2>3, <3>2 DEF NewIndex, DeletedPacks, PruneIndex, PruneRewrites
      <4>2. PICK d \in Blob : BlobPut(d) /\ (\/ p \in lists'[d]
                                             \/ \E e \in Eff \ supersedes'[d] : p \in lists[e])
        BY <1>2, <1>7, <3>2 DEF BlobPut
      <4>3. d = b
        BY <3>2, <4>2 DEF BlobPut
      <4>4. PICK e \in Eff \ blobs : p \in lists[e]
        BY <3>2, <4>1, <4>2, <4>3
      <4> QED BY <3>1, <4>4, EffFacts
    <3>3. CASE ~Rewrite /\ RepoKept
      <4>1. p \in Indexed
        BY <1>7, <3>3 DEF RepoKept, Indexed, Packs, Effective, StoredBlobs
      <4>2. PICK e \in Eff : p \in lists[e]
        BY <4>1, EffFacts
      <4>3. e \in blobs /\ blobs \subseteq StoredBlobs
        BY <1>0, <2>3, <3>1, <4>2, EffFacts DEF PruneRewrites, PruneIndex, Planning
      <4>4. p \in Packs(blobs)
        BY <4>2, <4>3, EffFacts DEF Eff, Packs
      <4> QED BY <1>7, <2>0, <3>3, <4>4 DEF Rewrite, DeletedPacks
    <3> QED BY <2>3, <3>2, <3>3 DEF PruneRewrites
  <2> QED BY <2>0, <2>2, <2>3
<1> QED BY <1>3, <1>5, <1>6, <1>7 DEF IndexAhead

\* IndexAhead holds at the start.
LEMMA IndexAheadInit == Init => IndexAhead
<1> SUFFICES ASSUME Init PROVE IndexAhead
  OBVIOUS
<1>1. StoredBlobs = {}
  BY DEF Init, EmptyRepo, NoObject, StoredBlobs, Object
<1> QED
  BY <1>1 DEF Init, Quiet, IndexAhead, IndexStored, Indexed, Packs, Effective

\* Without rebuild-index, and with backups too short for prune to delete what
\* they are still writing, the index never leads to a pack that is not stored:
\* prune rewrites it before it deletes (prune.rs, steps 10 and 11).
THEOREM IndexNeverDangles ==
    ASSUME NoPhantoms
    PROVE  Spec => []IndexStored
<1>1. Init => IndexAhead
  BY IndexAheadInit
<1>2. IInv /\ IInv' /\ IndexAhead /\ [Next]_vars => IndexAhead'
  BY IndexAheadStep, StepEffects DEF IInv
<1>3. IndexAhead => IndexStored
  BY DEF IndexAhead
<1> QED BY <1>1, <1>2, <1>3, Invariance, PTL DEF Spec

-----------------------------------------------------------------------------
(***************************************************************************)
(* Reused packs.                                                           *)
(***************************************************************************)
\* prune deletes no pack whose mark is as late as the start of a young backup.
LEMMA LateNotDeleted ==
    ASSUME IInv, NEW c \in Client, Young(c), NEW p \in Pack, mark[p] >= started[c]
    PROVE  /\ p \notin toDelete
           /\ ppc \in {"walk", "plan"} => mark[p] + PruneGrace > pnow
<1>1. /\ mark[p] \in Int /\ started[c] \in Int /\ now \in Int /\ pnow \in Int
      /\ p \in toDelete => mark[p] + PruneGrace <= now + PruneOffset
      /\ ppc \in {"walk", "plan"} => pnow <= now + PruneOffset
  BY StampFacts DEF IInv, PruneTimes, TypeOK, Object
<1> QED BY <1>1, ConstantsAssumption DEF Young

\* Every step keeps ReusedPacksKept.
LEMMA ReusedPacksStep ==
    ASSUME NoPhantoms, IInv, TypeOK', StepEffect, IndexAhead, IndexAhead', ReusedPacksKept
    PROVE  ReusedPacksKept'
<1>0. /\ TypeOK /\ Names /\ PruneTimes /\ IndexShape /\ PruneIndex /\ RebuildIndex
  BY DEF IInv
<1> SUFFICES ASSUME NEW c \in Client, now' + PruneOffset < started'[c] + PruneGrace,
                    NEW r \in reuse'[c]
             PROVE  r[2] \in Indexed' \cap StoredPacks'
  BY DEF ReusedPacksKept
<1>1. r[2] \in Pack /\ now \in Nat /\ now' \in Nat /\ now <= now'
  BY <1>0, ClockStep DEF TypeOK
<1>2. /\ started'[c] = started[c]
      /\ r \in reuse[c] \/ (bpc[c] = "index" /\ r \in Reusable(c))
  BY DEF StepEffect, IInv, Deadlines, ClientMove, KeepClient, KeepGate, KeepRun, Ends, Begins,
         ListsMarks, LoadsIndex, Uploads, WritesIndex, Checks, ListsGate, Resolves, Heads
<1>3. Young(c)
  <2>1. started[c] \in Int
    BY <1>0 DEF TypeOK
  <2> QED BY <1>1, <1>2, <2>1, ConstantsAssumption DEF Young
<1>4. r[2] \in Indexed \cap StoredPacks
  <2>1. CASE r \in reuse[c]
    BY <1>3, <2>1 DEF ReusedPacksKept, Young
  <2>2. CASE r \in Reusable(c)
    BY <1>0, <2>2, ReusableFacts DEF IndexAhead, IndexStored
  <2> QED BY <1>2, <2>1, <2>2
<1>5. mark[r[2]] = Absent \/ mark[r[2]] >= started[c]
  BY <1>0, <1>1, <1>2, ReusableFacts DEF IInv, ReusedMarks
<1>6. r[2] \notin toDelete
  BY <1>1, <1>3, <1>5, LateNotDeleted DEF IInv, PruneTimes
<1>7. r[2] \in Indexed'
  BY <1>0, <1>4, <1>6, IndexedStep
<1> QED BY <1>7 DEF IndexAhead, IndexStored

\* A pack that a backup reuses stays stored and indexed while the backup is
\* younger than prune's grace: the marks are listed before the index is loaded
\* (backup.rs), so a mark the backup has not seen is younger than it is.
THEOREM ReusedPacks ==
    ASSUME NoPhantoms
    PROVE  Spec => []ReusedPacksKept
<1>1. Init => IndexAhead /\ ReusedPacksKept
  BY IndexAheadInit DEF Init, Quiet, ReusedPacksKept
<1>2. IInv /\ IInv' /\ IndexAhead /\ [Next]_vars => IndexAhead'
  BY IndexAheadStep, StepEffects DEF IInv
<1>3. /\ IInv /\ IInv' /\ IndexAhead /\ IndexAhead' /\ ReusedPacksKept /\ [Next]_vars
      => ReusedPacksKept'
  BY ReusedPacksStep, StepEffects DEF IInv
<1> QED BY <1>1, <1>2, <1>3, Invariance, PTL DEF Spec

-----------------------------------------------------------------------------
(***************************************************************************)
(* The gate, and the snapshots.                                            *)
(***************************************************************************)
\* prune deletes no pack whose mark lets a running gate pass.
LEMMA GateNotDeleted ==
    ASSUME TimingSound, GateSound, IInv, NEW c \in Client, bpc[c] \in InGate,
           NEW p \in Pack, LateMark(c, p)
    PROVE  /\ p \notin toDelete
           /\ ppc \in {"walk", "plan"} => mark[p] = Absent \/ mark[p] + PruneGrace > pnow
<1>1. /\ mark[p] \in Int /\ started[c] \in Int /\ checkedAt[c] \in Int
      /\ started[c] <= checkedAt[c] /\ now <= checkedAt[c] + MaxStall
  BY StampFacts DEF IInv, Deadlines, TypeOK, Object
<1>2. CASE mark[p] >= checkedAt[c]
  <2>1. Young(c) /\ mark[p] >= started[c]
    BY <1>1, <1>2, GateInTime DEF IInv
  <2> QED BY <2>1, LateNotDeleted
<1>3. CASE mark[p] + BackupGrace > checkedAt[c] + ClientOffset[c]
  <2>1. BackupGrace - ClientOffset[c] + MaxStall + PruneOffset <= PruneGrace
    BY DEF GateSound
  <2>2. /\ now \in Int /\ pnow \in Int
        /\ p \in toDelete => mark[p] + PruneGrace <= now + PruneOffset
        /\ ppc \in {"walk", "plan"} => pnow <= now + PruneOffset
    BY DEF IInv, PruneTimes, TypeOK
  <2>3. ClientOffset[c] \in Int
    BY ConstantsAssumption
  <2> QED BY <1>1, <1>3, <2>1, <2>2, <2>3, ConstantsAssumption
<1> QED BY <1>2, <1>3 DEF LateMark, IInv, PruneTimes

\* A pack that is stored and not about to be deleted is stored after the step.
LEMMA StoredStep ==
    ASSUME IInv, StepEffect, NEW p \in Pack
    PROVE  /\ stored[p] # Absent /\ p \notin toDelete => stored'[p] # Absent
           /\ holds[p] # {} /\ stored[p] = Absent => stored'[p] = Absent
           /\ \A x \in holds[p] : x \in holds'[p]
<1>1. /\ ObjectsChange /\ (holds[p] # {} => holds'[p] = holds[p])
      /\ p \in Object /\ TypeOK /\ now # Absent
  BY DEF StepEffect, RepoMove, NamesKept, IInv, TypeOK, Object
<1>2. holds[p] # {} => p \in Used
  BY DEF Used
<1> QED BY <1>1, <1>2 DEF ObjectsChange

\* Every step keeps Verified: what the gate has seen stays true until it ends.
LEMMA VerifiedStep ==
    ASSUME TimingSound, GateSound, IInv, TypeOK', StepEffect, Verified
    PROVE  Verified'
<1>0. /\ TypeOK /\ Names /\ IndexShape /\ PruneIndex /\ RebuildIndex
  BY DEF IInv
<1> SUFFICES ASSUME NEW c \in Client, bpc'[c] = "verify", NEW r \in reuse'[c]
             PROVE  \E q \in Pack :
                        /\ r[1] \in holds'[q]
                        /\ \/ stored'[q] # Absent /\ q \in Indexed' /\ LateMark(c, q)'
                           \/ q \in toHead'[c] /\ (q \in gateExpired'[c] \/ stored'[q] = Absent)
  BY DEF Verified
<1>1. /\ reuse'[c] = reuse[c] /\ checkedAt'[c] = checkedAt[c]
      /\ gateExpired'[c] = gateExpired[c]
      /\ \/ bpc[c] = "verify" /\ (toHead'[c] = toHead[c] \/ Heads(c))
         \/ bpc[c] = "gateIndex" /\ Resolves(c)
  BY DEF StepEffect, ClientMove, KeepClient, KeepGate, KeepRun, Ends, Begins,
         ListsMarks, LoadsIndex, Uploads, WritesIndex, Checks, ListsGate, Resolves, Heads
<1>2. PICK q \in Pack :
          /\ r[1] \in holds[q]
          /\ \/ stored[q] # Absent /\ q \in Indexed /\ LateMark(c, q)
             \/ q \in toHead'[c] /\ (q \in gateExpired[c] \/ stored[q] = Absent)
  <2>1. CASE bpc[c] = "verify" /\ (toHead'[c] = toHead[c] \/ Heads(c))
    <3>1. PICK q \in Pack :
              /\ r[1] \in holds[q]
              /\ \/ stored[q] # Absent /\ q \in Indexed /\ LateMark(c, q)
                 \/ q \in toHead[c] /\ (q \in gateExpired[c] \/ stored[q] = Absent)
      BY <1>1, <2>1 DEF Verified
    <3> QED BY <2>1, <3>1 DEF Heads
  <2>2. CASE bpc[c] = "gateIndex" /\ Resolves(c)
    <3>1. PICK q \in Resolved(c) : q \in Indexed /\ r[1] \in holds[q]
      BY <1>0, <1>1, <2>2, ResolvedFacts DEF Resolves, AllResolved
    <3>2. q \in Pack /\ q \in toHead'[c]
      BY <1>0, <2>2, <3>1, PacksType DEF Resolves, Indexed, StoredBlobs
    <3>3. q \in gateExpired[c] \/ LateMark(c, q)
      BY <2>2, <3>2 DEF IInv, GateSees
    <3> QED BY <3>1, <3>2, <3>3
  <2> QED BY <1>1, <2>1, <2>2
<1>3. bpc[c] \in InGate
  BY <1>1 DEF InGate
<1>4. CASE stored[q] # Absent /\ q \in Indexed /\ LateMark(c, q)
  <2>1. q \notin toDelete
    BY <1>3, <1>4, GateNotDeleted
  <2>2. q \in Indexed'
    BY <1>0, <1>4, <2>1, IndexedStep DEF StoredPacks
  <2>3. LateMark(c, q)'
    BY <1>1, <1>3, <1>4, LateMarkStep
  <2> QED BY <1>2, <1>4, <2>1, <2>2, <2>3, StoredStep
<1>5. CASE q \in toHead'[c] /\ (q \in gateExpired[c] \/ stored[q] = Absent)
  BY <1>1, <1>2, <1>5, StoredStep
<1> QED BY <1>2, <1>4, <1>5

\* Why a snapshot may be written: each of its chunks has a pack that stays.
LEMMA CommitHeld ==
    ASSUME Sound, IInv, NoPhantoms => ReusedPacksKept, GateSound => Verified,
           NEW c \in Client, bpc[c] = "verify", toHead[c] = {}, NEW x \in Content(c)
    PROVE  \E p \in Indexed \cap StoredPacks : x \in holds[p] /\ Spared(x, p)
<1>0. TypeOK /\ OwnPacks(c) /\ Deadlines(c) /\ bpc[c] \in InGate
  BY DEF IInv, InGate
<1>1. Young(c) /\ Fresh(c)
  BY <1>0, GateInTime, YoungIsFresh DEF Sound
<1>2. ASSUME NEW p \in own[c], x \in holds[p]
      PROVE  p \in Indexed \cap StoredPacks /\ Spared(x, p)
  BY <1>0, <1>1, FreshPacks DEF OwnPacks, Spared, StoredPacks
<1>3. ASSUME NEW r \in reuse[c], x = r[1]
      PROVE  \E p \in Indexed \cap StoredPacks : x \in holds[p] /\ Spared(x, p)
  <2>1. CASE NoPhantoms
    <3>1. r[2] \in Indexed \cap StoredPacks
      BY <1>1, <2>1 DEF ReusedPacksKept, Young
    <3>2. r[2] \in Pack /\ x \in holds[r[2]] /\ (mark[r[2]] = Absent \/ mark[r[2]] >= started[c])
      BY <1>3, <3>1 DEF IInv, Names, ReusedMarks, StoredPacks
    <3>3. Spared(x, r[2])
      BY <1>1, <3>2, LateNotDeleted DEF Spared, IInv, PruneTimes
    <3> QED BY <3>1, <3>2, <3>3
  <2>2. CASE GateSound
    <3>1. PICK q \in Pack : /\ r[1] \in holds[q]
                            /\ stored[q] # Absent /\ q \in Indexed /\ LateMark(c, q)
      BY <2>2 DEF Verified
    <3>2. Spared(x, q)
      BY <1>0, <2>2, <3>1, GateNotDeleted DEF Spared, Sound
    <3> QED BY <1>3, <3>1, <3>2 DEF StoredPacks
  <2> QED BY <2>1, <2>2 DEF Sound
<1> QED BY <1>2, <1>3 DEF Content

\* Every step keeps SnapshotsHeld: a commit adds chunks that are held, prune
\* spares the pack it has chosen for each.
LEMMA SnapshotsHeldStep ==
    ASSUME Sound, IInv, IInv', NoPhantoms => ReusedPacksKept, GateSound => Verified,
           StepEffect, SnapshotsHeld
    PROVE  SnapshotsHeld'
<1>0. /\ TypeOK /\ TypeOK' /\ Names /\ PruneTimes /\ IndexShape /\ PruneIndex
      /\ RebuildIndex /\ PruneMove /\ SnapsChange
  BY DEF IInv, StepEffect, RepoMove
<1> SUFFICES ASSUME NEW x \in Referenced'
             PROVE  \E p \in Indexed' \cap StoredPacks' : x \in holds'[p] /\ Spared(x, p)'
  BY DEF SnapshotsHeld
<1>1. PICK p \in Indexed \cap StoredPacks : x \in holds[p] /\ Spared(x, p)
  <2>1. CASE x \in Referenced
    BY <2>1 DEF SnapshotsHeld
  <2>2. CASE x \notin Referenced
    <3>1. PICK s \in snaps' : x \in s /\ s \notin snaps
      BY <2>2 DEF Referenced
    <3>2. PICK c \in Client : bpc[c] = "verify" /\ toHead[c] = {} /\ s = Content(c)
      BY <1>0, <3>1 DEF SnapsChange
    <3> QED BY <3>1, <3>2, CommitHeld
  <2> QED BY <2>1, <2>2
<1>2. p \in Pack /\ p \in Object /\ stored[p] # Absent
  BY DEF StoredPacks, Object
<1>3. CASE PruneDecides
  <2>1. /\ Indexed' = Indexed /\ StoredPacks' = StoredPacks /\ holds' = holds
        /\ ppc' = "repack" /\ toDelete' = {o \in Object : Deletable(o)} /\ References
    BY <1>3 DEF PruneDecides, RepoKept, Indexed, Packs, Effective, StoredBlobs, StoredPacks
  <2>2. CASE x \in live
    <3>1. PICK q : /\ q \in Packs(blobs) \cap StoredPacks
                   /\ q \in NeededPacks /\ x \in holds[q]
      BY <1>0, <2>1, <2>2, CanonicalFacts
    <3>2. q \in Indexed
      BY <1>0, <1>3, <3>1 DEF PruneDecides, PruneIndex, Planning
    <3>3. Spared(x, q)'
      BY <2>1, <3>1 DEF Deletable, IsLive, Spared
    <3> QED BY <2>1, <3>1, <3>2, <3>3
  <2>3. CASE x \notin live
    <3>1. ~Deletable(p)
      <4>1. mark[p] \in Int /\ pnow \in Int
        BY <1>0, <1>2, StampFacts DEF TypeOK
      <4>2. mark[p] = Absent \/ mark[p] + PruneGrace > pnow
        BY <1>1, <1>3, <2>3 DEF Spared, PruneDecides
      <4> QED BY <4>1, <4>2, ConstantsAssumption DEF Deletable
    <3>2. Spared(x, p)'
      BY <2>1, <3>1 DEF Spared
    <3> QED BY <1>1, <2>1, <3>2
  <2> QED BY <2>2, <2>3
<1>4. CASE ~PruneDecides
  <2>1. p \in Indexed' /\ p \in StoredPacks' /\ x \in holds'[p]
    BY <1>0, <1>1, <1>2, IndexedStep, StoredStep DEF Spared, StoredPacks
  <2>2. p \notin toDelete'
    BY <1>0, <1>1, <1>4 DEF Spared, PruneMove, PruneKeeps, PruneLoads, PruneWalks,
             PruneRepacks, PruneRewrites, PruneExecutes, PruneEnds
  <2>3. ASSUME ppc' = "plan"
        PROVE  x \in live' \/ mark'[p] = Absent \/ mark'[p] + PruneGrace > pnow'
    <3>1. CASE PruneWalks
      <4>1. snaps' = snaps /\ live' = Referenced
        BY <3>1 DEF PruneWalks, RepoKept
      <4> QED BY <4>1 DEF Referenced
    <3>2. CASE ~PruneWalks
      <4>1. ppc = "plan" /\ UNCHANGED <<live, pnow>>
        BY <1>0, <1>4, <2>3, <3>2 DEF PruneMove, PruneKeeps, PruneLoads,
             PruneRepacks, PruneRewrites, PruneExecutes, PruneEnds
      <4>2. mark'[p] = mark[p]
        BY <1>0, <1>2, <2>3, PlanningKeeps
      <4> QED BY <1>1, <4>1, <4>2 DEF Spared
    <3> QED BY <3>1, <3>2
  <2> QED BY <2>1, <2>2, <2>3 DEF Spared
<1> QED BY <1>3, <1>4

\* Every chunk of a committed snapshot is in a stored pack of the index until
\* the snapshot is forgotten, whatever backups, prune and rebuild-index do,
\* with no lock between them (prune.rs, backup.rs verify_referenced_chunks).
\* Either the index never lists a pack that is gone, and what a backup reuses
\* stays; or the gate of commit_at is as strict as prune's grace.
THEOREM Recoverability ==
    ASSUME Sound
    PROVE  Spec => []SnapshotsRecoverable
<1>1. Init => IndexAhead /\ ReusedPacksKept /\ Verified /\ SnapshotsHeld
  BY IndexAheadInit
     DEF Init, EmptyRepo, Quiet, ReusedPacksKept, Verified, SnapshotsHeld, Referenced
<1>2. /\ IInv /\ IInv' /\ (NoPhantoms => IndexAhead) /\ [Next]_vars
      => (NoPhantoms => IndexAhead)'
  BY IndexAheadStep, StepEffects DEF IInv, NoPhantoms
<1>3. /\ IInv /\ IInv' /\ [Next]_vars
      /\ (NoPhantoms => IndexAhead) /\ (NoPhantoms => IndexAhead)'
      /\ (NoPhantoms => ReusedPacksKept)
      => (NoPhantoms => ReusedPacksKept)'
  BY ReusedPacksStep, StepEffects DEF IInv, NoPhantoms
<1>4. /\ IInv /\ IInv' /\ [Next]_vars /\ (GateSound => Verified)
      => (GateSound => Verified)'
  BY VerifiedStep, StepEffects DEF IInv, GateSound, Sound
<1>5. /\ IInv /\ IInv' /\ [Next]_vars /\ SnapshotsHeld
      /\ (NoPhantoms => ReusedPacksKept) /\ (GateSound => Verified)
      => SnapshotsHeld'
  BY SnapshotsHeldStep, StepEffects DEF IInv
<1>6. SnapshotsHeld => SnapshotsRecoverable
  BY DEF SnapshotsHeld, SnapshotsRecoverable, Recoverable, Holders
<1> QED BY <1>1, <1>2, <1>3, <1>4, <1>5, <1>6, Invariance, PTL DEF Spec

-----------------------------------------------------------------------------
\* A step adds at most one snapshot or forgets one.
LEMMA SnapshotSteps ==
    ASSUME [Next]_vars
    PROVE  \/ snaps' = snaps
           \/ \E s \in snaps' : snaps' = snaps \cup {s}
           \/ \E s \in snaps : snaps' = snaps \ {s}
<1>1. CASE UNCHANGED vars
  BY <1>1 DEF vars, repoVars
<1>2. CASE Tick
  BY <1>2 DEF Tick, repoVars
<1>3. ASSUME NEW c \in Client, BackupNext(c)
      PROVE  snaps' = snaps \/ \E s \in snaps' : snaps' = snaps \cup {s}
  <2>1. CASE CommitSnapshot(c)
    BY <2>1 DEF CommitSnapshot
  <2>2. CASE ~CommitSnapshot(c)
    BY <1>3, <2>2
       DEF BackupNext, repoVars, BackupStart, ListGcMarks, LoadIndex, UploadPack,
           UploadParity, HeadPack, WriteIndex, CommitAt, BackupTooLong, GateMarks,
           GateIndex, PackMissing, BackupFails
  <2> QED BY <2>1, <2>2
<1>4. ASSUME NEW s \in snaps, Forget(s) PROVE \E r \in snaps : snaps' = snaps \ {r}
  BY <1>4 DEF Forget
<1>5. CASE PruneNext
  BY <1>5
     DEF PruneNext, repoVars, PruneStart, WalkReferences, PlanPrune, PruneUnsafe,
         DryRun, KeepIndex, RepackPut, RepackFails, SweepParity, RewriteIndex,
         DeleteObject, DeleteFails, RemoveMark, PutMark, DeleteParity, ListStored,
         ListSidecars, PruneDone, PruneFails
<1>6. CASE RebuildNext
  BY <1>6 DEF RebuildNext, repoVars, RebuildStart, RebuildList, RebuildRead, RebuildWrite
<1> QED BY <1>1, <1>2, <1>3, <1>4, <1>5, <1>6 DEF Next

\* PackGC implements SnapshotStore: a snapshot appears whole, keeps all its
\* chunks and goes only when it is forgotten.
THEOREM Refinement ==
    ASSUME Sound
    PROVE  Spec => StoreSpec
<1>1. Init => Store!Init
  BY DEF Init, EmptyRepo, Restorable, Store!Init
<1>2. SnapshotsRecoverable /\ SnapshotsRecoverable' /\ [Next]_vars
          => [Store!Next]_Store!vars
  <2> SUFFICES ASSUME SnapshotsRecoverable, SnapshotsRecoverable', [Next]_vars
               PROVE  [Store!Next]_Store!vars
    OBVIOUS
  <2>1. Restorable = snaps /\ Restorable' = snaps'
    BY DEF SnapshotsRecoverable, Restorable, Referenced
  <2> QED
    BY <2>1, SnapshotSteps
       DEF Store!Next, Store!Commit, Store!Forget, Store!vars
<1> QED BY <1>1, <1>2, Recoverability, PTL DEF Spec, StoreSpec, Store!Spec

-----------------------------------------------------------------------------
(***************************************************************************)
(* The sidecars.                                                           *)
(***************************************************************************)
LEMMA ParityStep ==
    ASSUME IInv, [Next]_vars
    PROVE  \A p \in parity : stored'[p] # Absent => p \in parity'
<1> SUFFICES ASSUME NEW p \in parity, p \notin parity' PROVE stored'[p] = Absent
  OBVIOUS
<1>0. p \in Pack /\ TypeOK
  BY DEF IInv, TypeOK
<1>1. CASE DeleteParity
  BY <1>1 DEF DeleteParity, IInv, PruneTimes
<1>2. ASSUME NEW q \in Pack, SweepParity(q) PROVE stored'[p] = Absent
  BY <1>2 DEF SweepParity
<1>3. CASE UNCHANGED vars \/ Tick \/ \E s \in snaps : Forget(s)
  BY <1>3 DEF vars, Tick, Forget, repoVars
<1>4. ASSUME NEW c \in Client, BackupNext(c) PROVE FALSE
  BY <1>4
     DEF BackupNext, repoVars, BackupStart, ListGcMarks, LoadIndex, UploadPack,
         UploadParity, HeadPack, WriteIndex, CommitAt, BackupTooLong, GateMarks,
         GateIndex, PackMissing, CommitSnapshot, BackupFails
<1>5. CASE RebuildNext
  BY <1>5 DEF RebuildNext, repoVars, RebuildStart, RebuildList, RebuildRead, RebuildWrite
<1>6. CASE PruneNext /\ ~DeleteParity /\ ~ \E q \in Pack : SweepParity(q)
  BY <1>6
     DEF PruneNext, repoVars, PruneStart, WalkReferences, PlanPrune, PruneUnsafe,
         DryRun, KeepIndex, RepackPut, RepackFails, RewriteIndex,
         DeleteObject, DeleteFails, RemoveMark, PutMark, ListStored,
         ListSidecars, PruneDone, PruneFails
<1> QED BY <1>1, <1>2, <1>3, <1>4, <1>5, <1>6 DEF Next

\* A sidecar goes only when its pack is gone: prune deletes it after the pack,
\* and the sweep looks again at a pack its listing did not show (prune.rs,
\* steps 11 and 13).  This needs nothing of the clocks.
THEOREM ParityFollowsPack == Spec => ParityKept
<1>1. IInv /\ [Next]_vars => [\A p \in parity : stored'[p] # Absent => p \in parity']_vars
  BY ParityStep
<1> QED BY <1>1, Invariance, PTL DEF Spec, ParityKept

=============================================================================
