------------------------------- MODULE PackGC -------------------------------
(***************************************************************************)
(* The pack half of kist's lock-free garbage collection.  Chunks live in   *)
(* packs; an index blob says which chunks some packs hold, and names the   *)
(* blobs it supersedes; the index is the union of the blobs that none of   *)
(* the stored blobs supersedes.  A backup reuses chunks of unmarked packs  *)
(* and uploads the others; prune marks, repacks and deletes packs and      *)
(* index blobs; rebuild-index writes a new index from the stored packs.    *)
(* None of them holds a lock.                                              *)
(*                                                                         *)
(* Every request to the storage backend that another program could tell    *)
(* apart is one step.  Packs and blobs are sealed with random nonces, so a *)
(* name is written at most once and what it names never changes.  Trees    *)
(* are the subject of TreeGC; here a backup's content is a set of chunks.  *)
(* So is the rule that an active client may delay a deletion: here         *)
(* prune --inactive-after is 0, and no client holds an expired mark back.  *)
(* Definitions marked "Slip" are used as in TreeGC.                        *)
(***************************************************************************)
EXTENDS Integers, FiniteSets

CONSTANTS
    Client,         \* client ids; each runs one backup at a time
    Chunk,          \* chunk ids
    Pack,           \* pack names (numbers: the least name is preferred)
    Blob,           \* index blob names
    Contents,       \* the sets of chunks that a backup may reach
    PruneGrace, BackupGrace, SafetyMargin, ClientOffset, PruneOffset,
                    \* as in TreeGC
    RepackBelow,    \* prune --repack-below, in percent; 0: never
    MaxEffective,   \* MAX_EFFECTIVE_BLOBS
    Parity,         \* backup --parity > 0
    Rebuilds,       \* rebuild-index may be run
    MaxStall,       \* from the BackupTooLong check to the snapshot, see Tick
    MaxBackup,      \* the longest backup, see Tick
    Faults,         \* what may fail, of Fault
    MaxTime         \* bound: the clock stops here

Absent == -1        \* no such object
Object == Pack \cup Blob

\* A backup or a prune crashes or meets an error that ends it; prune cannot
\* read a pack it repacks; a deletion or the put of a sidecar fails.
Fault == {"backup", "prune", "read", "delete", "sidecar"}

ASSUME ConstantsAssumption ==
    /\ Pack \subseteq Nat /\ IsFiniteSet(Pack) /\ Pack \cap Blob = {}
    /\ IsFiniteSet(Chunk) /\ Contents \subseteq SUBSET Chunk
    /\ PruneGrace \in Nat /\ BackupGrace \in Nat /\ SafetyMargin \in Nat
    /\ ClientOffset \in [Client -> Int] /\ PruneOffset \in Int
    /\ RepackBelow \in Nat /\ MaxEffective \in Nat
    /\ Parity \in BOOLEAN /\ Rebuilds \in BOOLEAN /\ Faults \subseteq Fault
    /\ MaxStall \in Nat /\ MaxBackup \in Nat /\ MaxTime \in Nat

VARIABLES
    now,            \* the backend's clock
    \* the repository
    stored,         \* [Object -> mtime of the pack or blob, or Absent]
    mark,           \* [Object -> mtime of gc/<o>, or Absent]
    holds,          \* [Pack -> chunks of its trailer]; empty: name not used
    made,           \* blobs ever written
    lists,          \* [Blob -> its packs]
    supersedes,     \* [Blob -> the blobs it supersedes]
    parity,         \* packs with a parity sidecar
    snaps,          \* the snapshots, by the chunks they reach
    \* the backup of each client
    bpc, started,
    marked,         \* packs marked at the start
    todo,           \* chunks not yet in a pack
    reuse,          \* referenced: <<chunk, pack>> pairs of reused chunks
    own,            \* own_packs
    checkedAt,      \* commit_at's "now"
    gateMarked,     \* the marked packs commit_at listed
    gateExpired,    \* and those among them whose mark had expired
    toHead,         \* packs the gate has yet to HEAD
    \* prune
    ppc, pnow,
    blobs,          \* all_blob_ids: the blobs loaded in step 1
    live,           \* referenced_chunks
    kept,           \* the needed packs that are not repacked
    phantoms,       \* indexed but not stored
    repack,         \* packs still to repack
    newPacks,       \* packs repack has written
    toDelete, marksToRemove, toMark,
    target,         \* the pack whose sidecar is to go: empty or a singleton
    sidecars,       \* packs whose sidecar the sweep has yet to look at
    \* rebuild-index
    rpc, rblobs, rpacks

repoVars == <<stored, mark, holds, made, lists, supersedes, parity, snaps>>
backupVars == <<bpc, started, marked, todo, reuse, own, checkedAt, gateMarked,
                gateExpired, toHead>>
planVars == <<pnow, blobs, live, kept, phantoms, repack, newPacks>>
workVars == <<toDelete, marksToRemove, toMark, target, sidecars>>
pruneVars == <<ppc, planVars, workVars>>
rebuildVars == <<rpc, rblobs, rpacks>>
vars == <<now, repoVars, backupVars, pruneVars, rebuildVars>>

Stamp == Nat \cup {Absent}

Margin == IF SafetyMargin <= BackupGrace \div 2 THEN SafetyMargin
          ELSE BackupGrace \div 2

-----------------------------------------------------------------------------
(***************************************************************************)
(* The index.                                                              *)
(***************************************************************************)
StoredPacks == {p \in Pack : stored[p] # Absent}
StoredBlobs == {b \in Blob : stored[b] # Absent}

\* load_index_blobs: a blob counts unless one of the blobs read supersedes it.
Effective(bs) == bs \ UNION {supersedes[b] : b \in bs}

\* The packs of an index made of the blobs bs.
Packs(bs) == UNION {lists[b] : b \in Effective(bs)}

Indexed == Packs(StoredBlobs)

\* canonical_rank: the unmarked packs (m are the marked ones) come before the
\* others, and then the least name.
Best(ps, m) ==
    LET first == IF ps \subseteq m THEN ps ELSE ps \ m
    IN  CHOOSE p \in first : \A q \in first : p <= q

Holders(x, ps) == {p \in ps : x \in holds[p]}

\* What a snapshot reaches.
Referenced == UNION snaps

\* A chunk that some stored pack of the index holds.
Recoverable(x) == Holders(x, Indexed) \cap StoredPacks # {}

-----------------------------------------------------------------------------
BackupPc == {"idle", "marks", "index", "upload", "parity", "ready", "gate",
             "gateIndex", "verify"}
InGate == {"gate", "gateIndex", "verify"}
PrunePc == {"idle", "walk", "plan", "repack", "execute",
            "deleteParity", "sidecars", "sweep"}
RebuildPc == {"idle", "packs", "read", "write"}

NoObject == [o \in Object |-> Absent]

EmptyRepo ==
    /\ stored = NoObject /\ mark = NoObject
    /\ holds = [p \in Pack |-> {}] /\ made = {}
    /\ lists = [b \in Blob |-> {}] /\ supersedes = [b \in Blob |-> {}]
    /\ parity = {} /\ snaps = {}

\* No program is running.
Quiet ==
    /\ bpc = [c \in Client |-> "idle"]
    /\ started = [c \in Client |-> 0]
    /\ marked = [c \in Client |-> {}]
    /\ todo = [c \in Client |-> {}]
    /\ reuse = [c \in Client |-> {}]
    /\ own = [c \in Client |-> {}]
    /\ checkedAt = [c \in Client |-> 0]
    /\ gateMarked = [c \in Client |-> {}]
    /\ gateExpired = [c \in Client |-> {}]
    /\ toHead = [c \in Client |-> {}]
    /\ ppc = "idle" /\ pnow = 0 /\ blobs = {} /\ live = {}
    /\ kept = {} /\ phantoms = {} /\ repack = {} /\ newPacks = {}
    /\ toDelete = {} /\ marksToRemove = {} /\ toMark = {} /\ target = {}
    /\ sidecars = {}
    /\ rpc = "idle" /\ rblobs = {} /\ rpacks = {}

Init == now = 0 /\ EmptyRepo /\ Quiet

(***************************************************************************)
(* Time.  MaxStall is as in TreeGC.  MaxBackup is how long a backup may    *)
(* run at all: BackupTooLong stops a late backup from committing, not from *)
(* writing its packs and its index blob.                                   *)
(***************************************************************************)
Tick ==
    /\ now < MaxTime
    /\ \A c \in Client :
          /\ bpc[c] \in InGate => now < checkedAt[c] + MaxStall
          /\ bpc[c] # "idle" => now < started[c] + MaxBackup
    /\ now' = now + 1
    /\ UNCHANGED <<repoVars, backupVars, pruneVars, rebuildVars>>

\* put of an index blob under a new name.
PutBlob(b, ps, old) ==
    /\ b \notin made
    /\ made' = made \cup {b}
    /\ stored' = [stored EXCEPT ![b] = now]
    /\ lists' = [lists EXCEPT ![b] = ps]
    /\ supersedes' = [supersedes EXCEPT ![b] = old]

\* put of a pack under a new name.
PutPack(p, chunks) ==
    /\ holds[p] = {}
    /\ holds' = [holds EXCEPT ![p] = chunks]
    /\ stored' = [stored EXCEPT ![p] = now]

-----------------------------------------------------------------------------
(***************************************************************************)
(* The backup of client c.                                                 *)
(***************************************************************************)
Idle(c) ==
    /\ bpc' = [bpc EXCEPT ![c] = "idle"]
    /\ started' = [started EXCEPT ![c] = 0]
    /\ marked' = [marked EXCEPT ![c] = {}]
    /\ todo' = [todo EXCEPT ![c] = {}]
    /\ reuse' = [reuse EXCEPT ![c] = {}]
    /\ own' = [own EXCEPT ![c] = {}]
    /\ checkedAt' = [checkedAt EXCEPT ![c] = 0]
    /\ gateMarked' = [gateMarked EXCEPT ![c] = {}]
    /\ gateExpired' = [gateExpired EXCEPT ![c] = {}]
    /\ toHead' = [toHead EXCEPT ![c] = {}]

Goto(c, pc) == bpc' = [bpc EXCEPT ![c] = pc]

BackupStart(c, content) ==
    /\ bpc[c] = "idle"
    /\ Goto(c, "marks")
    /\ started' = [started EXCEPT ![c] = now]
    /\ todo' = [todo EXCEPT ![c] = content]
    /\ UNCHANGED <<now, repoVars, pruneVars, rebuildVars, marked, reuse, own,
                   checkedAt, gateMarked,
                   gateExpired, toHead>>

\* The marks are listed before the index is loaded.
ListGcMarks(c) ==
    /\ bpc[c] = "marks"
    /\ marked' = [marked EXCEPT ![c] = {p \in Pack : mark[p] # Absent}]
    /\ Goto(c, "index")
    /\ UNCHANGED <<now, repoVars, pruneVars, rebuildVars, started, todo, reuse,
                   own, checkedAt, gateMarked,
                   gateExpired, toHead>>

\* Slip: any pack of the index is good enough.
ReusableMarked(c) ==
    {<<x, Best(Holders(x, Indexed), marked[c])>> :
        x \in {y \in todo[c] : Holders(y, Indexed) # {}}}

\* load_index_for_backup, then chunk_reader and try_reuse: a chunk is reused
\* when the pack the index prefers for it is not marked.
Reusable(c) ==
    {<<x, Best(Holders(x, Indexed), marked[c])>> :
        x \in {y \in todo[c] : ~ Holders(y, Indexed) \subseteq marked[c]}}

\* The marks are not looked at again.
LoadIndex(c) ==
    /\ bpc[c] = "index"
    /\ reuse' = [reuse EXCEPT ![c] = Reusable(c)]
    /\ todo' = [todo EXCEPT ![c] = @ \ {r[1] : r \in Reusable(c)}]
    /\ marked' = [marked EXCEPT ![c] = {}]
    /\ Goto(c, "upload")
    /\ UNCHANGED <<now, repoVars, pruneVars, rebuildVars, started, own,
                   checkedAt, gateMarked, gateExpired, toHead>>

\* handle_finished: a full pack, or the last one, is uploaded.
UploadPack(c, p, chunks) ==
    /\ bpc[c] = "upload"
    /\ chunks \subseteq todo[c] /\ chunks # {}
    /\ PutPack(p, chunks)
    /\ own' = [own EXCEPT ![c] = @ \cup {p}]
    /\ todo' = [todo EXCEPT ![c] = @ \ chunks]
    /\ Goto(c, IF Parity THEN "parity" ELSE "upload")
    /\ UNCHANGED <<now, mark, made, lists, supersedes, parity, snaps, pruneVars,
                   rebuildVars, started, marked, reuse, checkedAt, gateMarked,
                   gateExpired, toHead>>

\* Its sidecar follows; a failure to write it is only a warning.
UploadParity(c, p) ==
    /\ bpc[c] = "parity"
    /\ p \in own[c] \ parity
    /\ \/ parity' = parity \cup {p}
       \/ "sidecar" \in Faults /\ parity' = parity
    /\ Goto(c, "upload")
    /\ UNCHANGED <<now, stored, mark, holds, made, lists, supersedes, snaps,
                   pruneVars, rebuildVars, started, marked, todo, reuse, own,
                   checkedAt, gateMarked,
                   gateExpired, toHead>>

\* write_index: the new packs, once all of them are uploaded.
WriteIndex(c, b) ==
    /\ bpc[c] = "upload" /\ todo[c] = {} /\ own[c] # {}
    /\ PutBlob(b, own[c], {})
    /\ Goto(c, "ready")
    /\ UNCHANGED <<now, mark, holds, parity, snaps, pruneVars, rebuildVars,
                   started, marked, todo, reuse, own, checkedAt, gateMarked,
                   gateExpired, toHead>>

\* backup_prepare is done; without new packs there is no blob.
Prepared(c) ==
    \/ bpc[c] = "ready"
    \/ bpc[c] = "upload" /\ todo[c] = {} /\ own[c] = {}

TooLong(c) == now - started[c] + Margin >= BackupGrace

CommitAt(c) ==
    /\ Prepared(c)
    /\ ~TooLong(c)
    /\ checkedAt' = [checkedAt EXCEPT ![c] = now]
    /\ Goto(c, "gate")
    /\ UNCHANGED <<now, repoVars, pruneVars, rebuildVars, started, marked, todo,
                   reuse, own, gateMarked, gateExpired, toHead>>

BackupTooLong(c) ==
    /\ Prepared(c)
    /\ TooLong(c)
    /\ Idle(c)
    /\ UNCHANGED <<now, repoVars, pruneVars, rebuildVars>>

GateMarks(c) ==
    /\ bpc[c] = "gate"
    /\ gateMarked' = [gateMarked EXCEPT ![c] = {p \in Pack : mark[p] # Absent}]
    /\ gateExpired' = [gateExpired EXCEPT ![c] =
          {p \in Pack : /\ mark[p] # Absent
                        /\ mark[p] + BackupGrace <= checkedAt[c] + ClientOffset[c]}]
    /\ Goto(c, "gateIndex")
    /\ UNCHANGED <<now, repoVars, pruneVars, rebuildVars, started, marked, todo,
                   reuse, own, checkedAt, toHead>>

\* verify_referenced_chunks: each reused chunk is looked up in the index of
\* now, by the same rank as at the start.
Resolved(c) ==
    {Best(Holders(r[1], Indexed), gateMarked[c]) :
        r \in {q \in reuse[c] : Holders(q[1], Indexed) # {}}}

AllResolved(c) == \A r \in reuse[c] : Holders(r[1], Indexed) # {}

GateIndex(c) ==
    /\ bpc[c] = "gateIndex"
    /\ AllResolved(c)
    /\ toHead' = [toHead EXCEPT ![c] = Resolved(c)]
    /\ gateMarked' = [gateMarked EXCEPT ![c] = {}]
    /\ Goto(c, "verify")
    /\ UNCHANGED <<now, repoVars, pruneVars, rebuildVars, started, marked, todo,
                   reuse, own, checkedAt, gateExpired>>

\* Slip: the gate does not look whether the pack is there.
HeadPackBlind(c, p) ==
    /\ bpc[c] = "verify" /\ p \in toHead[c]
    /\ p \notin gateExpired[c]
    /\ toHead' = [toHead EXCEPT ![c] = @ \ {p}]
    /\ UNCHANGED <<now, repoVars, pruneVars, rebuildVars, bpc, started, marked,
                   todo, reuse, own, checkedAt, gateMarked, gateExpired>>

HeadPack(c, p) ==
    /\ bpc[c] = "verify" /\ p \in toHead[c]
    /\ p \notin gateExpired[c] /\ stored[p] # Absent
    /\ toHead' = [toHead EXCEPT ![c] = @ \ {p}]
    /\ UNCHANGED <<now, repoVars, pruneVars, rebuildVars, bpc, started, marked,
                   todo, reuse, own, checkedAt, gateMarked, gateExpired>>

\* PackMissing: the backup fails without a snapshot.
PackMissing(c) ==
    /\ \/ bpc[c] = "gateIndex" /\ ~AllResolved(c)
       \/ bpc[c] = "verify" /\ \E p \in toHead[c] :
             p \in gateExpired[c] \/ stored[p] = Absent
    /\ Idle(c)
    /\ UNCHANGED <<now, repoVars, pruneVars, rebuildVars>>

Content(c) == {r[1] : r \in reuse[c]} \cup UNION {holds[p] : p \in own[c]}

CommitSnapshot(c) ==
    /\ bpc[c] = "verify" /\ toHead[c] = {}
    /\ snaps' = snaps \cup {Content(c)}
    /\ Idle(c)
    /\ UNCHANGED <<now, stored, mark, holds, made, lists, supersedes, parity,
                   pruneVars, rebuildVars>>

\* A crash or a storage error; an index blob that is gone when it is read is
\* one.
BackupFails(c) ==
    /\ "backup" \in Faults
    /\ bpc[c] # "idle"
    /\ Idle(c)
    /\ UNCHANGED <<now, repoVars, pruneVars, rebuildVars>>

Forget(s) ==
    /\ s \in snaps
    /\ snaps' = snaps \ {s}
    /\ UNCHANGED <<now, stored, mark, holds, made, lists, supersedes, parity,
                   backupVars, pruneVars, rebuildVars>>
-----------------------------------------------------------------------------
(***************************************************************************)
(* prune: prune_plan, then PrunePlan::execute.                             *)
(***************************************************************************)
PlanIdle ==
    /\ pnow' = 0 /\ blobs' = {} /\ live' = {}
    /\ kept' = {} /\ phantoms' = {} /\ repack' = {} /\ newPacks' = {}

PruneIdle ==
    /\ ppc' = "idle" /\ PlanIdle
    /\ toDelete' = {} /\ marksToRemove' = {} /\ toMark' = {}
    /\ target' = {} /\ sidecars' = {}

\* Step 1: the time is taken and the index loaded.
PruneStart ==
    /\ ppc = "idle"
    /\ ppc' = "walk"
    /\ pnow' = now + PruneOffset
    /\ blobs' = StoredBlobs
    /\ UNCHANGED <<now, repoVars, backupVars, rebuildVars, workVars, live, kept,
                   phantoms, repack, newPacks>>

\* Step 2: every referenced chunk must be in the index of step 1.
WalkReferences ==
    /\ ppc = "walk"
    /\ \A x \in Referenced : Holders(x, Packs(blobs)) # {}
    /\ live' = Referenced
    /\ ppc' = "plan"
    /\ UNCHANGED <<now, repoVars, backupVars, rebuildVars, workVars, pnow, blobs,
                   kept, phantoms, repack, newPacks>>

PhantomPacks == {p \in Packs(blobs) : stored[p] = Absent}

\* Step 4: the canonical pack of a referenced chunk, among the stored ones.
Canonical(x) ==
    Best(Holders(x, Packs(blobs) \ PhantomPacks), {p \in Pack : mark[p] # Absent})

NeededPacks == {Canonical(x) : x \in live}

IsLive(o) == o \in NeededPacks \cup Effective(blobs)

\* Step 6: what becomes of a marked object.
MarkSettled(o) == mark[o] # Absent /\ (stored[o] = Absent \/ IsLive(o))

\* Slip: a mark counts as soon as it is seen.
DeletableAtOnce(o) ==
    /\ mark[o] # Absent /\ stored[o] # Absent /\ ~IsLive(o)

Deletable(o) ==
    /\ mark[o] # Absent /\ stored[o] # Absent /\ ~IsLive(o)
    /\ mark[o] + PruneGrace <= pnow

\* Step 8: what gets a new mark.
Markable(o) ==
    /\ mark[o] = Absent /\ stored[o] # Absent /\ ~IsLive(o)
    /\ stored[o] + PruneGrace <= pnow

\* Step 7: needed, unmarked packs that are old enough and hold too few
\* canonical chunks (all chunks weigh the same here).
Repackable(p) ==
    /\ p \in NeededPacks /\ mark[p] = Absent
    /\ stored[p] + PruneGrace <= pnow
    /\ Cardinality({x \in live : Canonical(x) = p}) * 100
          < Cardinality(holds[p]) * RepackBelow

\* Every referenced chunk has a stored pack.
References == \A x \in live : Holders(x, Packs(blobs) \ PhantomPacks) # {}

(***************************************************************************)
(* Steps 3 to 8: packs, blobs and marks are listed and everything is       *)
(* decided.  Only prune deletes what is listed here or changes a mark, and *)
(* what the other programs add meanwhile is not in the index of step 1 and *)
(* too young to be marked, so the four listings and the plan are one step. *)
(***************************************************************************)
PlanPrune ==
    /\ ppc = "plan"
    /\ References
    /\ toDelete' = {o \in Object : Deletable(o)}
    /\ marksToRemove' = {o \in Object : MarkSettled(o)}
    /\ toMark' = {o \in Object : Markable(o) \/ (o \in Pack /\ Repackable(o))}
    /\ repack' = {p \in Pack : Repackable(p)}
    /\ kept' = {p \in NeededPacks : ~Repackable(p)} /\ phantoms' = PhantomPacks
    /\ ppc' = "repack"
    /\ pnow' = 0
    /\ UNCHANGED <<now, repoVars, backupVars, rebuildVars, blobs, live, newPacks,
                   target, sidecars>>

\* References incomplete: prune refuses and changes nothing.
PruneUnsafe ==
    /\ \/ ppc = "walk" /\ \E x \in Referenced : Holders(x, Packs(blobs)) = {}
       \/ ppc = "plan" /\ ~References
    /\ PruneIdle
    /\ UNCHANGED <<now, repoVars, backupVars, rebuildVars>>

DryRun ==
    /\ ppc = "plan"
    /\ References
    /\ PruneIdle
    /\ UNCHANGED <<now, repoVars, backupVars, rebuildVars>>

\* Step 9: the chunks repack has still to move.
Moving ==
    {x \in live : /\ Holders(x, repack) # {}
                  /\ Holders(x, kept) = {}
                  /\ Holders(x, newPacks) = {}}

RepackPut(p, chunks) ==
    /\ ppc = "repack"
    /\ chunks \subseteq Moving /\ chunks # {}
    /\ PutPack(p, chunks)
    /\ newPacks' = newPacks \cup {p}
    /\ UNCHANGED <<now, mark, made, lists, supersedes, parity, snaps, backupVars,
                   rebuildVars, ppc, pnow, blobs, live, kept,
                   phantoms, repack, workVars>>

\* A pack that cannot be read is skipped whole, and keeps its place: what has
\* moved of it came from another repacked pack.
RepackFails(p) ==
    /\ "read" \in Faults
    /\ ppc = "repack" /\ p \in repack
    /\ holds[p] \cap Moving # {}
    /\ \A q \in newPacks : \A x \in holds[p] \cap holds[q] :
          Holders(x, repack \ {p}) # {}
    /\ repack' = repack \ {p}
    /\ toMark' = toMark \ {p}
    /\ UNCHANGED <<now, repoVars, backupVars, rebuildVars, ppc, pnow, blobs, live,
                   kept, phantoms, newPacks, toDelete, marksToRemove, target,
                   sidecars>>

DeletedPacks == toDelete \cap Packs(blobs)

\* Slip: packs are deleted under the old index.
RewriteNever == newPacks # {}

\* Step 10: the index is rewritten when it loses a pack or gains one, and
\* when it has too many blobs.
Rewrite ==
    \/ DeletedPacks # {} \/ newPacks # {} \/ phantoms # {}
    \/ Cardinality(Effective(blobs)) > MaxEffective

\* The packs of the new index; repacked ones stay in it until they are deleted.
NewIndex == newPacks \cup (Packs(blobs) \ (DeletedPacks \cup phantoms))

RewriteIndex(b) ==
    /\ ppc = "repack" /\ Moving = {}
    /\ Rewrite
    /\ PutBlob(b, NewIndex, blobs)
    /\ ppc' = "execute"
    /\ PlanIdle
    /\ UNCHANGED <<now, mark, holds, parity, snaps, backupVars, rebuildVars,
                   workVars>>

KeepIndex ==
    /\ ppc = "repack" /\ Moving = {}
    /\ ~Rewrite
    /\ ppc' = "execute"
    /\ PlanIdle
    /\ UNCHANGED <<now, repoVars, backupVars, rebuildVars, workVars>>

Sidecar(o) == {o} \cap parity

\* Step 11: packs go before blobs.  The HEAD before the DELETE keeps an object
\* that is not older than its mark; no name is written twice, so only a grace
\* of 0 or a fast clock of prune can have marked one.
DeleteObject(o) ==
    /\ ppc = "execute" /\ o \in toDelete
    /\ o \in Blob => toDelete \cap Pack = {}
    /\ LET dead == stored[o] < mark[o]
       IN  /\ stored' = IF dead THEN [stored EXCEPT ![o] = Absent] ELSE stored
           /\ target' = IF dead THEN Sidecar(o) ELSE {}
    /\ ppc' = IF target' # {} THEN "deleteParity" ELSE "execute"
    /\ toDelete' = toDelete \ {o}
    /\ marksToRemove' = marksToRemove \cup {o}
    /\ UNCHANGED <<now, mark, holds, made, lists, supersedes, parity, snaps,
                   backupVars, rebuildVars, planVars, toMark, sidecars>>

DeleteFails(o) ==
    /\ "delete" \in Faults
    /\ ppc = "execute" /\ o \in toDelete
    /\ o \in Blob => toDelete \cap Pack = {}
    /\ toDelete' = toDelete \ {o}
    /\ UNCHANGED <<now, repoVars, backupVars, rebuildVars, ppc, planVars,
                   marksToRemove, toMark, target, sidecars>>

\* The sidecar goes with the pack.
DeleteParity ==
    /\ ppc = "deleteParity"
    /\ parity' = parity \ target
    /\ ppc' = "execute" /\ target' = {}
    /\ UNCHANGED <<now, stored, mark, holds, made, lists, supersedes, snaps,
                   backupVars, rebuildVars, planVars, toDelete, marksToRemove,
                   toMark, sidecars>>

\* Only after all deletions are the marks removed.
RemoveMark(o) ==
    /\ ppc = "execute" /\ toDelete = {}
    /\ o \in marksToRemove
    /\ mark' = [mark EXCEPT ![o] = Absent]
    /\ marksToRemove' = marksToRemove \ {o}
    /\ UNCHANGED <<now, stored, holds, made, lists, supersedes, parity, snaps,
                   backupVars, rebuildVars, ppc, planVars, toDelete, toMark,
                   target, sidecars>>

\* Step 12: put_if_absent of the new marks.
PutMark(o) ==
    /\ ppc = "execute" /\ toDelete = {} /\ marksToRemove = {}
    /\ o \in toMark
    /\ o \in Blob => toMark \cap Pack = {}
    /\ mark' = [mark EXCEPT ![o] = IF @ = Absent THEN now ELSE @]
    /\ toMark' = toMark \ {o}
    /\ UNCHANGED <<now, stored, holds, made, lists, supersedes, parity, snaps,
                   backupVars, rebuildVars, ppc, planVars, toDelete,
                   marksToRemove, target, sidecars>>

Executed == ppc = "execute" /\ toDelete = {} /\ marksToRemove = {} /\ toMark = {}

\* Step 13, the sidecar sweep: packs are listed, then sidecars, and a pack
\* that was not listed is looked at again.
ListStored ==
    /\ Executed /\ Parity
    /\ sidecars' = Pack \ StoredPacks
    /\ ppc' = "sidecars"
    /\ UNCHANGED <<now, repoVars, backupVars, rebuildVars, planVars, toDelete,
                   marksToRemove, toMark, target>>

ListSidecars ==
    /\ ppc = "sidecars"
    /\ sidecars' = sidecars \cap parity
    /\ ppc' = "sweep"
    /\ UNCHANGED <<now, repoVars, backupVars, rebuildVars, planVars, toDelete,
                   marksToRemove, toMark, target>>

\* Slip: the list of packs is trusted.
SweepListed(p) ==
    /\ ppc = "sweep" /\ p \in sidecars
    /\ sidecars' = sidecars \ {p}
    /\ parity' = parity \ {p}
    /\ UNCHANGED <<now, stored, mark, holds, made, lists, supersedes, snaps,
                   backupVars, rebuildVars, ppc, planVars, toDelete,
                   marksToRemove, toMark, target>>

SweepParity(p) ==
    /\ ppc = "sweep" /\ p \in sidecars
    /\ sidecars' = sidecars \ {p}
    /\ parity' = IF stored[p] = Absent THEN parity \ {p} ELSE parity
    /\ UNCHANGED <<now, stored, mark, holds, made, lists, supersedes, snaps,
                   backupVars, rebuildVars, ppc, planVars, toDelete,
                   marksToRemove, toMark, target>>

\* Without parity there is nothing to sweep.
PruneDone ==
    /\ \/ ppc = "sweep" /\ sidecars = {}
       \/ Executed /\ ~Parity
    /\ PruneIdle
    /\ UNCHANGED <<now, repoVars, backupVars, rebuildVars>>

PruneFails ==
    /\ "prune" \in Faults
    /\ ppc # "idle"
    /\ PruneIdle
    /\ UNCHANGED <<now, repoVars, backupVars, rebuildVars>>

-----------------------------------------------------------------------------
(***************************************************************************)
(* rebuild-index.                                                          *)
(***************************************************************************)
RebuildIdle == rpc' = "idle" /\ rblobs' = {} /\ rpacks' = {}

\* The blobs to supersede are listed before the packs.
RebuildStart ==
    /\ Rebuilds
    /\ rpc = "idle"
    /\ rblobs' = StoredBlobs
    /\ rpc' = "packs"
    /\ UNCHANGED <<now, repoVars, backupVars, pruneVars, rpacks>>

RebuildList ==
    /\ rpc = "packs"
    /\ rpacks' = StoredPacks
    /\ rpc' = "read"
    /\ UNCHANGED <<now, repoVars, backupVars, pruneVars, rblobs>>

\* read_pack_index of every listed pack; one that is gone is an error.
RebuildRead ==
    /\ rpc = "read"
    /\ \/ rpacks \subseteq StoredPacks /\ rpc' = "write" /\ UNCHANGED <<rblobs, rpacks>>
       \/ ~ rpacks \subseteq StoredPacks /\ RebuildIdle
    /\ UNCHANGED <<now, repoVars, backupVars, pruneVars>>

RebuildWrite(b) ==
    /\ rpc = "write"
    /\ PutBlob(b, rpacks, rblobs)
    /\ RebuildIdle
    /\ UNCHANGED <<now, mark, holds, parity, snaps, backupVars, pruneVars>>

-----------------------------------------------------------------------------
BackupNext(c) ==
    \/ \E content \in Contents : BackupStart(c, content)
    \/ ListGcMarks(c) \/ LoadIndex(c)
    \/ \E p \in Pack : \/ \E chunks \in SUBSET todo[c] : UploadPack(c, p, chunks)
                      \/ UploadParity(c, p)
                      \/ HeadPack(c, p)
    \/ \E b \in Blob : WriteIndex(c, b)
    \/ CommitAt(c) \/ BackupTooLong(c) \/ GateMarks(c) \/ GateIndex(c)
    \/ PackMissing(c) \/ CommitSnapshot(c) \/ BackupFails(c)

PruneNext ==
    \/ PruneStart \/ WalkReferences \/ PlanPrune \/ PruneUnsafe \/ DryRun \/ KeepIndex
    \/ \E p \in Pack : \/ \E chunks \in SUBSET live : RepackPut(p, chunks)
                      \/ RepackFails(p)
                      \/ SweepParity(p)
    \/ \E b \in Blob : RewriteIndex(b)
    \/ \E o \in Object : \/ DeleteObject(o) \/ DeleteFails(o)
                        \/ RemoveMark(o) \/ PutMark(o)
    \/ DeleteParity \/ ListStored \/ ListSidecars \/ PruneDone \/ PruneFails

RebuildNext ==
    \/ RebuildStart \/ RebuildList \/ RebuildRead
    \/ \E b \in Blob : RebuildWrite(b)

Next ==
    \/ Tick
    \/ \E c \in Client : BackupNext(c)
    \/ \E s \in snaps : Forget(s)
    \/ PruneNext
    \/ RebuildNext

Spec == Init /\ [][Next]_vars

-----------------------------------------------------------------------------
(***************************************************************************)
(* Properties.                                                             *)
(***************************************************************************)

\* Types of the state.
TypeOK ==
    /\ now \in Nat
    /\ stored \in [Object -> Stamp] /\ mark \in [Object -> Stamp]
    /\ holds \in [Pack -> SUBSET Chunk] /\ made \subseteq Blob
    /\ lists \in [Blob -> SUBSET Pack] /\ supersedes \in [Blob -> SUBSET Blob]
    /\ parity \subseteq Pack /\ snaps \subseteq SUBSET Chunk
    /\ bpc \in [Client -> BackupPc] /\ started \in [Client -> Nat]
    /\ marked \in [Client -> SUBSET Pack] /\ todo \in [Client -> SUBSET Chunk]
    /\ reuse \in [Client -> SUBSET (Chunk \X Pack)]
    /\ own \in [Client -> SUBSET Pack] /\ checkedAt \in [Client -> Nat]
    /\ gateMarked \in [Client -> SUBSET Pack]
    /\ gateExpired \in [Client -> SUBSET Pack]
    /\ toHead \in [Client -> SUBSET Pack]
    /\ ppc \in PrunePc /\ pnow \in Int /\ blobs \subseteq Blob
    /\ live \subseteq Chunk
    /\ kept \subseteq Pack /\ phantoms \subseteq Pack
    /\ repack \subseteq Pack /\ newPacks \subseteq Pack
    /\ toDelete \subseteq Object /\ marksToRemove \subseteq Object
    /\ toMark \subseteq Object /\ target \subseteq Pack
    /\ sidecars \subseteq Pack
    /\ rpc \in RebuildPc /\ rblobs \subseteq Blob /\ rpacks \subseteq Pack

TimingSound == BackupGrace - Margin + MaxStall + PruneOffset <= PruneGrace

\* Whatever prune, rebuild-index and the other clients do, every chunk of a
\* committed snapshot is held by a stored pack that the index knows, until the
\* snapshot is forgotten.
SnapshotsRecoverable == \A x \in Referenced : Recoverable(x)

\* A pack a backup reuses is neither deleted nor dropped from the index while
\* the backup is younger than prune's grace (backup.rs: marks before index).
ReusedPacksKept ==
    \A c \in Client :
        now + PruneOffset < started[c] + PruneGrace
            => {r[2] : r \in reuse[c]} \subseteq Indexed \cap StoredPacks

\* The index never leads a reader to a pack that is not stored (prune.rs:
\* the index is rewritten before its packs are deleted).
IndexStored == Indexed \subseteq StoredPacks

\* A sidecar is not deleted while its pack is stored.
ParityKept ==
    [][\A p \in parity : stored'[p] # Absent => p \in parity']_vars

Restorable == {s \in snaps : \A x \in s : Recoverable(x)}

Store == INSTANCE SnapshotStore
         WITH committed <- snaps, restorable <- Restorable

\* Backups, prune and rebuild-index together implement a store in which a
\* snapshot appears whole and stays whole until it is forgotten.
StoreSpec == Store!Spec
=============================================================================
