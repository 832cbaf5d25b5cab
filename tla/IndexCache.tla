----------------------------- MODULE IndexCache -----------------------------
(***************************************************************************)
(* How restore and mount find chunks while the index changes under them.   *)
(*                                                                         *)
(* A reader (crates/kist-core/src/restore.rs, crates/kist-mount) loads the *)
(* index once and keeps it.  When a pack it reads is gone it loads the     *)
(* index again, at most once a minute, and reads once more                 *)
(* (`ReloadableIndex`).  A load lists indexes/ and reads every blob, or    *)
(* goes through the local cache (crates/kist-core/src/cache.rs): a table   *)
(* chunk -> pack and a manifest naming the blobs merged into the table,    *)
(* two files of one directory that every process of the user shares        *)
(* without a lock.                                                         *)
(*                                                                         *)
(* The repository side is what PackGC shows of it: a backup adds a pack    *)
(* and a blob, prune rewrites the index (superseding every blob it saw)    *)
(* before it deletes a pack, and never drops the last copy of a chunk that *)
(* a snapshot needs.                                                       *)
(*                                                                         *)
(* A temporary file is written in one step and renamed in another, so two  *)
(* processes can rename each other's file; writes that interleave inside   *)
(* one temporary file are left out.                                        *)
(***************************************************************************)
EXTENDS Naturals, Sequences, FiniteSets, FiniteSetsExt, Functions

CONSTANTS
    Reader,     \* processes that read the repository with this cache
    Chunk,
    Needed,     \* the chunks the snapshots reference
    Pack,       \* pack names, ordered
    Holds,      \* the chunks of each pack
    Blob,       \* index blob names, ordered: they are hashes, unlike creation
    FirstPack, FirstBlob,   \* the repository at the start: one backup
    Modes,      \* how the repository may be used, see mode
    NoFile, NoChunk

Table == UNION {[X -> Pack] : X \in SUBSET Chunk}

ASSUME ReaderConstants ==
    /\ Pack \subseteq Nat /\ IsFiniteSet(Pack) /\ Blob \subseteq Nat
    /\ FirstPack \in Pack /\ FirstBlob \in Blob
    /\ Holds \in [Pack -> SUBSET Chunk]
    /\ Needed \subseteq Chunk
    /\ Modes \subseteq {"uncached", "cached", "killed"}
    /\ NoChunk \notin Chunk
    /\ NoFile \notin Table /\ \A bs \in SUBSET Blob : bs # NoFile

VARIABLES
    mode,                   \* without a cache directory, with one, or with
                            \* one, readers being killed and its files lost
    packs, blobs,           \* the stored packs and index blobs
    lists, supersedes,      \* what each blob ever written says
    prunePc, pruneSeen,     \* prune: its phase, the blobs it read
    pruneDrop,              \* ... and the objects it will delete
    manifest, table,        \* the cache files
    tmpManifest, tmpTable,  \* ... and their temporary files
    pc,
    live,       \* load: the listing of indexes/
    known,      \* load: the manifest's blobs, then the ones to write
    base,       \* load: the table to merge into, then the one to write
    index,      \* the index the reader holds
    view,       \* the listing that index was loaded from
    want,       \* the chunk being read a second time
    limited     \* a reload happened within RELOAD_MIN_INTERVAL

repoVars == <<mode, packs, blobs, lists, supersedes, prunePc, pruneSeen, pruneDrop>>
fileVars == <<manifest, table, tmpManifest, tmpTable>>
readerVars == <<pc, live, known, base, index, view, want, limited>>
vars == <<repoVars, fileVars, readerVars>>

Cached == mode # "uncached"
Faults == mode = "killed"

Written == DOMAIN lists

(* What f says of its domain, and g of the rest of its own. *)
Over(f, g) == [x \in DOMAIN f \cup DOMAIN g |-> IF x \in DOMAIN f THEN f[x] ELSE g[x]]

Init ==
    /\ mode \in Modes
    /\ packs = {FirstPack} /\ blobs = {FirstBlob}
    /\ lists = [b \in {FirstBlob} |-> <<FirstPack>>]
    /\ supersedes = [b \in {FirstBlob} |-> {}]
    /\ prunePc = "idle" /\ pruneSeen = {} /\ pruneDrop = [packs |-> {}, blobs |-> {}]
    /\ manifest = NoFile /\ table = NoFile
    /\ tmpManifest = NoFile /\ tmpTable = NoFile
    /\ pc = [r \in Reader |-> "idle"]
    /\ live = [r \in Reader |-> {}]
    /\ known = [r \in Reader |-> NoFile]
    /\ base = [r \in Reader |-> NoFile]
    /\ index = [r \in Reader |-> NoFile]
    /\ view = [r \in Reader |-> {}]
    /\ want = [r \in Reader |-> NoChunk]
    /\ limited = [r \in Reader |-> FALSE]

(***************************************************************************)
(* What a set of blobs says.                                               *)
(***************************************************************************)

Superseded(bs) == UNION {supersedes[b] : b \in bs}

(* load_index_blobs: a superseded blob does not count. *)
Effective(bs) == bs \ Superseded(bs)

Listed(bs) == UNION {Range(lists[b]) : b \in bs}
HeldBy(ps) == UNION {Holds[p] : p \in ps}
Chunks(bs) == HeldBy(Listed(bs))

(* The records of a set of blobs, pushed blob by blob and pack by pack,    *)
(* sorted by chunk, the first of each chunk kept.                          *)
Records(bs) ==
    [x \in Chunks(bs) |->
        LET b == Min({c \in bs : x \in Chunks({c})})
            i == Min({j \in DOMAIN lists[b] : x \in Holds[lists[b][j]]})
        IN  lists[b][i]]

(* Without a cache: the pack of the smallest name. *)
Smallest(bs) ==
    [x \in Chunks(bs) |-> Min({p \in Listed(bs) : x \in Holds[p]})]

(***************************************************************************)
(* The repository.                                                         *)
(***************************************************************************)

WriteIndex(b, ps, old) ==
    /\ b \in Blob \ Written
    /\ blobs' = blobs \cup {b}
    /\ lists' = Over([c \in {b} |-> ps], lists)
    /\ supersedes' = Over([c \in {b} |-> old], supersedes)

(* A backup that ends: its pack, then its index blob. *)
Backup(p, b) ==
    /\ p \in Pack \ packs
    /\ packs' = packs \cup {p}
    /\ WriteIndex(b, <<p>>, {})
    /\ UNCHANGED <<mode, prunePc, pruneSeen, pruneDrop, fileVars, readerVars>>

IndexedPacks == Listed(Effective(blobs)) \cap packs

(* prune_plan: the index is read; packs of which every needed chunk has    *)
(* another holder, and superseded blobs, are to be deleted.                *)
PrunePlan(drop) ==
    /\ prunePc = "idle"
    /\ drop \subseteq IndexedPacks
    /\ Needed \cap HeldBy(IndexedPacks) \subseteq HeldBy(IndexedPacks \ drop)
    /\ prunePc' = "index"
    /\ pruneSeen' = blobs
    /\ pruneDrop' = [packs |-> drop, blobs |-> blobs \ Effective(blobs)]
    /\ UNCHANGED <<mode, packs, blobs, lists, supersedes, fileVars, readerVars>>

InOrder(ps) ==
    {s \in [1 .. Cardinality(ps) -> ps] :
        Range(s) = ps /\ \A i, j \in DOMAIN s : i < j => s[i] < s[j]}

(* execute: repacked chunks go to a new pack; then the index is rewritten, *)
(* new packs first and marked ones last, superseding every blob seen.      *)
PruneIndex(b, new, marked) ==
    LET kept == (Listed(Effective(pruneSeen)) \cap packs) \ pruneDrop.packs IN
    /\ prunePc = "index"
    /\ new \cup pruneDrop.packs # {}
    /\ new \cap packs = {} /\ marked \subseteq kept
    /\ HeldBy(new) \subseteq Needed \cap HeldBy(marked)
    /\ packs' = packs \cup new
    /\ \E n \in InOrder(new), k \in InOrder(kept \ marked), m \in InOrder(marked) :
          WriteIndex(b, n \o k \o m, pruneSeen)
    /\ prunePc' = "delete"
    /\ UNCHANGED <<mode, pruneSeen, pruneDrop, fileVars, readerVars>>

(* Nothing listed goes and nothing is repacked: the index stays. *)
PruneNoIndex ==
    /\ prunePc = "index" /\ pruneDrop.packs = {}
    /\ prunePc' = "delete"
    /\ UNCHANGED <<mode, packs, blobs, lists, supersedes, pruneSeen, pruneDrop, fileVars, readerVars>>

PruneDelete ==
    /\ prunePc = "delete"
    /\ \/ \E p \in pruneDrop.packs :
            /\ packs' = packs \ {p}
            /\ pruneDrop' = [pruneDrop EXCEPT !.packs = @ \ {p}]
            /\ UNCHANGED blobs
       \/ \E b \in pruneDrop.blobs :
            /\ blobs' = blobs \ {b}
            /\ pruneDrop' = [pruneDrop EXCEPT !.blobs = @ \ {b}]
            /\ UNCHANGED packs
    /\ UNCHANGED <<mode, lists, supersedes, prunePc, pruneSeen, fileVars, readerVars>>

(* Prune ends, or stops with objects left. *)
PruneEnds ==
    /\ prunePc # "idle"
    /\ prunePc' = "idle" /\ pruneSeen' = {} /\ pruneDrop' = [packs |-> {}, blobs |-> {}]
    /\ UNCHANGED <<mode, packs, blobs, lists, supersedes, fileVars, readerVars>>

(***************************************************************************)
(* Loading the index.                                                      *)
(***************************************************************************)

(* load_index: the listing. *)
ListIndexes(r) ==
    /\ pc[r] = "list"
    /\ live' = [live EXCEPT ![r] = blobs]
    /\ pc' = [pc EXCEPT ![r] = IF Cached THEN "manifest" ELSE "fetch"]
    /\ UNCHANGED <<repoVars, fileVars, known, base, index, view, want, limited>>

ReadManifest(r) ==
    /\ pc[r] = "manifest"
    /\ known' = [known EXCEPT ![r] = manifest]
    /\ pc' = [pc EXCEPT ![r] = "table"]
    /\ UNCHANGED <<repoVars, fileVars, live, base, index, view, want, limited>>

(* The reader has the index it asked for; a reload is noted. *)
Loaded(r, ix) ==
    /\ index' = [index EXCEPT ![r] = ix]
    /\ view' = [view EXCEPT ![r] = live[r]]
    /\ limited' = [limited EXCEPT ![r] = @ \/ want[r] # NoChunk]
    /\ pc' = [pc EXCEPT ![r] = "ready"]
    /\ known' = [known EXCEPT ![r] = NoFile]
    /\ base' = [base EXCEPT ![r] = NoFile]

(* A slip: blobs gone from the repository are not noticed. *)
UsableAlways(r) == known[r] # NoFile /\ table # NoFile

(* The cache can be used when both files are there and every blob of the   *)
(* manifest is still in the repository.                                    *)
Usable(r) == known[r] # NoFile /\ table # NoFile /\ known[r] \subseteq live[r]

(* Nothing new: the cached table is the index. *)
UseTable(r) ==
    /\ pc[r] = "table" /\ Usable(r) /\ live[r] \subseteq known[r]
    /\ Loaded(r, table)
    /\ UNCHANGED <<repoVars, fileVars, live, want>>

(* Otherwise blobs are fetched, to merge into the table or to rebuild it. *)
OpenTable(r) ==
    /\ pc[r] = "table" /\ ~(Usable(r) /\ live[r] \subseteq known[r])
    /\ base' = [base EXCEPT ![r] = IF Usable(r) THEN table ELSE NoFile]
    /\ known' = [known EXCEPT ![r] = IF Usable(r) THEN @ ELSE {}]
    /\ pc' = [pc EXCEPT ![r] = "fetch"]
    /\ UNCHANGED <<repoVars, fileVars, live, index, view, want, limited>>

(* The blobs to fetch: the new ones, or all of them.  A blob never changes *)
(* and is only ever deleted, so fetching them one by one comes to the same *)
(* as fetching them at once, earlier.                                      *)
ToFetch(r) == IF base[r] = NoFile THEN live[r] ELSE live[r] \ known[r]

(* A slip: superseded blobs count as well. *)
FetchAll(r) ==
    /\ pc[r] = "fetch" /\ ~Cached
    /\ live[r] \subseteq blobs
    /\ Loaded(r, Smallest(live[r]))
    /\ UNCHANGED <<repoVars, fileVars, live, want>>

(* load_index_lenient: the index is merged in memory. *)
FetchUncached(r) ==
    /\ pc[r] = "fetch" /\ ~Cached
    /\ live[r] \subseteq blobs
    /\ Loaded(r, Smallest(Effective(live[r])))
    /\ UNCHANGED <<repoVars, fileVars, live, want>>

(* A new blob supersedes one that was merged: start over. *)
MustRebuild(r) == base[r] # NoFile /\ known[r] \cap Superseded(ToFetch(r)) # {}

FetchRebuild(r) ==
    /\ pc[r] = "fetch" /\ Cached
    /\ ToFetch(r) \subseteq blobs
    /\ MustRebuild(r)
    /\ base' = [base EXCEPT ![r] = NoFile]
    /\ known' = [known EXCEPT ![r] = {}]
    /\ UNCHANGED <<repoVars, fileVars, pc, live, index, view, want, limited>>

(* The table to write: the fetched blobs that no fetched blob supersedes,  *)
(* over the old table.                                                     *)
FetchMerge(r) ==
    LET new == Effective(ToFetch(r)) IN
    /\ pc[r] = "fetch" /\ Cached
    /\ ToFetch(r) \subseteq blobs
    /\ ~MustRebuild(r)
    /\ base' = [base EXCEPT ![r] = IF @ = NoFile THEN Records(new) ELSE Over(Records(new), @)]
    /\ known' = [known EXCEPT ![r] = @ \cup new]
    /\ pc' = [pc EXCEPT ![r] = "write"]
    /\ UNCHANGED <<repoVars, fileVars, live, index, view, want, limited>>

(* A reader that already has an index keeps it; one that opens the         *)
(* repository gives up.                                                    *)
LoadFails(r) ==
    /\ pc' = [pc EXCEPT ![r] = IF index[r] = NoFile THEN "idle" ELSE "ready"]
    /\ want' = [want EXCEPT ![r] = NoChunk]
    /\ known' = [known EXCEPT ![r] = NoFile]
    /\ base' = [base EXCEPT ![r] = NoFile]
    /\ UNCHANGED <<repoVars, fileVars, live, index, view, limited>>

(* A blob of the listing was deleted before it was read. *)
FetchFails(r) ==
    /\ pc[r] = "fetch"
    /\ ~(ToFetch(r) \subseteq blobs)
    /\ LoadFails(r)

(***************************************************************************)
(* Writing the cache: the table, then the manifest.                        *)
(***************************************************************************)

(* A slip: the manifest is in place before the table is. *)
WriteTableLast(r) ==
    /\ pc[r] = "write"
    /\ tmpTable' = base[r]
    /\ manifest' = known[r]
    /\ pc' = [pc EXCEPT ![r] = "rename"]
    /\ UNCHANGED <<repoVars, table, tmpManifest, live, known, base, index, view, want, limited>>

(* DiskTable::build_sorted: the new table, in its temporary file. *)
WriteTable(r) ==
    /\ pc[r] = "write"
    /\ tmpTable' = base[r]
    /\ pc' = [pc EXCEPT ![r] = "rename"]
    /\ UNCHANGED <<repoVars, manifest, table, tmpManifest, live, known, base, index, view, want, limited>>

RenameTable(r) ==
    /\ pc[r] = "rename" /\ tmpTable # NoFile
    /\ table' = tmpTable /\ tmpTable' = NoFile
    /\ pc' = [pc EXCEPT ![r] = "reopen"]
    /\ UNCHANGED <<repoVars, manifest, tmpManifest, live, known, base, index, view, want, limited>>

ReopenTable(r) ==
    /\ pc[r] = "reopen" /\ table # NoFile
    /\ base' = [base EXCEPT ![r] = table]
    /\ pc' = [pc EXCEPT ![r] = "describe"]
    /\ UNCHANGED <<repoVars, fileVars, live, known, index, view, want, limited>>

WriteManifest(r) ==
    /\ pc[r] = "describe"
    /\ tmpManifest' = known[r]
    /\ pc' = [pc EXCEPT ![r] = "publish"]
    /\ UNCHANGED <<repoVars, manifest, table, tmpTable, live, known, base, index, view, want, limited>>

RenameManifest(r) ==
    /\ pc[r] = "publish" /\ tmpManifest # NoFile
    /\ manifest' = tmpManifest /\ tmpManifest' = NoFile
    /\ Loaded(r, base[r])
    /\ UNCHANGED <<repoVars, table, tmpTable, live, want>>

(* The file was renamed away by another process, or lost. *)
WriteFails(r) ==
    /\ \/ pc[r] = "rename" /\ tmpTable = NoFile
       \/ pc[r] = "reopen" /\ table = NoFile
       \/ pc[r] = "publish" /\ tmpManifest = NoFile
    /\ LoadFails(r)

(***************************************************************************)
(* Readers.                                                                *)
(***************************************************************************)

Open(r) ==
    /\ pc[r] = "idle"
    /\ pc' = [pc EXCEPT ![r] = "list"]
    /\ UNCHANGED <<repoVars, fileVars, live, known, base, index, view, want, limited>>

(* Mount saw a new snapshot and loads the index again. *)
Refresh(r) ==
    /\ pc[r] = "ready" /\ want[r] = NoChunk
    /\ view[r] # blobs
    /\ pc' = [pc EXCEPT ![r] = "list"]
    /\ UNCHANGED <<repoVars, fileVars, live, known, base, index, view, want, limited>>

Readable(r, x) == x \in DOMAIN index[r] /\ index[r][x] \in packs

(* read_chunk_reloading: the first read finds no chunk or no pack; the     *)
(* index is loaded again unless that happened a moment ago.                *)
Miss(r, x) ==
    /\ pc[r] = "ready" /\ want[r] = NoChunk
    /\ x \in Needed \cap Chunks(blobs)
    /\ ~Readable(r, x)
    /\ want' = [want EXCEPT ![r] = x]
    /\ pc' = [pc EXCEPT ![r] = IF limited[r] THEN "ready" ELSE "list"]
    /\ UNCHANGED <<repoVars, fileVars, live, known, base, index, view, limited>>

RetryFound(r) ==
    /\ pc[r] = "ready" /\ want[r] # NoChunk /\ Readable(r, want[r])
    /\ want' = [want EXCEPT ![r] = NoChunk]
    /\ UNCHANGED <<repoVars, fileVars, pc, live, known, base, index, view, limited>>

(* The second read fails: the file is reported as damaged. *)
RetryLost(r) ==
    /\ pc[r] = "ready" /\ want[r] # NoChunk /\ ~Readable(r, want[r])
    /\ want' = [want EXCEPT ![r] = NoChunk]
    /\ UNCHANGED <<repoVars, fileVars, pc, live, known, base, index, view, limited>>

MinutePasses(r) ==
    /\ limited[r]
    /\ limited' = [limited EXCEPT ![r] = FALSE]
    /\ UNCHANGED <<repoVars, fileVars, pc, live, known, base, index, view, want>>

(* The reader is done, or is killed in the middle of a load. *)
Stop(r) ==
    /\ pc[r] = "ready" \/ (Faults /\ pc[r] # "idle")
    /\ pc' = [pc EXCEPT ![r] = "idle"]
    /\ live' = [live EXCEPT ![r] = {}]
    /\ known' = [known EXCEPT ![r] = NoFile]
    /\ base' = [base EXCEPT ![r] = NoFile]
    /\ index' = [index EXCEPT ![r] = NoFile]
    /\ view' = [view EXCEPT ![r] = {}]
    /\ want' = [want EXCEPT ![r] = NoChunk]
    /\ limited' = [limited EXCEPT ![r] = FALSE]
    /\ UNCHANGED <<repoVars, fileVars>>

(* A cache file is deleted or found damaged. *)
LoseFile ==
    /\ Faults
    /\ \/ manifest # NoFile /\ manifest' = NoFile /\ UNCHANGED table
       \/ table # NoFile /\ table' = NoFile /\ UNCHANGED manifest
    /\ UNCHANGED <<repoVars, tmpManifest, tmpTable, readerVars>>

Next ==
    \/ \E p \in Pack, b \in Blob : Backup(p, b)
    \/ \E drop \in SUBSET packs : PrunePlan(drop)
    \/ \E b \in Blob, new \in SUBSET Pack, marked \in SUBSET packs : PruneIndex(b, new, marked)
    \/ PruneNoIndex \/ PruneDelete \/ PruneEnds
    \/ LoseFile
    \/ \E r \in Reader :
        \/ Open(r) \/ Refresh(r) \/ ListIndexes(r) \/ ReadManifest(r)
        \/ UseTable(r) \/ OpenTable(r)
        \/ FetchUncached(r) \/ FetchRebuild(r) \/ FetchMerge(r) \/ FetchFails(r)
        \/ WriteTable(r) \/ RenameTable(r) \/ ReopenTable(r)
        \/ WriteManifest(r) \/ RenameManifest(r) \/ WriteFails(r)
        \/ \E x \in Chunk : Miss(r, x)
        \/ RetryFound(r) \/ RetryLost(r) \/ MinutePasses(r) \/ Stop(r)

Spec == Init /\ [][Next]_vars
-----------------------------------------------------------------------------
(* The shape of every variable; a reader that reads chunks has an index.   *)
TypeOK ==
    /\ packs \subseteq Pack /\ blobs \subseteq Written
    /\ \A b \in Written : lists[b] \in Seq(Pack) /\ supersedes[b] \subseteq Written
    /\ prunePc \in {"idle", "index", "delete"}
    /\ manifest \in (SUBSET Blob) \cup {NoFile}
    /\ tmpManifest \in (SUBSET Blob) \cup {NoFile}
    /\ table \in Table \cup {NoFile}
    /\ tmpTable \in Table \cup {NoFile}
    /\ \A r \in Reader :
        /\ pc[r] \in {"idle", "list", "manifest", "table", "fetch", "write", "rename",
                      "reopen", "describe", "publish", "ready"}
        /\ live[r] \subseteq Written /\ view[r] \subseteq Written
        /\ index[r] \in Table \cup {NoFile}
        /\ pc[r] = "ready" => index[r] # NoFile
        /\ want[r] \in Chunk \cup {NoChunk}

(* A loaded index locates every chunk that the blobs of its *)
(* listing record: the cache loses nothing, whatever was interrupted while *)
(* it was written (cache.rs: an interruption between the table and the     *)
(* manifest at most makes the next load read more blobs).                  *)
LoadComplete ==
    \A r \in Reader :
        index[r] # NoFile => Chunks(Effective(view[r])) \subseteq DOMAIN index[r]

(* A loaded index names only packs of blobs that nothing in *)
(* its listing supersedes (repo.rs: a superseded blob is ignored entirely; *)
(* cache.rs: the manifest leaves superseded blobs out).                    *)
SupersededIgnored ==
    \A r \in Reader :
        index[r] # NoFile => Range(index[r]) \subseteq Listed(Effective(view[r]))

(* Once prune has collected the superseded blobs, the cache is right: what *)
(* a load returns then names only packs that the index lists - if no       *)
(* reader was killed while it wrote the cache.                             *)
HealsOnceCollected ==
    \A r \in Reader :
        index[r] # NoFile /\ ~Faults /\ Effective(view[r]) = view[r]
            => Range(index[r]) \subseteq Listed(view[r])

(* A chunk is there: in a stored pack of the index. *)
Available(x) == x \in HeldBy(IndexedPacks)

(* A read that fails the second time, with an index loaded from the blobs  *)
(* that are there now, and not from the cache, reports a chunk that really *)
(* is gone.                                                                *)
CurrentViewFinds ==
    [][\A r \in Reader :
        RetryLost(r) /\ ~Cached /\ view[r] = blobs => ~Available(want[r])]_vars
=============================================================================
