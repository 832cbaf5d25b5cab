# kist: TLA+ models, checks and proofs

kist keeps deduplicated, encrypted backups in an object store. Several clients
back up into one repository, readers restore and mount from it, and `prune`
collects garbage, all without a lock on the repository. This directory models
the parts where that is hard: the lock-free garbage collection, the requests to
the storage it rests on, the index and its local cache, the walk of a backup and
of a restore, the file system of a mount, retention, and the daemon that
schedules the jobs.

`PROJECT.json` lists components, runs, mutants, hazards, findings and theorems,
and maps every definition to the lines of the source it models.

## 1. Inventory

### Parts and state

| Part | Code | State | Operations |
| --- | --- | --- | --- |
| Repository | `kist-core/src/repo.rs`, `kist-format` | objects `config`, `packs/`, `indexes/`, `trees/` (+`.r1`), `snapshots/` (+`.r1`), `gc/`, `touch/`, `parity/` | put, conditional put, get, HEAD, LIST, delete |
| Backup | `backup.rs` | marks at start, index, trees seen, chunks reused, own packs | prepare (list marks, load index, walk, write packs and trees, touch), commit (age check, gate, snapshot) |
| Prune | `prune.rs`, `reach.rs` | plan: live chunks and trees, what to delete, mark, unmark, repack | plan; execute: repack, index, delete, unmark, mark, sweeps |
| rebuild-index | `rebuild.rs` | blobs and packs listed | list, read trailers, write one superseding blob |
| Index cache | `cache.rs`, `index.rs` | two files: table and manifest | load: reuse, merge or rebuild |
| Readers | `restore.rs`, `kist-mount` | an index held for hours | read a chunk, reload, read again |
| Forget | `forget.rs`, `snapshots.rs` | listing and plan | apply policy, delete replica, delete primary |
| Daemon | `kist-app/src/daemon.rs`, `schedule.rs`, `jobs.rs` | due times, trigger channel, queued / running / history, shutdown flag | wake, trigger, execute, shut down |
| Client id, job state | `client_id.rs`, `jobstate.rs` | small local files, a file lock | load or create, lock, record last success |
| Backends | `kist-backend/src/lib.rs`, `sftp.rs` | a directory, a bucket, an SFTP server, an rclone remote; a connection, an rclone process | scratch file and rename or link; lenient conditional put on rclone; listing by walking; opening with a timer |
| Walk of a backup | `backup.rs`, `source.rs`, `fsmeta.rs`, `filter.rs` | directories being walked, the stream of the parent, counters, hard links read | plan roots, exclude, skip, reuse or read, write a tree |
| Restore | `restore.rs`, `dirhandle.rs`, `fsmeta.rs` | selection, open directories, loosened modes, hard link table | dry run, walk, make, link, dress, put back |
| Mount | `kist-mount/src/corefs.rs`, `vpath.rs`, `offsets.rs` | inode table, virtual levels, cache of chunks | lookup, read |
| check, chunker, formats, crypto, server, CLI | their crates | | |

The parts interact through the objects of the repository and their modification
times only. Two exceptions: processes of one user share the cache directory,
and the tasks of the daemon share a mutex, a channel and a watch.

### What is hard

* **Interleavings of requests.** A tree is named by its content, so a backup can
  meet a tree that prune has marked, is deleting or has just deleted. Between
  prune's HEAD and DELETE, between its delete of a tree and of the tree's
  replica and touch, between its plan and its marks, a backup can act.
* **Clocks and graces.** Safety rests on ages: of a mark (backend time against
  prune's clock), of a backup (client's clock), with a margin of one hour.
* **Stale views.** Marks listed at the start of a backup, an index loaded hours
  ago, a listing that forget works through, a cache that other processes write.
* **Crashes** between any two requests, and **deletes that fail**.
* **Several index blobs at once**: superseded blobs stay for a grace period, two
  rewrites may both be effective, a pack may be indexed and not stored.
* **Requests that are not atomic**: a conditional put over SFTP is five calls, a get
  is a stat and a read, on the rclone bridge a conditional put is a guess, replies get
  lost and the call is retried, a dead rclone may answer as if it were alive.
* **Two clocks of one machine**: the daemon computes a sleep on one and sleeps on the
  other; over a suspension they part.
* **File systems that change** under the walk of a backup and of a restore, with
  time stamps coarser than the clock, hard links, objects that change between their
  listing and their GET, and calls that fail half way.
* **Two walks that must agree**: the dry run and the restore, exclusion and the
  stream of the parent, what a mount shows and what a restore writes.

### What makes each part correct

A committed snapshot can be restored until it is forgotten (backup, prune,
rebuild-index, together); garbage does not stay for ever; readers find what is
there; a cache changes the time a load takes and nothing else; a policy deletes
what it means and never a whole group; an accepted job runs, once, and the
daemon stops when told. A request takes effect once or not at all; a snapshot
has exactly what the rules leave of the sources, each file with content of this
backup or known to be unchanged; a restore writes what was selected, inside its
target, and puts back what it loosened; a mount shows what a restore would write.

## 2. Modules

| Module | Models | Extends / uses |
| --- | --- | --- |
| `SnapshotStore` | what a repository promises: commit, damage-free keeping, forget | |
| `TreeGC` | backups and one prune on trees, touches, replicas, marks | instance of `SnapshotStore` |
| `PackGC` | backups, one prune with repack, rebuild-index on chunks, packs, index blobs, sidecars | instance of `SnapshotStore` |
| `IndexCache` | readers, the index cache, a changing index | |
| `ObjectStore` | what a backend promises of one request | |
| `Storage` | requests over SFTP, rclone and atomic stores; init, commit, touch, forget, list on top | instance of `ObjectStore` |
| `Connect` | opening an SFTP or an rclone connection | |
| `Mount` | lookups, inodes, virtual levels, reads of a mount | |
| `Filter` | path patterns, and their meaning | |
| `BackupWalk` | which nodes a backup stores, and the stream of its parent | `Filter` |
| `FileReuse` | which content a backup records for a file that may change | |
| `RestoreWalk` | which nodes a restore writes; dry run, directories, modes | `Filter` |
| `RestoreEntry` | how one file, hard link or symlink gets into place | |
| `Forget` | retention, and the two puts of a snapshot | |
| `Daemon` | the job loop, triggers, schedules, shutdown | |
| `TreeGCProofs`, `PackGCProofs`, `StorageProofs`, `FileReuseProofs`, `IndexCacheProofs`, `MountProofs` | theorems about the module of that name (section 4) | that module, `TLAPS` |
| `RestoreProofs` | theorems about `Filter`, `RestoreEntry` and `RestoreWalk` (section 4) | those, `TLAPS` |
| `MaintenanceProofs` | theorems about `Forget` and `Daemon` (section 4) | those, `TLAPS` |

Modules for TLC: `MCTreeGC`, `MCTreeGCSound`, `MCPackGC`,
`MCIndexCache`, `MCStorage`, `MCMount`, `MCPaths`, `MCBackup`, `MCRestore` give
their modules small constants. `MCAccess`, `MCMaintenance` and `MCFiles` put
models that share no state next to each other, in one run: a variable says which
one is at work, and the others keep an initial state. Nothing is composed by this but the question: a property
of one model is checked over all its behaviours and is constant elsewhere.

`MCTreeGCSound` adds the assumption `TimingSound`, so that TLC evaluates it on
every run whose result depends on it. Each module has a type invariant or states
the types of its variables in their comments. Every module with proofs has its
types proved, in the module's type invariant or as a part of the inductive one;
`Daemon` only for the variables its theorems speak of.

A definition whose comment begins with "Slip" (or "A slip") is a plausible
mistake in the definition after it. Nothing uses it: the properties are tested
by putting it in the place of the real one, and each of them then fails.

### TreeGC and the code

One step is one request to the backend. Objects are functions from trees to
modification times (`Absent` = -1), stamped by the backend's clock `now`.

*Backup* (`backup.rs`): `BackupStart` and `ListGcMarks` are the start of
`backup_prepare`; `WriteTree`, `ReadExisting`, `HealTree`, `WriteReplica` and
`TouchTree` are the requests of `write_tree`; `CommitAt` / `BackupTooLong` is
the age check; `VerifyTouchedTrees`, `HeadTree`, `HeadTouch`, `TreeMarked` are
the gate; `CommitSnapshot` is the put. `UnmarkedTreesKept` speaks of the time until the
backup is as old as prune's grace, on prune's clock; `RevivalKept` of the touch of a
tree, not of the tree, whose absence the gate finds. The content of a backup is any set of
trees from `Contents`, chosen at the start.

*Prune* (`prune.rs`): `PruneStart`, `WalkReferences` (or `PruneUnsafe`),
`ListTrees`, `PlanPrune` are `prune_plan`; the rest follows `execute` step by
step: `HeadTarget`, `HeadTargetTouch`, `DeleteTree`, `DeleteReplica`,
`DeleteTouch`, `RemoveMark`, `PutMark`, `SweepTouch`, `DeleteOrphanTouch`.
`DryRun`, `DeleteFails`, `PruneFails` are its other ends.

Time is explicit. `Tick` lets a backup past its age check stall for at most
`MaxStall`; the code does not bound this. `WindowClosed` says that no gate completes between prune's HEADs
and its DELETE; the code does not enforce that either (run `tree_window`).

### PackGC and the code

Packs and blobs have random names, so a name is written once. Each blob lists
packs and names the blobs it supersedes; the index is the union of the blobs no
stored blob supersedes. Backups list marks, load the index, reuse chunks of
unmarked packs (`Reusable`, by the rank of `canonical_rank`), upload the others
with their sidecars, write a blob, and pass the gate of
`verify_referenced_chunks`. Prune loads the index, walks, plans, repacks,
rewrites the index, deletes, unmarks, marks and sweeps sidecars. rebuild-index
lists blobs, then packs, reads every trailer and writes a superseding blob.
`--inactive-after` is 0 here: active clients delay deletions, which only makes
them later, and that rule is in `TreeGC`.

### IndexCache and the code

`manifest` and `table` are the files of the cache directory, `tmpManifest` and
`tmpTable` their temporary files, whose names do not differ between processes.
`ListIndexes` … `RenameManifest` follow `IndexCache::load`, `rebuild` and
`write`; `Miss`, `RetryFound`, `RetryLost` are `read_chunk_reloading`. The
repository side is reduced to what `PackGC` shows of it. A temporary file is
written in one step, so writes of two processes interleaved inside one file are
left out. All blobs of a load are read in one step: a blob never changes, and
one that is gone by then fails the load (`FetchFails`). The repository starts
with one blob: a manifest that names no blob at all, under a table an interrupted
load left behind, is left out. `mode`, chosen once, says whether the repository is
opened with a cache directory and whether readers are killed.

### ObjectStore, Storage, Connect and the code

`ObjectStore` has `put`, `put_if_absent`, `get` and `delete` of `Backend` as calls
that take effect at one moment or fail; a lenient store lets a later writer of
a conditional put win. `Storage` goes through `put_opts` of `sftp.rs` call by call:
`Stat`, `EnsureDir`, `OpenScratch`, `WriteScratch`, `Publish` (hard link, or rename
on rclone), `Restat`, `Clean`; a get is `Size`, the stat of `get_opts`, and `Read`, which
takes as many bytes as that said of what is there by then (`Cut`: the beginning of a
longer object, `UnexpectedEof` of a shorter one; the contents have a `Length`); `OpenDir`
and `EndList` are `walk`. A key is a file
in one of a few directories, a content is the client that wrote it. `AtomicRequest`
is a directory or S3, where the client library repeats a call whose answer was
lost. On top are the callers that depend on the details: `init` with its
read-back, `commit_snapshot` with its three keys, a touch, a forget, a read, a listing.
`RequestsAtomic` says that each of these calls is a step of `ObjectStore`, which
lets a get answer "truncated" if the object was replaced since it looked.

A connection that breaks ends a request with an error (`Drop`, `ListFails`). An
rclone process that dies in mid-session is worse: ADR 014 (lines 138 to 140) saw that
what is sent to it may for a while seem to succeed. `Die` and `FalseSuccess` are
that: requests that are answered with a bare status, a put, a rename, a delete, are
reported done and nothing happens; a stat and a read cannot be made up. `ObjectStore`
has it as `Pretend`, since the backend promises no more. So the code's reported commit
over rclone is a promise only while the process that answered lives, and
`CommitKept` says it so.

`Connect` is `connect_stdio`, `connect` and `authenticate`: host key, agent, key file,
password over SSH, or an rclone process, its exit and the timer; then the exchange of
versions of either. The agent, the server and rclone may stay silent at every step.
When the stream ends, `Sftp::new` may fail or hang (ADR 014, lines 107 to 118). For
rclone the `select!` with `wait()` and 30 seconds gets out of all that. Over SSH
the code has no timer of its own; the 600 seconds of `inactivity_timeout`
(`sftp.rs:304`) belong to the library (`Lost`) and cover neither the agent nor
a server that keeps talking nor that hang. So that an SSH attempt ends is not claimed:
`ConnectEnds` is about rclone.

### Mount and the code

A call is cut where it waits for the repository: `LookupClient`, `LookupSnapshot`,
`ReadSnapshot`, `ReadRoot` (once per root, may fail: then the root counts as a
directory), `ShowSnapshot`, `RealInode`, `ReadTree`; `ReadFile`, `ResolveFile`,
`ChunkCached`, `ChunkMissing`, `FetchChunk`. `BuildLevels` is `VirtualRoot::build`. Two
threads call at once. `NamesTrue` compares what is behind every number with
`PlaceOf`, where a restore would write. Nested roots are left out: a backup merges
its sources into outermost ones. The mount and the restore both take a directory
that holds only one file of its own name for a file (`docs/format.md` §9 documents it).

### Filter, BackupWalk, FileReuse and the code

`Filter` moves a set of positions down a path (`descend`, `add`, `matched`,
`may_match_below`); `Matching` is the meaning of the patterns without positions.
`BackupWalk` plans the roots (`backup_prepare`: outermost sources, named ones), decides
what a root is (`RootFails`, `DirRoot`, `FileRoot`: a local one by its lstat, which may
find it gone, a remote one by the first item of its listing, `FileByListing`), walks
one entry per step with the checks in the order of `walk_dir`, cuts large trees
into parts, and looks names up in the stream of the parent, whose parts may be
unreadable. `Meant` and `Seen` say what a snapshot should hold; `KeptExact` compares
them, and the counters, with what was written. A remote source is an SFTP directory or
an S3 prefix without a slash at its end; a prefix with nothing under it is a directory
and is stored empty. `Filter` has a class of characters as a set; without regard to case letters of one
lower form stand for each other, where the code tries the lower and the upper form of
the character it meets (which differ only for a letter with a third form). `FileReuse` has two files under two
names, `lstat`, open, read in two halves, the shortcut (`Unchanged`), the table of
hard links and the snapshot's start; another process writes, moves and links files
at any moment, with stamps cut to `Tick`, and may put an earlier content back. Of an
object, the entry has the etag of the listing and the content of a GET after that;
`mixed` remembers the objects for which the two were not the same.

### RestoreWalk, RestoreEntry and the code

`RestoreWalk` runs the dry run and then the restore, as the two walks of the code:
`child`, `visit`, `credit`, the place to restore to that is made late, directories
made or opened, loosened (`make_owner_writable`), dressed and put back. `RestoreEntry`
takes one script of entries through the calls of `restore_file_entry`,
`link_to_first`, `link_over`, `restore_symlink` and `apply_meta`, each of which may fail or
be the last, while another process swaps a directory for a symlink or puts
something under a name; `put` remembers what it put where. Handles are
directories, not paths, as in `dirhandle.rs`. A script may have one name twice, as
overlapping sources do; what a target may hold before is `Before`.

### Forget and the code

`apply_policy` is the single pass over a group, newest first, folded over the
sorted candidates; `Keeps` is what the policy means, stated without an order.
Buckets of two kinds that do not nest stand for hours to years: only equality
and order of buckets matter to the code. Listing, reading and deciding are one
step (snapshots never change; a failed read ends the command before it deletes
anything); each delete is a step. `config` is the configured policy, or `NotSet`
where each forget gets its own on the command line.

### Daemon and the code

One action per step of `run`: `Plan`, the three branches of `select!` (`Wake`,
`SeeShutdown`, `Receive` / `Unlist`), `Start` and `Finish` around a job,
`Record`; `OnceNext` for `run --once` (`once`, chosen at the start); `Trigger` and `Signal` are the other
tasks; `Crash` and `Boot` the service manager. A cron expression is a period,
an expression without a next occurrence is left out. `Plan` computes once how long the
sleep is; `Tick` counts it down, `Suspend` moves the wall clock and leaves it. The clock
does not go backwards: a wall clock set back could run an occurrence twice.

## 3. Runs

| Run | Shows |
| --- | --- |
| `tree_protocol` | with replicas, crashes and failing deletes: restorability, and what a running backup relies on |
| `tree_liveness` | two trees, the window open: garbage goes and revived trees lose their marks, unless a snapshot stays damaged (`Damaged`): prune's walk then refuses for ever, and what is garbage, or marked, of the other tree stays so |
| `pack_repack` | repack against a backup that reuses what nobody referenced, with crashes of backups and packs that cannot be read: the index names stored packs, reused packs stay, no chunk is lost |
| `pack_rebuild` | rebuild-index against prune and backups, with crashes of prune, failing deletes and sidecars that are not written: phantom packs mislead nobody, so `PackGC` implements `SnapshotStore`, and a pack keeps its sidecar |
| `access` | index: a load misses nothing, the cache is right again once superseded blobs are gone, with a current index no stored chunk is reported lost. Requests: those of `ObjectStore` on SFTP and rclone, a committed snapshot stays, two inits settle, listings are faithful. Mount: names stand for what a restore would write, reads are exact |
| `maintenance` | daemon: the queue shown is exact, triggers run, what passed during a job or a downtime is not made up for, it stops. Connections through rclone end. Forget: every plan is what the policy means, a group survives, old plans delete nothing the policy keeps |
| `files` | backup: what is stored and counted is what the rules leave, the stream of the parent finds every entry, an unchanged file is recorded as it is, any other with content of this backup (but for objects that were replaced between listing and GET). Restore: selection, dry run, blocked places, loosened directories; entries: inside the target, nothing in the way is lost, setuid only with the owner, hard links together |

Runs that show the code doing other than a document or comment says (the
quotations are under `findings`):

| Run | Shows |
| --- | --- |
| `tree_window` | the touch and the gate do not close the HEAD-to-DELETE window |
| `cache_stale` | the second load after an index rewrite merges superseded blobs back |
| `cache_shared` | two processes leave a manifest that does not fit its table |
| `backup_stale` | a file changed after it was read, in the tick in which the backup started, is reused stale from then on |
| `backup_etag` | an object replaced between listing and GET is recorded with the etag of its old content; when that comes back, the wrong content is reused from then on |

`tree_window` needs a whole gate within one round trip, which ADR 005 accepts.
`cache_stale` needs no concurrency at all: prune, then two loads. `backup_stale`
needs stamps coarser than the clock (`Tick` 2 instead of 1): with exact stamps the
run `files` checks the same property and it holds. `backup_etag` needs an object
that changes and changes back, with equal sizes; `QuietFileExact` and
`ContentOfThisBackup` except what it shows (`mixed`).

Other things met while modelling, which the models contain without a run of their own:

* `daemon.rs:4-6` and the repository's README say that an occurrence which a suspension
  of the machine passes over is skipped. The loop computes its sleep once, from the wall
  clock, and counts it on the monotonic one (`daemon.rs:280`), which stands still: the
  occurrence is run after the wake-up. `MissedSkipped` states what is true: what a job or
  a downtime passes over is skipped, what a suspension does is late by all of it.
* A remote source is taken for one file by the first item of its listing
  (`backup.rs:1092`), where the comment at 1082 speaks of exactly one item of the
  locator's last name. A directory whose first item is a file of the directory's own name
  is then read as that file, which fails; on S3, with an entry of the last snapshot that
  has the same etag and size, the backup succeeds and the rest of the source is missing.
  `KeptExact` excepts such sources (`Mistaken`); without that it fails in `files`.
* A prefix below an S3 source is stored as a directory and counted
  (`backup.rs:1391`), where `docs/format.md:296-297` says `dirs=0`. `KeptExact` counts
  them as the code does.
* A symlink or directory below a root that vanishes while it is looked at
  (`backup.rs:1322`), or an object and a prefix of one name, make a tree the
  format refuses and end the whole backup (`PartRefused`), where `backup.rs:219` says that
  what cannot be read is skipped and the snapshot written.
* A backup that stalls in its gate for longer than the margin commits after its
  grace: the age is compared once (`MaxStall` larger than `SafetyMargin`).
* A `--gc-grace` longer than prune's `--grace` can lose a tree
  (`BackupGrace` larger than `PruneGrace`); the assumption `TimingSound` excludes it.
* rebuild-index can list a pack that prune is deleting. A backup that reuses such a
  pack is saved by its gate, if another stored pack holds the chunk and its mark is
  not expired; but prune may delete that one too before the snapshot is written, as
  soon as the backup stalls at all after its gate and both graces are equal, which
  they are by default (72 h). `GateSound` in `PackGCProofs` is the inequality that
  excludes it; a grace for prune that is longer than a backup's gives room.
* A tree put back between prune's delete of it and of its replica is committed
  without a replica.
* Over rclone a commit, a touch or a forget may be reported done by a process that has
  died and has done nothing; ADR 014 records it as a known limit. A reported snapshot may
  then not exist; `init` reads its config back, which a dead rclone cannot make up.
* A get that races an overwrite over SFTP may return the beginning of a longer object.
  The objects are authenticated, so the caller fails.
* A reader killed between table and manifest leaves records of a superseded blob
  that later loads use after the blob is gone (`HealsOnceCollected` is stated for
  readers that are not killed).
* A pack deleted within a minute of a reload makes a reader report a chunk as lost
  that another pack holds (`CurrentViewFinds` is stated for a current index).
* Between the receive and the lock two jobs can be listed as queued, where a
  comment of `daemon.rs` says at most one.
* Over rclone, where a directory goes with its last object, a listing that comes to
  such a directory ends there and reports success (`sftp.rs:1056`); `ListFaithful` asks
  for complete listings on the other stores only, `ListComplete` says it for all.
* The counter of files includes one that had vanished (`backup.rs:1437` comes
  before the skip).
* The shortcut does not look at the inode of a file with one link, nor at ctime
  where none was recorded; on S3 the etag alone decides.
* An entry that is doubled across the boundary of two parts of a large directory
  passes the reader's check, which looks at one part at a time.
* `replace_with_symlink` removes what is there before it makes the link; if that
  fails, the name is empty.
* The hard link table of a restore remembers a path: if another process replaces
  the first name, later names are linked to the replacement, or to whatever had been
  put there when the link was made, even if it is moved again. `ExistingKept`
  therefore speaks of all that was ever put under a name of the file.
* With sources that overlap, one name comes twice in a snapshot. If it had become
  another file between the two, later links of the first would go to the second;
  `ScriptsAssumption` leaves that out.

### Bounds

* Trees are independent in the protocol, but for prune's walk, which refuses over a
  damaged snapshot of any of them. Where no snapshot is damaged, in `tree_protocol`,
  one tree and one client, which backs up again and again, exhibit it; times run to at
  least two graces, so that a mark can be put, expire and be acted upon twice. The
  theorems hold for any number of either. In `tree_liveness` the window is open and
  the walk does refuse, so there are two trees and backups of either or both. Its graces
  are short: with prune's clock two ticks ahead (`PruneOffset`), marks expire and windows
  open within the one tick the clock has (698,000 states). So short a grace does not
  satisfy `TimingSound`, which these two properties do not need: it is another way for
  snapshots to be damaged. Without `<>[]Damaged` in
  them both properties of that run fail.
* `PackGC` uses one or two chunks and two or three packs: a pack, its repacked
  copy and a pack of a backup. Blobs are symmetric. The runs start from a
  repository in use, with a pack only part of which is referenced. `MaxBackup`
  bounds the length of a backup. What may fail is divided between the two runs
  (`Faults`): with all of it in one, there are too many states. In `pack_repack` a
  backup may last a tick, and stall for one between its check of the time and its
  snapshot, which makes `TimingSound` an equality; in `pack_rebuild` it ends within
  a tick, and besides the old blob there are two new ones, so that any two of
  rebuild-index, prune and a backup write one each.
* `IndexCache` uses blob names whose order differs from their creation, since
  names are hashes: the first blob is 2 of {1, 2, 3}. Where readers are killed
  prune repacks nothing (`NoRepackKilled`).
* `Storage`: three clients under two ids, so that two try the same keys and one
  does not; plans for what they do, one with a read beside two writers of different
  `Length`. A connection may break at any request, an rclone may die at any.
* `Mount`: two threads and five calls (`MaxCalls`), enough to come from the top to a file
  and read it while the other thread looks the same names up; two snapshots with
  shared parents, a flattened root, a file root and a directory that looks like one;
  a file of four chunks, one empty and one twice, and a cache of one (`CacheCap`).
* `Forget`: every plan is made for every set of five times in two groups, and none
  is carried out (`PlansOnly` cuts only that part); two overlapping forgets have four
  times and one group.
* `Daemon`: four ticks with periods two and four (once due together), two
  triggers, a history of two; suspensions of any length within the four ticks.
* `Connect`: every combination of transport, host key, agent, keys and password.
* `BackupWalk`: twenty nodes on three file systems with markers, large files, a
  symlink and a special file; buckets and SFTP directories of the same nodes, an object
  beside a prefix, roots that are files, empty, or named like their first item; four pattern lists, three marker sets, size and file
  system rules, five source sets, three kinds of trouble, in every combination.
  `MaxNodes` and `WalkDepth` are small enough to be met.
* `FileReuse`: two names, two changes, two snapshots, two ticks: a change before,
  in the middle of and after a backup, a change back, and a link between the two names.
  In `files`, `FewFiles` leaves out what would only multiply the states (1.7 million as
  it is): two local files of equal content, what one of them had at the start in
  another, and time for objects, whose stamps nobody
  reads.
* `RestoreWalk`: three snapshots (one with an unreadable tree), seven includes,
  three excludes, seven subtrees, and targets with directories in place, read-only,
  blocked or failing. `RestoreEntry`: scripts of up to three entries, two acts of the
  other process (`Meddles`), any number of failing calls. Two are needed: with one, a
  linked name seems to have what was put *last* under a name of its file; the
  attempt to prove that failed, and two acts show why.

`CHECK_DEADLOCK FALSE` is used where a bounded clock, a bounded number of calls or
a program that has ended stops everything.

### Fairness

* `TreeGC!FairSpec`: prune is run again and again and its steps go on
  (cron or the daemon); the clock moves. Backups get no fairness.
* `Daemon!LoopFair`: the loop runs and a job ends; strong fairness for the trigger
  and the shutdown branches, because `tokio::select!` picks at random among the
  branches that are ready.
* `Connect!ConnFair`: an answer that has arrived is read, `wait()` returns once the
  process has ended, and 30 seconds pass. The server, the agent and rclone owe nothing,
  nor does `Sftp::new` at the end of a stream; no step before the exchange of versions
  is fair, so nothing follows for SSH.

## 4. Proofs

51 theorems and 483 lemmas, in eight modules; each holds for every value of the
constants that the `ASSUME`s of the model allow, and of the assumption named here:

| Module | Theorem | States | Assumes |
| --- | --- | --- | --- |
| `TreeGCProofs` | `TypeCorrect` | types | |
| | `Invariance` | `IInv` | `TimingSound`, `WindowClosed` |
| | `Restorability`, `RunningBackups`, `Revivals` | `SnapshotsRestorable`, `UnmarkedTreesKept`, `RevivalKept` | the same |
| | `Refinement` | implements `SnapshotStore` | the same |
| `PackGCProofs` | `TypeCorrect`, `Invariance` | types, `IInv` | |
| | `ParityFollowsPack` | `ParityKept` | |
| | `IndexNeverDangles`, `ReusedPacks` | `IndexStored`, `ReusedPacksKept` | `NoPhantoms` |
| | `Recoverability`, `Refinement` | `SnapshotsRecoverable`, implements `SnapshotStore` | `TimingSound`, and `NoPhantoms` or `GateSound` |
| `StorageProofs` | `StorageInvariance`, `StorageTypeCorrect` | `IInv`, types | |
| | `CommitsKept`, `InitsSettle`, `ListsFaithful` | `CommitKept`, `InitSettled`, `ListFaithful` | |
| | `AtomicRequests` | SFTP and rclone implement `ObjectStore` | |
| `IndexCacheProofs` | `IndexInvariance`, `IndexTypeCorrect` | `IInv`, types | |
| | `DamageIsReal` | `CurrentViewFinds` | |
| | `CacheInvariance`, `LoadsComplete`, `CacheHeals` | `CacheInv`, `LoadComplete`, `HealsOnceCollected` | `Alone` |
| `FileReuseProofs` | `ReuseInvariance` | `IInv` with the types | `Tick = 1` |
| | `QuietFilesExact`, `NothingForeign` | `QuietFileExact`, `ContentOfThisBackup` | `Tick = 1` |
| `RestoreProofs` | `EntryInvariance` | `IInv` with the types | |
| | `OutsideStays`, `NeverHalf`, `SetuidSafe`, `LinksRestored` | `OutsideUntouched`, `ExistingKept`, `SetuidWithOwner`, `LinkedTogether` | |
| | `WalkKeeps`, `LoosenedAlwaysRestored` | `WalkKept`, `LoosenedRestored` | |
| | `GlobExact` | `GlobMatch` is `MeansName` | |
| | `FilterExact`, `PruneSafe` | a walk down a path knows `Matching` and `Decision`, and misses nothing | |
| | `NothingUnaskedEver` | `NothingUnasked` | |
| `MountProofs` | `MountInvariance` | `MountRight`, with the types | |
| | `ReadsExact` | `ReadExact` | |
| | `NumbersStay`, `OneNumber`, `NamesAlwaysTrue` | `NumbersKept`, `NamesOnce`, `NamesTrue` | |
| `MaintenanceProofs` | `ForgetInvariance` | `ForgetInv` with the types | |
| | `PlansExact`, `GroupsSurvive`, `StalePlansSafe` | `PlanMatchesPolicy`, `GroupSurvives`, `StalePlanSafe` | |
| | `DaemonInvariance` | `IInv` | |
| | `QueueExact`, `NoMakingUp` | `QueueListed`, `MissedSkipped` | |

`Refinement` of `TreeGC` is proved and not checked by a run of its own: beside
`SnapshotsRestorable` it only says what a commit and a forget may change. `Revivals` and
`RunningBackups` say what their properties say (section 2), not that a tree outlives
its backup. `AtomicRequests` is about `ObjectStore` with what it allows a get and a dead
rclone. `NoMakingUp` is about jobs and downtimes that take long; what the loop sleeps
through is late, and not skipped (section 3).

### Assumptions

* `TimingSound` (`TreeGC`, `PackGC`): `BackupGrace - Margin + MaxStall + PruneOffset <= PruneGrace`,
  the limit of a backup's age, its stall after the check and prune's clock error
  stay within prune's grace. By default both graces are 72 h and the margin is an
  hour, so stall and clock error may be an hour together.
* `WindowClosed` (`TreeGC`): no whole gate of a backup between prune's HEAD and its
  DELETE. `tree_window` is the counterexample without it.
* `NoPhantoms` (`PackGC`): nobody runs rebuild-index, and no backup runs longer than
  twice prune's grace, 144 h by default. A backup that lasts longer than its own
  grace never commits (`BackupTooLong`), but it may go on to write packs; so long a
  backup could put a pack into the index that prune has already deleted. That
  makes the index dangle and harms no snapshot.
* `GateSound` (`PackGC`): a mark the gate takes for young stays too young for prune
  until the snapshot is written. It is what `verify_referenced_chunks` needs where
  rebuild-index may run; with equal graces it leaves no room for a stall (section 3).
  `pack_rebuild` has it, with no stall; `pack_repack` has `NoPhantoms`.
* `Alone` (`IndexCache`): one reader at a time uses the cache directory, or nobody has
  a cache. `cache_shared` is the counterexample without it. That a chunk reported
  lost is lost (`DamageIsReal`) needs no such thing, since the second try is without the cache.
* `Tick = 1` (`FileReuse`): stamps of files as fine as the start of a backup.
  `backup_stale` is the counterexample for `Tick = 2`. Contents may come back. The two
  theorems except, as their properties do, objects that were at some time replaced between
  a listing and the GET; `backup_etag` is the counterexample without that.
* `ScriptsAssumption`, `BeforeAssumption` (`RestoreEntry`, `ASSUME`s): a name that comes
  twice is the same file, the names of one file record the same content and mode, and
  the target has files, directories, symlinks and special files, not the
  temporary name. The scripts are any such sequences of any length.
* `SnapshotsAssumption`, `RequestsAssumption`, `WorldsAssumption` (`RestoreWalk`, `ASSUME`s):
  the roots, the entries of a tree and the paths of roots and requests are lists, a
  directory entry has its tree, a mode was recorded or not, and no directory of the
  target has been loosened before the restore comes.
* `NamesAssumption` (`RestoreWalk`, an `ASSUME`): names are bytes and patterns have been parsed,
  as `PathFilter::new` leaves them; `LettersAssumption` (`Filter`): a byte outside of any
  UTF-8 sequence is a character with a lower case too (itself).
* `ForgetConstants`, `BucketsInOrder` (`Forget`, `ASSUME`s): finitely many groups, each
  once in the order of the map, and buckets that are numbers and do not go back in
  time. `GroupsSurvive` and `StalePlansSafe` are about forgets that name no snapshot, and
  the second about forgets that all use the configured policy, as the properties say.

* `MountTrees` (`Mount`, an `ASSUME`): the snapshots are complete, every tree and every chunk
  below their roots is there and the index has its length. A read of any of them may fail.
* `MountSnapshots` (`Mount`, an `ASSUME`): a tree has a name once (`Tree::validate`), a
  snapshot has at least one root (`Snapshot::validate`), and no root is inside another, as
  `backup_prepare` merges the sources of a backup into outermost ones.

### The inductive invariants

No property here but the types is inductive as it stands. What each invariant adds:

* `TreeGC`. What protects a tree changes as a backup moves on. While the backup runs,
  a tree unmarked at its start is there because a mark put since has not expired
  (`MarkAge`, `DoomedExpired`), a tree marked at the start has been revived by its
  touch, which later deletes cannot take away (`RevivalKept`, `Regrown`). Past the
  gate, the tree was seen after the revival, so a prune under way will see it too
  (`Verified`, `Defended`), and the commit is in time (`Deadline`). Once committed,
  whichever prune is planning has it live, unexpired or revived, and whichever is
  deleting finds it revived (`SnapshotsDefended`).
* `PackGC`. The chain is longer, as the index lies in between. Names are written once
  (`Names`), what prune deletes was marked a grace ago (`PruneTimes`), every stored
  blob that does not count is superseded by one that does (`IndexShape`), what prune
  and rebuild-index have loaded stays valid (`PruneIndex`, `RebuildIndex`), a backup's
  own packs and the marks of those it reuses are as young as the backup (`OwnPacks`,
  `ReusedMarks`). These need nothing of the clocks. On top of them: the new index lacks what
  will be deleted (`IndexAhead`); each reused chunk is in a stored pack that passed
  the gate or is still to pass it (`Verified`); each chunk of a snapshot has a pack
  that prune is not about to delete (`SnapshotsHeld`).
* `Storage`. Where a request can be and with which answer (`Progress`); who owns a key,
  from the link or rename that made it over the answer to the outcome (`ConfigOwned`,
  `ConfigWritten`, `CommitOwned`); over SFTP an object keeps its directories
  (`DirsStay`); a listing has found an object or still has its directory to open (`Listing`).
* `IndexCache`. Of the superseded blobs left, the newest rewrite supersedes every one
  (`NewestRules`), so what counts in a listing counts in the repository; no current
  blob names a pack that is gone or about to go (`IndexedStored`). For the cache: the
  table has what the manifest says (`FilesCover`), in every half-done load too (`LoadCovers`,
  `OwnFiles`), and, where nobody was killed, no more (`FilesName`).
* `FileReuse`. An entry of a snapshot is right for a file whose ctime is before the
  snapshot's start (`SnapsExact`): this is what a coarse `Tick` breaks. What the
  step at hand has looked at, read or linked is the present file, unless it has
  changed since the start (`StatOwn`, `ReadingOwn`, `LinkedOwn`). The etag of an object
  that was never replaced under the backup is that of the content beside it, in every
  snapshot (`SnapsExact`), so that it proves what it is compared for.
* `RestoreEntry`. The first name of a file stands for it, or for something others have
  put there (`FirstNamed`, `FirstKept`); the temporary name is ours (`TempKept`, `Fresh`);
  what is in the way at the rename came after the last look (`Looked`). While nobody
  meddles, each restored name has a file made for it or for a name of the same file
  (`NamesMade`, `AsFirst`).
* `RestoreWalk`. A directory that is loosened is that of a level, and the level knows it
  (`WalkKept`), so that it can be put back. A level that was made has all those above it
  made and prepared (`Ensure` goes from the top), and nothing but `Ensure` loosens: the
  level that is left without its metadata, as its entries could not be read or its
  parent could not be made, is one that was not prepared, and so not loosened. A placement
  has no recorded mode, so the failures that end a whole restore leave nothing behind.
  What the walks choose (`SelectionRight`): the positions at a place or a level are
  right for its whole path, from the root of the snapshot on (`PosRight`, by the lemmas of
  `FilterExact` at each name that is passed); a level is never that of an excluded directory, and
  since exclusion goes down (`ExcludedBelow`), nor is any above it, so `Ensure` makes none.
  `NothingUnasked` follows, under whatever fails. It is
  the part of `SelectionExact` that says nothing comes that is not asked for, but for
  directories that lead to nothing, and it holds of the restore too; no run lists it. That
  nothing is missing needs an induction over the trees.
* `Filter`. Parts of a pattern, tokens over a name or components over a path, are laid out by
  saying where each ends (`Laid`); stars and `**` take what they like. That going back to
  the last star is enough is one lemma about layouts (`EarlierIsEnough`): what comes before a
  star can be laid out as early as it was first found. The loop has the value of that
  statement at each of its states (`GlobValue`, `ValueTurns`). The positions of a
  pattern at a node are those up to which the path can be laid out (`StandsOn`,
  `StandsAbove`), and one name more takes right positions to right ones (`FilterDescends`).
* `Forget`. What is in a plan has a newer snapshot of its group in the store
  (`NewerStays`): a valid policy keeps the newest, and if that newer one is itself deleted,
  by any forget, its own newer one takes its place. With one policy, what is in a plan is
  still dropped from what is stored now (`NotKept`): a snapshot that comes gives no reason to
  keep an older one (`KeptAmongFewer`), and where one goes, whatever would take its
  place was kept before it (`StillDropped`).
* `Mount`. What a read has put together is its file from its offset to where it is, and it
  is before its end (`CallRight`), so that there is a chunk to look for (`LocateFacts`), past
  empty ones, and a round takes at least a byte of it (`CopyFacts`). What a lookup
  has found out stays right, as numbers are only added (`GrowKeeps`). The order of the
  cache names no chunk twice (`CacheRight`). `NamesOnce`, the first part of `NamesTrue`,
  holds as the answers are what is remembered (`AnswersRight`). For the second, what is behind
  a name is a child of what is behind the number of its directory, which is smaller, and a call that waits has
  found such a child, or roots as they are, unless it is doubtful (`NumbersRight`). A level
  shows the roots in it and the next directory towards each below (`LevelsShow`), root by
  root, since none is in the way of another (`NothingInTheWay`); so the children of what
  is right are right (`RightDeeper`), and so is every number, by way of its names (`PathsPlaced`).
* `Daemon`. The list, the channel and the job in hand agree (`TriggersListed`); what the
  loop waits for is later than the last end (`TimesAhead`).

The proofs go by effects: each step of prune, backup, client or reader is first
reduced to what it does to the variables of one part of the invariant
(`PruneEffects`, `StepEffects`, ...), and the part is proved from that.

What the attempts to prove showed of the models: `ContentOfThisBackup` had to speak
of names that shared a file one after the other (`Kin`); `ExistingKept` of everything
ever put under a name, and of the entries counted for a name; the scripts and targets
of `RestoreEntry` needed their assumptions said; `GateSound` was found as what was
missing; `PlansExact` needed buckets to be in order, as `BucketsInOrder` says, since the
code remembers only the last one of each kind. As the invariants are proved, no run repeats those that are not properties
of their own.

### Only model-checked

* Liveness and fairness: `tree_liveness`, the triggers and the end of `Daemon`, `Connect`.
* Definitions by recursion over data (trees in `BackupWalk` and `RestoreWalk`): what they compute for every input needs an
  induction over data, which the provers here do not do. TLC enumerates inputs. The
  matcher of `Filter`, the fold and the concatenation of `Forget`, and the ends of chunks, the levels, the place
  of a path and the paths of numbers of `Mount`, are proved about, as they recurse over numbers: the induction
  is one over a set of numbers (`UpTo`), and a function that obeys such a recursion
  is shown to exist (`FoldExists`, `ChainExists`, `RecursionExists`).
* The findings, each a counterexample of TLC.

## 5. Not modelled, and the plan

Not modelled, and why:

* encodings, cryptography, chunker, parity arithmetic: functions of bytes without
  state; the models take names, chunks and contents as values;
* `check` and repair: a sequential report; its inputs are objects that are damaged
  inside, which no module has;
* HTML, metrics, notifications, argument and URL parsing, FUSE plumbing, xattrs,
  Windows, progress;
* directory handles of a mount: a listing is copied when it is opened and never
  changes;
* range reads, listing with a delimiter, copies and the error output of the rclone
  process in `sftp.rs`;
* the client id file and the time of the last success: one small file each,
  written in place by one process. A crash in that write leaves a file that later
  starts refuse, or one that only feeds a metric;
* two prunes at a time, as `docs/format.md` §13.4 recommends one.

Left to do: proofs. That the two walks visit all they should (`SelectionExact`, `DryRunFaithful`,
`BlockedPlaceFails`, `KeptExact`, `StreamFinds`), `RunningBackups` of
`TreeGC` without `WindowClosed`, the safety of `Connect`.
