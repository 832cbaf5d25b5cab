----------------------------- MODULE FileReuse -----------------------------
(***************************************************************************)
(* Which content a backup records for a file (kist-core/src/backup.rs,     *)
(* fsmeta.rs, kist-backend/src/source.rs): a file whose metadata say that  *)
(* it has not changed is not read again, its content is taken from the     *)
(* last snapshot; the other names of a file that has been read get what    *)
(* was read.  Meanwhile the files change.                                  *)
(*                                                                         *)
(* File names are numbers, in the order in which the walk comes to them.   *)
(* Contents are numbers too: a change brings a new one or one that there   *)
(* was before.                                                             *)
(***************************************************************************)
EXTENDS Naturals, Sequences, FiniteSets

CONSTANTS
    FileCount,  \* the names are 1 .. FileCount
    Kinds,      \* of sources: "posix", "s3", "sftp"
    Tick,       \* the grain of the time stamps of files; a backup knows its start exactly
    Long,       \* the contents that are longer than the others
    MaxClock,
    MaxChanges,
    MaxSnapshots

ASSUME GrainAssumption == Tick \in Nat \ {0} /\ FileCount \in Nat \ {0}

VARIABLES
    kind,       \* of the source
    clock,
    inode,      \* the files: content and times
    file,       \* the file behind every name
    changes,    \* how often the files changed
    snaps,      \* the snapshots: when they were started and their entries
    step,       \* what the running backup does next
    nth,        \* the name it has come to
    start,
    items,      \* what the listing has said of every name
    stat,       \* what lstat has said of this one
    reading,    \* the file that is read, and what its beginning was
    linked,     \* the hard links of this backup that have been read
    entries,    \* the entries of this backup
    had,        \* what every name has had for content since it started
    behind,     \* the files it has been a name of since then
    settled,    \* the names whose files nothing has happened to since
    mixed       \* the objects that were once replaced between listing and reading

reuseVars == <<kind, clock, inode, file, changes, snaps, step, nth, start, items, stat, reading,
               linked, entries, had, behind, settled, mixed>>

FileNames == 1 .. FileCount
Torn == 0
NoEntry == [is |-> FALSE, data |-> 0, size |-> 0, mtime |-> 0, ctime |-> 0, ino |-> 0]
NoItem == [size |-> 0, etag |-> 0]
NoStat == [mtime |-> 0, ctime |-> 0, ino |-> 0, nlink |-> 0]
NoLinks == << >>
NotReading == [ino |-> 0, data |-> 0]
NothingRecorded == [n \in FileNames |-> NoEntry]

OnDisk(data, mtime, ctime) == [data |-> data, mtime |-> mtime, ctime |-> ctime]
Content(n) == inode[file[n]].data
Size(data) == IF data \in Long THEN 2 ELSE 1
Nlink(i) == Cardinality({n \in FileNames : file[n] = i})
Local == kind = "posix"

-----------------------------------------------------------------------------
(* The files.                                                              *)

\* What the kernel puts on a file that changes now.
Stamp == clock - (clock % Tick)

NewContent == FileCount + changes + 1
Contents == 1 .. NewContent

InBackup == step # "idle"
Changed(names) ==
    /\ changes < MaxChanges
    /\ changes' = changes + 1
    /\ settled' = settled \ names
    /\ had' = [n \in FileNames |-> IF InBackup THEN had[n] \cup {inode'[file'[n]].data} ELSE {}]
    /\ behind' = [n \in FileNames |-> IF InBackup THEN behind[n] \cup {file'[n]} ELSE {}]
    /\ UNCHANGED <<kind, clock, snaps, step, nth, start, items, stat, reading, linked, entries,
                   mixed>>

Group(n) == {m \in FileNames : file[m] = file[n]}

\* The time of the last write can be set to what it was; ctime cannot.
WriteFile(n) ==
    /\ \E data \in Contents \ {Content(n)}, mtime \in {Stamp, inode[file[n]].mtime} :
          inode' = [inode EXCEPT ![file[n]] = OnDisk(data, mtime, Stamp)]
    /\ UNCHANGED file
    /\ Changed(Group(n))

\* Another file is renamed over the name; the old one has a name less.  Of an
\* object every write is a whole new one.
ReplaceFile(n) ==
    /\ kind # "s3"
    /\ \E data \in Contents, mtime \in {Stamp, inode[file[n]].mtime} :
          inode' = Append([inode EXCEPT ![file[n]].ctime = Stamp], OnDisk(data, mtime, Stamp))
    /\ file' = [file EXCEPT ![n] = Len(inode) + 1]
    /\ Changed(Group(n))

LinkFile(n, m) ==
    /\ Local /\ file[n] # file[m]
    /\ inode' = [inode EXCEPT ![file[n]].ctime = Stamp, ![file[m]].ctime = Stamp]
    /\ file' = [file EXCEPT ![n] = file[m]]
    /\ Changed(Group(n) \cup Group(m))

Passes ==
    /\ clock < MaxClock
    /\ clock' = clock + 1
    /\ UNCHANGED <<kind, inode, file, changes, snaps, step, nth, start, items, stat, reading,
                   linked, entries, had, behind, settled, mixed>>

-----------------------------------------------------------------------------
(* The backup.                                                             *)

outside == <<kind, clock, inode, file, changes, had, behind, settled>>

Listed(n) == [size |-> Size(Content(n)), etag |-> Content(n)]

\* backup_prepare.  A remote listing comes as a whole.
StartBackup ==
    /\ step = "idle" /\ Len(snaps) < MaxSnapshots
    /\ step' = (IF Local THEN "list" ELSE "decide")
    /\ nth' = 1
    /\ start' = clock
    /\ items' = [n \in FileNames |-> IF Local THEN NoItem ELSE Listed(n)]
    /\ stat' = NoStat
    /\ entries' = NothingRecorded
    /\ had' = [n \in FileNames |-> {Content(n)}]
    /\ behind' = [n \in FileNames |-> {file[n]}]
    /\ settled' = FileNames
    /\ UNCHANGED <<kind, clock, inode, file, changes, snaps, reading, linked, mixed>>

\* LocalListing: every name is looked at when its turn comes ...
List ==
    /\ step = "list"
    /\ items' = [items EXCEPT ![nth] = Listed(nth)]
    /\ step' = "stat"
    /\ UNCHANGED <<outside, snaps, nth, start, stat, reading, linked, entries, mixed>>

\* ... and once more in process_entry_inner.
Stat ==
    /\ step = "stat"
    /\ LET i == file[nth]
       IN stat' = [mtime |-> inode[i].mtime, ctime |-> inode[i].ctime,
                   ino |-> i, nlink |-> Nlink(i)]
    /\ step' = "decide"
    /\ UNCHANGED <<outside, snaps, nth, start, items, reading, linked, entries, mixed>>

\* fill_posix_meta: the number of a file is recorded when it has other names.
RecordOf(data, size) ==
    [is |-> TRUE, data |-> data, size |-> size,
     mtime |-> stat.mtime, ctime |-> stat.ctime, ino |-> IF stat.nlink > 1 THEN stat.ino ELSE 0]

ToNextName ==
    /\ items' = [items EXCEPT ![nth] = NoItem] /\ stat' = NoStat /\ reading' = NotReading
    /\ step' = (IF nth = FileCount THEN "commit" ELSE IF Local THEN "list" ELSE "decide")
    /\ nth' = (IF nth = FileCount THEN nth ELSE nth + 1)
    /\ UNCHANGED <<outside, snaps, start>>

Record(entry) == entries' = [entries EXCEPT ![nth] = entry] /\ ToNextName

\* find_parent, and the entry of the name in it.
Parent == snaps[Len(snaps)]
ParentEntry == IF snaps = <<>> THEN NoEntry ELSE Parent.entries[nth]

\* A slip: what changed during the last backup is not told apart.
UnchangedUnguarded(previous, now, parentStart) ==
    /\ previous.mtime = now.mtime
    /\ previous.ctime = now.ctime
    /\ previous.ino # 0 => previous.ino = now.ino

\* unchanged.
Unchanged(previous, now, parentStart) ==
    /\ previous.mtime = now.mtime
    /\ previous.ctime = now.ctime
    /\ previous.ino # 0 => previous.ino = now.ino
    /\ now.mtime < parentStart
    /\ now.ctime < parentStart

\* try_reuse: an entry of S3 has what the listing said as its fingerprint.
Proven ==
    /\ ParentEntry.is
    /\ ParentEntry.size = items[nth].size
    /\ \/ kind = "posix" /\ Unchanged(ParentEntry, stat, Parent.start)
       \/ kind = "s3" /\ ParentEntry.mtime = items[nth].etag

\* The chunks of the parent are in the index and in packs without marks.
Reuse ==
    /\ step = "decide" /\ Proven
    /\ Record(IF Local THEN RecordOf(ParentEntry.data, ParentEntry.size) ELSE ParentEntry)
    /\ UNCHANGED <<linked, mixed>>

Key == stat.ino
IsLinked == Local /\ stat.nlink > 1
LinkKnown == IsLinked /\ Key \in DOMAIN linked

HardLink ==
    /\ step = "decide" /\ LinkKnown
    /\ Record(RecordOf(linked[Key], Size(linked[Key])))
    /\ UNCHANGED <<linked, mixed>>

\* The file is opened.  Of an object the answer is one whole; the fingerprint
\* that is recorded with it is the one of the listing.
Read ==
    /\ step = "decide"
    /\ ~LinkKnown
    /\ IF kind = "s3"
       THEN /\ Record([NoEntry EXCEPT !.is = TRUE, !.data = Content(nth),
                                      !.size = Size(Content(nth)), !.mtime = items[nth].etag])
            /\ mixed' = IF Content(nth) = items[nth].etag THEN mixed ELSE mixed \cup {nth}
       ELSE /\ reading' = [ino |-> file[nth], data |-> Content(nth)]
            /\ step' = "read"
            /\ UNCHANGED <<outside, snaps, nth, start, items, stat, entries, mixed>>
    /\ UNCHANGED linked

\* What is read is what the file had, unless it changed half way.
ReadOn ==
    /\ step = "read"
    /\ LET data == IF inode[reading.ino].data = reading.data THEN reading.data ELSE Torn
       IN /\ Record(RecordOf(data, Size(data)))
          /\ linked' = IF IsLinked THEN [k \in DOMAIN linked \cup {Key} |->
                                            IF k = Key THEN data ELSE linked[k]]
                       ELSE linked
    /\ UNCHANGED mixed

\* It cannot be read, or is gone: there is no entry.
Skip ==
    /\ step \in {"list", "stat", "decide", "read"}
    /\ step = "decide" => ~LinkKnown
    /\ Record(NoEntry)
    /\ UNCHANGED <<linked, mixed>>

\* A slip: the table outlives the backup.
EndedKeepsLinks ==
    /\ step' = "idle" /\ nth' = 1 /\ start' = 0
    /\ items' = [n \in FileNames |-> NoItem] /\ stat' = NoStat /\ reading' = NotReading
    /\ entries' = NothingRecorded
    /\ had' = [n \in FileNames |-> {}] /\ behind' = [n \in FileNames |-> {}] /\ settled' = {}
    /\ UNCHANGED <<kind, clock, inode, file, changes, linked, mixed>>

\* Nothing is left of the Backup.
BackupEnded ==
    /\ step' = "idle" /\ nth' = 1 /\ start' = 0
    /\ items' = [n \in FileNames |-> NoItem] /\ stat' = NoStat /\ reading' = NotReading
    /\ linked' = NoLinks /\ entries' = NothingRecorded
    /\ had' = [n \in FileNames |-> {}] /\ behind' = [n \in FileNames |-> {}] /\ settled' = {}
    /\ UNCHANGED <<kind, clock, inode, file, changes, mixed>>

CommitEntries ==
    /\ step = "commit"
    /\ snaps' = Append(snaps, [start |-> start, entries |-> entries])
    /\ BackupEnded

Abort == InBackup /\ BackupEnded /\ UNCHANGED snaps

ReuseInit ==
    /\ kind \in Kinds
    /\ clock = 1
    /\ inode = [i \in FileNames |-> OnDisk(i, 0, 0)]
    /\ file \in {f \in [FileNames -> FileNames] :
                    f[1] = 1 /\ (kind # "posix" => f = [n \in FileNames |-> n])}
    /\ changes = 0 /\ snaps = <<>>
    /\ step = "idle" /\ nth = 1 /\ start = 0
    /\ items = [n \in FileNames |-> NoItem] /\ stat = NoStat /\ reading = NotReading
    /\ linked = NoLinks /\ entries = NothingRecorded
    /\ had = [n \in FileNames |-> {}] /\ behind = [n \in FileNames |-> {}] /\ settled = {}
    /\ mixed = {}

ReuseNext ==
    \/ \E n \in FileNames : WriteFile(n) \/ ReplaceFile(n) \/ \E m \in FileNames : LinkFile(n, m)
    \/ Passes
    \/ StartBackup \/ List \/ Stat \/ Reuse \/ HardLink \/ Read \/ ReadOn \/ Skip
    \/ CommitEntries \/ Abort

ReuseSpec == ReuseInit /\ [][ReuseNext]_reuseVars

-----------------------------------------------------------------------------
Recorded == {n \in FileNames : InBackup /\ entries[n].is}

\* A file that nothing happens to while a backup runs is recorded with the
\* content that it has, whatever happened to it during the backups before:
\* what was read too early, half way or through another name stays in one
\* snapshot, and is not taken over into the next.  Except for an object that was
\* ever replaced between its listing and its GET (EtagProves).
QuietFileExact == \A n \in (Recorded \cap settled) \ mixed : entries[n].data = Content(n)

\* docs/format.md, 8.2: an object of S3 is taken over by its etag, a fingerprint
\* that proves its content.  The code does not keep this: it records the etag of
\* the listing with what a later GET returned, and that etag may come back.
EtagProves == kind = "s3" => \A n \in Recorded \cap settled : entries[n].data = Content(n)

\* What is recorded for any other is at least something of this backup: the
\* name has had it since it started, or another name has that was a name of
\* the same file at some time since, or a change has torn it.  The two names
\* need not have shared the file at one time: a name that is replaced between
\* its lstat and its open leaves what it is then in the table of hard links.
\* The objects of EtagProves are excepted here too.
Kin(n) == {m \in FileNames : behind[m] \cap behind[n] # {}}
ContentOfThisBackup ==
    \A n \in Recorded \ mixed :
        \/ \E m \in Kin(n) : entries[n].data \in had[m]
        \/ entries[n].data = Torn /\ n \notin settled
=============================================================================
