----------------------------- MODULE BackupWalk -----------------------------
(***************************************************************************)
(* Which nodes of its sources a backup stores (kist-core/src/backup.rs):   *)
(* the roots it plans, the walk over them with the rules that exclude,     *)
(* what cannot be read, the parts of a large directory, and the stream in  *)
(* which the walk looks up the entries of the last snapshot.  What becomes *)
(* of the content of a file is in FileReuse.                               *)
(*                                                                         *)
(* A path is a sequence of names.  A tree is written under the path it is  *)
(* the tree of, as the sequence of its parts.  A remote source is an SFTP  *)
(* directory or an S3 prefix whose locator does not end in a slash.        *)
(***************************************************************************)
EXTENDS Filter, SequencesExt

CONSTANTS
    Backups,    \* what backups are asked for, and what they meet
    NameOrder,  \* all names, in the order of their bytes
    MaxNodes,   \* MAX_NODES_PER_TREE
    WalkDepth   \* MAX_TREE_DEPTH, of the walk of a backup

VARIABLES
    job,        \* the backup: its sources, rules and parent, and the file system
    status,     \* "plan", "walk", "done", or "failed"
    plans,      \* the roots that are still to be walked
    levels,     \* the directories from a root down to where the walk is
    trees,      \* the trees that have been written
    report,     \* excluded and errors, and the stats of the snapshot
    used        \* the entries of the parent that the walk has found

backupVars == <<job, status, plans, levels, trees, report, used>>

NoReport == [excluded |-> 0, errors |-> 0, files |-> 0, dirs |-> 0, symlinks |-> 0]
NoPrevious == [name |-> <<>>, kind |-> "none"]

-----------------------------------------------------------------------------
(* The sources.                                                            *)

Node(path) == job.fs[path]
Exists(path) == path \in DOMAIN job.fs
Rank(name) == CHOOSE k \in DOMAIN NameOrder : NameOrder[k] = name
Gone(path) == path \in job.vanishing
LocalSource == job.source = "local"

\* Source::list: sorted by name.  A store may have an object by the name of a
\* directory.
Listing(path) ==
    LET here(k) == Append(path, NameOrder[k])
        item(k, kind) == [name |-> NameOrder[k], kind |-> kind]
        items(k) == IF ~Exists(here(k)) THEN <<>>
                    ELSE IF Node(here(k)).twin THEN <<item(k, "dir"), item(k, "file")>>
                    ELSE <<item(k, Node(here(k)).kind)>>
    IN FlattenSeq([k \in DOMAIN NameOrder |-> items(k)])

\* head_root_file: on S3 the root of a source may be an object.
IsObject(path) ==
    job.source = "s3" /\ Exists(path) /\ (Node(path).kind = "file" \/ Node(path).twin)

\* Source::list of the root itself, where such an object hides the rest.
RootListing(path) ==
    IF IsObject(path) THEN <<[name |-> Last(path), kind |-> "file"]>> ELSE Listing(path)

\* Whether a root is taken for a file: a remote one by the first item alone.
FileByListing(path) ==
    IF LocalSource THEN Node(path).kind # "dir"
    ELSE /\ path # <<>> /\ RootListing(path) # <<>>
         /\ Head(RootListing(path)) = [name |-> Last(path), kind |-> "file"]

\* Source::probe and markers_in: a marker with a header is a regular file
\* that starts with it.
MarkersIn(dir) ==
    LET found(m) == LET path == Append(dir, m.name)
                    IN /\ path \notin job.unprobed
                       /\ Exists(path)
                       /\ m.header # "" => Node(path).kind = "file" /\ Node(path).head = m.header
    IN {m.name : m \in {n \in job.rules.ifPresent : found(n)}}

\* backup_prepare: a source in another is a part of that.
Outermost == {p \in job.paths : ~\E q \in job.paths : IsStrictPrefix(q, p)}

Named(path) == path \in job.paths
Toward(path) == \E p \in job.paths : IsStrictPrefix(path, p)

-----------------------------------------------------------------------------
(* The entries of the parent, a part at a time.                            *)

NoStream == [parts |-> <<>>, current |-> <<>>]

\* A slip: it is dropped.
LeftDropped(ahead) == Tail(ahead)

\* The entry of a later name stays for that.
Left(ahead) == ahead

\* ParentStream::take_name: the names asked for go up.  A part that cannot be
\* read ends the stream.
TakeName(stream, name) ==
    LET ahead(k) == SelectSeq(IF k = 0 THEN stream.current ELSE stream.parts[k].entries,
                              LAMBDA e : Rank(e.name) >= Rank(name))
        answer(entry, k, current) ==
            [entry |-> entry,
             rest |-> [parts |-> SubSeq(stream.parts, k + 1, Len(stream.parts)), current |-> current]]
        loop[k \in 0 .. Len(stream.parts)] ==
            IF ahead(k) # <<>> /\ Head(ahead(k)).name = name
            THEN answer(Head(ahead(k)), k, Tail(ahead(k)))
            ELSE IF ahead(k) # <<>> THEN answer(NoPrevious, k, Left(ahead(k)))
            ELSE IF k < Len(stream.parts) /\ stream.parts[k + 1].reads = 2 THEN loop[k + 1]
            ELSE [entry |-> NoPrevious, rest |-> NoStream]
    IN loop[0]

\* find_parent: only a snapshot of the same roots; ParentStream::open reads
\* all parts of the chain once.
ParentOf(root) == job.parentRoots = Outermost /\ root \in DOMAIN job.parent
OpenStream(known, path) ==
    IF known /\ \A k \in DOMAIN job.parent[path] : job.parent[path][k].reads > 0
    THEN [parts |-> job.parent[path], current |-> <<>>]
    ELSE NoStream

\* try_reuse, in short: the parent has the file and it is unchanged since.  Of an
\* SFTP source it is read again.
Reused(path, entry) == entry.kind = "file" /\ path \in job.unchanged /\ job.source # "sftp"

-----------------------------------------------------------------------------
(* The walk.                                                               *)

TopLevel == levels[Len(levels)]
Item == Head(TopLevel.todo)
ItemPath == Append(TopLevel.path, Item.name)

OpenLevel(path, known, filter, dev, pass) ==
    [path |-> path,
     todo |-> IF path \in job.unlisted THEN <<>> ELSE Listing(path),
     stream |-> IF path \in job.unlisted THEN NoStream ELSE OpenStream(known, path),
     markers |-> IF pass THEN {} ELSE MarkersIn(path),
     filter |-> filter, dev |-> dev, pass |-> pass, children |-> <<>>, parts |-> <<>>]

\* root_state.
RootState(path) ==
    FoldSeq(LAMBDA name, state : Descend(job.rules.patterns, state, name),
            Start(job.rules.patterns), path)

Unlisted(path) == IF path \in job.unlisted THEN 1 ELSE 0

\* Tree::validate: an entry of a local source has the metadata of its second
\* lstat, and the names go up.
ValidTree(entries) ==
    /\ \A k \in DOMAIN entries : entries[k].whole
    /\ \A k \in 1 .. Len(entries) - 1 : Rank(entries[k].name) < Rank(entries[k + 1].name)

WithEntry(level, entry) ==
    LET all == Append(level.children, entry)
    IN IF Len(all) < MaxNodes THEN [level EXCEPT !.children = all]
       ELSE [level EXCEPT !.children = <<>>, !.parts = Append(@, all)]

\* The entry completes a part that seal_tree refuses.
PartRefused(level, entry) ==
    Len(level.children) + 1 >= MaxNodes /\ ~ValidTree(Append(level.children, entry))

Counted(kind) ==
    [report EXCEPT !.files = IF kind = "file" THEN @ + 1 ELSE @,
                   !.dirs = IF kind = "dir" THEN @ + 1 ELSE @,
                   !.symlinks = IF kind = "symlink" THEN @ + 1 ELSE @]

TooLarge == Item.kind = "file" /\ Node(ItemPath).size > job.rules.largerThan
BesideMarker == TopLevel.markers # {} /\ Item.name \notin TopLevel.markers
ChildFilter == Descend(job.rules.patterns, TopLevel.filter, Item.name)

RuledOut == ~Named(ItemPath) /\ (ChildFilter.decision = "yes" \/ TooLarge \/ BesideMarker)

Passed == TopLevel.pass /\ ~Named(ItemPath) /\ ~Toward(ItemPath)

ItemExcluded == Passed \/ (RuledOut /\ ~Toward(ItemPath))

\* A file, or a directory, on another file system than what it was named in.
OtherFs ==
    /\ TopLevel.dev # 0 /\ ~Gone(ItemPath) /\ ~Named(ItemPath)
    /\ Node(ItemPath).dev # TopLevel.dev

\* File systems and entries without their metadata are of local sources.
AtItem == status = "walk" /\ levels # <<>> /\ TopLevel.todo # <<>>
Unlinkable == Item.kind = "symlink" /\ ItemPath \in job.unread
Processed ==
    /\ AtItem /\ ~Unlinkable /\ ~ItemExcluded
    /\ Item.kind = "dir" => Len(levels) < WalkDepth

Found == TakeName(TopLevel.stream, Item.name)
PastItem == [TopLevel EXCEPT !.todo = Tail(@)]
PastFound == [PastItem EXCEPT !.stream = Found.rest]
Looked == used \cup {[path |-> ItemPath, kind |-> Item.kind, entry |-> Found.entry]}

\* The next item, with nothing stored for this one.
Leave(level) ==
    /\ levels' = Append(Front(levels), level)
    /\ UNCHANGED <<job, status, plans, trees>>

\* LocalListing::next_item: the target of the link cannot be read.
ItemFails ==
    /\ AtItem /\ Unlinkable
    /\ report' = [report EXCEPT !.errors = @ + 1]
    /\ Leave(PastItem)
    /\ UNCHANGED used

ExcludeItem ==
    /\ AtItem /\ ~Unlinkable /\ ItemExcluded
    /\ report' = [report EXCEPT !.excluded = @ + 1]
    /\ Leave(PastItem)
    /\ UNCHANGED used

TooDeep ==
    /\ AtItem /\ ~ItemExcluded /\ Item.kind = "dir" /\ Len(levels) >= WalkDepth
    /\ report' = [report EXCEPT !.errors = @ + 1]
    /\ Leave(PastItem)
    /\ UNCHANGED used

\* process_file: what is reused need not be readable.  A local file that is no
\* longer there for lstat may still be there for open; it is counted before it is
\* skipped.
Unreadable ==
    \/ Item.kind = "file" /\ ItemPath \in job.unread /\ ~Reused(ItemPath, Found.entry)
    \/ Item.kind = "file" /\ Gone(ItemPath)
    \/ Item.kind = "other" /\ LocalSource

SkipItem ==
    /\ Processed /\ ~OtherFs /\ Unreadable
    /\ LET counted == IF LocalSource /\ ItemPath \notin job.unread THEN Counted(Item.kind) ELSE report
       IN report' = [counted EXCEPT !.errors = @ + 1]
    /\ used' = Looked
    /\ Leave(PastFound)

OtherFsFile ==
    /\ Processed /\ OtherFs /\ Item.kind \in {"file", "other"}
    /\ report' = [report EXCEPT !.excluded = @ + 1]
    /\ used' = Looked
    /\ Leave(PastFound)

EntryOf(path, kind) == [name |-> Last(path), kind |-> kind, whole |-> LocalSource => ~Gone(path)]

\* The entry of the item goes into level, the top of what stays.
Store(stack, level, path, kind) ==
    LET entry == EntryOf(path, kind)
    IN /\ levels' = Append(stack, WithEntry(level, entry))
       /\ status' = IF PartRefused(level, entry) THEN "failed" ELSE status

StoreLeaf ==
    /\ Processed
    /\ Item.kind = "symlink" \/ (Item.kind = "file" /\ ~OtherFs /\ ~Unreadable)
    /\ report' = Counted(Item.kind)
    /\ used' = Looked
    /\ Store(Front(levels), PastFound, ItemPath, Item.kind)
    /\ UNCHANGED <<job, plans, trees>>

\* What is named below is still walked to.
OtherFsDir ==
    /\ Processed /\ OtherFs /\ Item.kind = "dir" /\ ~Toward(ItemPath)
    /\ report' = [Counted("dir") EXCEPT !.excluded = @ + 1]
    /\ used' = Looked
    /\ trees' = trees @@ (ItemPath :> <<<<>>>>)
    /\ Store(Front(levels), PastFound, ItemPath, "dir")
    /\ UNCHANGED <<job, plans>>

\* A slip: inside of what is excluded the walk forgets that it is.
PassOn == RuledOut

\* Visit: below a directory that is excluded, or on another file system, only
\* what is named.
Pass == (~Named(ItemPath) /\ (TopLevel.pass \/ RuledOut)) \/ OtherFs

EnterDir ==
    /\ Processed /\ Item.kind = "dir" /\ (OtherFs => Toward(ItemPath))
    /\ LET dev == IF Named(ItemPath) /\ TopLevel.dev # 0 /\ ~Gone(ItemPath)
                  THEN Node(ItemPath).dev ELSE TopLevel.dev
       IN levels' = Append(Append(Front(levels), PastFound),
                           OpenLevel(ItemPath, Found.entry.kind = "dir", ChildFilter, dev, Pass))
    /\ report' = [report EXCEPT !.errors = @ + Unlisted(ItemPath)]
    /\ used' = Looked
    /\ UNCHANGED <<job, status, plans, trees>>

\* The last part, which may be empty; then the entry in the directory above.
CloseDir ==
    /\ status = "walk" /\ levels # <<>> /\ TopLevel.todo = <<>>
    /\ trees' = trees @@ (TopLevel.path :> Append(TopLevel.parts, TopLevel.children))
    /\ IF ~ValidTree(TopLevel.children)
       THEN status' = "failed" /\ UNCHANGED <<levels, plans, report>>
       ELSE IF Len(levels) = 1
       THEN levels' = <<>> /\ plans' = Tail(plans) /\ UNCHANGED <<status, report>>
       ELSE /\ report' = Counted("dir")
            /\ Store(Front(Front(levels)), levels[Len(levels) - 1], TopLevel.path, "dir")
            /\ UNCHANGED plans
    /\ UNCHANGED <<job, used>>

-----------------------------------------------------------------------------
(* The roots.                                                              *)

\* backup_prepare: every local source is there, a remote one is the only one and
\* has no device numbers.
Plan ==
    /\ status = "plan"
    /\ IF \/ LocalSource /\ \E p \in job.paths : ~Exists(p)
          \/ ~LocalSource /\ (Cardinality(job.paths) # 1 \/ job.rules.oneFileSystem)
       THEN status' = "failed" /\ UNCHANGED plans
       ELSE status' = "walk" /\ plans' = SetToSeq(Outermost)
    /\ UNCHANGED <<job, levels, trees, report, used>>

AtRoot == status = "walk" /\ levels = <<>> /\ plans # <<>>
Root == Head(plans)

\* A local root is looked at again; a remote one has to be listed to tell what it
\* is, and on SFTP a file cannot be.
NoRoot ==
    \/ LocalSource /\ (Gone(Root) \/ Node(Root).kind = "other")
    \/ ~LocalSource /\ Root \in job.unlisted
    \/ job.source = "sftp" /\ Exists(Root) /\ Node(Root).kind # "dir"

RootFails ==
    /\ AtRoot /\ NoRoot
    /\ status' = "failed"
    /\ UNCHANGED <<job, plans, levels, trees, report, used>>

\* A local directory that cannot be listed, and a prefix with nothing under it,
\* are stored empty.
DirRoot ==
    /\ AtRoot /\ ~NoRoot /\ ~FileByListing(Root)
    /\ levels' = <<OpenLevel(Root, ParentOf(Root), RootState(Root),
                             IF job.rules.oneFileSystem THEN Node(Root).dev ELSE 0, FALSE)>>
    /\ report' = [report EXCEPT !.errors = @ + Unlisted(Root)]
    /\ UNCHANGED <<job, status, plans, trees, used>>

\* The root tree of a file has one entry, by the last name of its path.  What is
\* read is the root itself, which for a directory that was taken for a file is
\* not an object; what is reused is what was listed.
RootItem == IF LocalSource \/ IsObject(Root) THEN Root ELSE Append(Root, Last(Root))
RootReads == (LocalSource \/ IsObject(Root)) /\ Root \notin job.unread /\ ~Gone(Root)

FileRoot ==
    /\ AtRoot /\ ~NoRoot /\ FileByListing(Root)
    /\ LET found == TakeName(OpenStream(ParentOf(Root), Root), Last(Root))
       IN IF RootReads \/ Reused(RootItem, found.entry)
          THEN /\ used' = used \cup {[path |-> Root, kind |-> "file", entry |-> found.entry]}
               /\ trees' = trees @@ (Root :> <<<<EntryOf(Root, "file")>>>>)
               /\ report' = Counted("file")
               /\ plans' = Tail(plans)
               /\ UNCHANGED status
          ELSE status' = "failed" /\ UNCHANGED <<plans, trees, report, used>>
    /\ UNCHANGED <<job, levels>>

Finish ==
    /\ status = "walk" /\ levels = <<>> /\ plans = <<>>
    /\ status' = "done"
    /\ UNCHANGED <<job, plans, levels, trees, report, used>>

BackupInit ==
    /\ job \in Backups
    /\ status = "plan" /\ plans = <<>> /\ levels = <<>>
    /\ trees = << >> /\ report = NoReport /\ used = {}

BackupNext ==
    \/ Plan \/ RootFails \/ DirRoot \/ FileRoot \/ Finish
    \/ ItemFails \/ ExcludeItem \/ TooDeep \/ SkipItem \/ OtherFsFile
    \/ StoreLeaf \/ OtherFsDir \/ EnterDir \/ CloseDir

-----------------------------------------------------------------------------
(* What the rules mean, of whole paths: what they leave out below a        *)
(* source, another source in it brings back, with the way to it.           *)

RootOf(path) == CHOOSE r \in Outermost : IsPrefix(r, path)
Above(path) == {q \in Prefixes(path) : q # path /\ IsPrefix(RootOf(path), q)}
Over(path) == Front(path)

\* The source that path is a part of: the one next to it.
SourceOf(path) ==
    CHOOSE p \in job.paths :
        IsPrefix(p, path) /\ \A q \in job.paths : IsPrefix(q, path) => IsPrefix(q, p)

LeftOut(path, kind) ==
    /\ ~Named(path)
    /\ \/ Decision(job.rules.patterns, path) = "yes"
       \/ kind = "file" /\ Node(path).size > job.rules.largerThan
       \/ MarkersIn(Over(path)) # {} /\ Last(path) \notin MarkersIn(Over(path))

Elsewhere(path) == job.rules.oneFileSystem /\ Node(path).dev # Node(SourceOf(path)).dev

Cut(path) ==
    \E q \in Above(path) : IsStrictPrefix(SourceOf(path), q) /\ (LeftOut(q, "dir") \/ Elsewhere(q))

KeptByRules(path, kind) ==
    \/ Named(path) \/ Toward(path)
    \/ ~Cut(path) /\ ~LeftOut(path, kind) /\ (kind \in {"file", "other"} => ~Elsewhere(path))

KeptEmpty(path) == Elsewhere(path) /\ ~Named(path) /\ ~Toward(path)
OverDepth(path) == Len(path) - Len(RootOf(path)) >= WalkDepth

\* The directories that the walk looks into, and what is in them.
LookedInto(path) ==
    \A q \in Above(path) \cup {path} :
        /\ q \notin job.unlisted
        /\ q # RootOf(path) =>
              KeptByRules(q, "dir") /\ ~OverDepth(q) /\ ~KeptEmpty(q)

\* What a source really is.
FileSources ==
    {p \in Outermost : Exists(p) /\ (IsObject(p) \/ Node(p).kind # "dir")}

Below ==
    {<<p, Node(p).kind>> :
        p \in {q \in DOMAIN job.fs : \E r \in Outermost \ FileSources : IsStrictPrefix(r, q)}}
Twins == {<<x[1], "file">> : x \in {y \in Below : Node(y[1]).twin}}
Seen == {x \in Below \cup Twins : LookedInto(Over(x[1]))}

\* The entry of a name in the same directory of the parent, unless a part before
\* it cannot be read.
EntryAt(path) ==
    LET parts == job.parent[Over(path)]
        good == {k \in DOMAIN parts : \A i \in 1 .. k : parts[i].reads = 2}
        there == {e \in UNION {ToSet(parts[k].entries) : k \in good} : e.name = Last(path)}
    IN IF (\E k \in DOMAIN parts : parts[k].reads = 0) \/ there = {} THEN NoPrevious
       ELSE CHOOSE e \in there : TRUE

InParent(path) ==
    /\ ParentOf(RootOf(path))
    /\ \A q \in Above(path) : q # RootOf(path) => EntryAt(q).kind = "dir"

Previous(path) == IF InParent(path) THEN EntryAt(path) ELSE NoPrevious

Unreachable(path, kind) ==
    \/ kind = "dir" /\ OverDepth(path)
    \/ kind = "symlink" /\ path \in job.unread
    \/ kind = "file" /\ (Gone(path) \/ (path \in job.unread /\ ~Reused(path, Previous(path))))
    \/ kind = "other" /\ LocalSource

Meant == {x \in Seen : KeptByRules(x[1], x[2]) /\ ~Unreachable(x[1], x[2])}

StoredIn(path) == {<<Append(path, e.name), e.kind>> : e \in ToSet(FlattenSeq(trees[path]))}
Directories == DOMAIN trees \ FileSources

WalkDone == status = "done"

BrokenLink(x) == x[2] = "symlink" /\ x[1] \in job.unread

StoredExact(meant) ==
    /\ UNION {StoredIn(p) : p \in Directories} = meant
    /\ Directories = (Outermost \ FileSources) \cup {x[1] : x \in {y \in meant : y[2] = "dir"}}
    /\ \A p \in FileSources : p \in DOMAIN trees /\ trees[p] = <<<<EntryOf(p, "file")>>>>

ReportExact(seen, meant) ==
    LET kept == {x \in seen : KeptByRules(x[1], x[2])}
    IN /\ report.excluded =
             Cardinality({x \in seen \ kept : ~BrokenLink(x)})
               + Cardinality({x \in meant : x[2] = "dir" /\ KeptEmpty(x[1])})
       /\ report.errors =
             Cardinality({x \in kept : Unreachable(x[1], x[2])}
                           \cup {x \in seen : BrokenLink(x)})
               + Cardinality(Directories \cap job.unlisted)
       /\ report.dirs = Cardinality({x \in meant : x[2] = "dir"})
       /\ report.symlinks = Cardinality({x \in meant : x[2] = "symlink"})

Mistaken == \E p \in Outermost \ FileSources : FileByListing(p)

\* A snapshot holds exactly what the rules leave of its sources and what can
\* be read or reused, in trees that hang together: a directory of a source that
\* is in an excluded one is reached, and nothing else of that is stored.  The
\* report counts what the walk has met and not stored, each once and a directory
\* for all that is in it; the stats count what is stored: prefixes of a bucket
\* too, where docs/format.md, line 297, says that there are no directories.
\* A remote directory is excepted that the code takes for a file by the first
\* item it lists, where backup.rs, line 1082, speaks of exactly one item.
KeptExact ==
    WalkDone /\ ~Mistaken =>
        LET seen == Seen
            meant == Meant
        IN StoredExact(meant) /\ ReportExact(seen, meant)

\* What the walk finds of the last snapshot for a name is the entry of that
\* name in the same directory, however its parts are cut and whatever is
\* passed over, until a part cannot be read.
StreamFinds ==
    \A u \in used : ~Node(u.path).twin /\ u.path \notin Outermost =>
        u.entry = Previous(u.path)
=============================================================================
