------------------------------- MODULE Mount -------------------------------
(***************************************************************************)
(* The file system of a mount (kist-mount/src/corefs.rs, vpath.rs,         *)
(* offsets.rs): the numbers it gives to what the kernel looks up, the      *)
(* directories it makes up above the roots of a snapshot, and reads in the *)
(* middle of files through a cache of chunks.                              *)
(*                                                                         *)
(* Calls come from several threads.  No lock is held while a call waits    *)
(* for the repository, so what a call has found out may be old when it     *)
(* takes the lock again.  A request to the repository may always fail.     *)
(* What the mount does to the index when it sees a new snapshot is in      *)
(* IndexCache.                                                             *)
(***************************************************************************)
EXTENDS Naturals, Sequences, SequencesExt, FiniteSets, TLC

CONSTANTS
    Thread,     \* the threads of the FUSE session
    MountClient, \* the client whose snapshots there are
    RootsOf,    \* the roots of every snapshot, by its time: path and tree
    EntriesOf,  \* the entries of every tree
    ChunksOf,   \* the chunks of every file
    RawLen,     \* the length of every chunk, in the index
    CacheCap,   \* MountConfig.chunk_cache
    ReadSpans,  \* the offsets and sizes of reads
    MaxCalls    \* bound on the calls of a session

NoTree == "none"
NoName == "none"

EntryNames == {e.name : e \in UNION {EntriesOf[tree] : tree \in DOMAIN EntriesOf}}
RootNames == UNION {UNION {ToSet(r.path) : r \in ToSet(RootsOf[ts])} : ts \in DOMAIN RootsOf}

PathRoot == [path : Seq(RootNames), tree : DOMAIN EntriesOf]

ASSUME MountConstants ==
    /\ CacheCap \in Nat \ {0} /\ MaxCalls \in Nat
    /\ ReadSpans \subseteq [offset : Nat, size : Nat]

\* The snapshots are complete: every tree and every chunk below them is there,
\* and the index knows how long it is.
ASSUME MountTrees ==
    /\ \A ts \in DOMAIN RootsOf : RootsOf[ts] \in Seq(PathRoot)
    /\ \A tree \in DOMAIN EntriesOf : \A e \in EntriesOf[tree] :
          /\ e.kind = "dir" => e.tree \in DOMAIN EntriesOf \cup {NoTree}
          /\ e.kind = "file" => e.tree \in DOMAIN ChunksOf
    /\ \A file \in DOMAIN ChunksOf : ChunksOf[file] \in Seq(DOMAIN RawLen)
    /\ RawLen \in [DOMAIN RawLen -> Nat]

\* A tree has a name once; a snapshot has a root, and none inside another.
ASSUME MountSnapshots ==
    /\ NoTree \notin DOMAIN EntriesOf
    /\ \A tree \in DOMAIN EntriesOf : \A e, f \in EntriesOf[tree] :
          /\ e.kind \notin {"root", "client", "synthetic", "nowhere"}
          /\ e.name = f.name => e = f
    /\ \A ts \in DOMAIN RootsOf :
          /\ RootsOf[ts] # <<>>
          /\ \A k, l \in DOMAIN RootsOf[ts] : IsPrefix(RootsOf[ts][k].path, RootsOf[ts][l].path) => k = l

VARIABLES
    kept,       \* the snapshots that are not forgotten
    inodes,     \* InodeTable.map: numbers are never used again
    numbered,   \* InodeTable.names: the number of a name in a directory
    calls,      \* the call of every thread
    lru,        \* decrypted chunks: a map and the order of their use
    made,       \* the number of calls so far
    answered    \* the numbers that lookups have answered, but for doubtful views

mountVars == <<kept, inodes, numbered, calls, lru, made, answered>>

TopLevel == <<>>
NoLevels == << >>
NodeOf(is, tree, levels, level) == [is |-> is, tree |-> tree, levels |-> levels, level |-> level]
Synthetic(levels, level) == NodeOf("synthetic", NoTree, levels, level)
Plain(is, tree) == NodeOf(is, tree, NoLevels, TopLevel)

Lesser(m, n) == IF m < n THEN m ELSE n

\* A map with one more entry, or with another value for it.
With(map, key, value) == [k \in DOMAIN map \cup {key} |-> IF k = key THEN value ELSE map[k]]

NoSpan == [offset |-> 0, size |-> 0]
NoCall == [at |-> "idle", ino |-> 0, name |-> NoName, tree |-> NoTree, pairs |-> <<>>, doubtful |-> FALSE,
           span |-> NoSpan, pos |-> 0, end |-> 0, buf |-> <<>>]

-----------------------------------------------------------------------------
(* VirtualRoot: the levels above the roots.                                *)

LevelAt(levels, key) == IF key \in DOMAIN levels THEN levels[key] ELSE {}

\* push_real: of two entries of one name the later one stays.
PushReal(levels, key, es) ==
    With(levels, key, {v \in LevelAt(levels, key) : v.name \notin {e.name : e \in es}} \cup es)

MadeUp(name) == [name |-> name, kind |-> "synthetic", tree |-> NoTree]

\* The levels above a root: each has a directory for the next component of
\* its path, unless there is something of that name.
Parents(levels, path) ==
    LET keys == {SubSeq(path, 1, k - 1) : k \in 1 .. Len(path) - 1}
        next(key) == path[Len(key) + 1]
    IN [key \in DOMAIN levels \cup keys |->
           LevelAt(levels, key) \cup
              IF key \in keys /\ \A v \in LevelAt(levels, key) : v.name # next(key)
              THEN {MadeUp(next(key))} ELSE {}]

Leaf(pair) ==
    IF pair.form = "leaf" THEN CHOOSE e \in EntriesOf[pair.root.tree] : TRUE
    ELSE [name |-> Last(pair.root.path), kind |-> "dir", tree |-> pair.root.tree]

AddRoot(levels, pair) ==
    IF pair.root.path # <<>>
    THEN PushReal(Parents(levels, pair.root.path), Front(pair.root.path), {Leaf(pair)})
    ELSE IF pair.form = "flatten" THEN PushReal(levels, TopLevel, EntriesOf[pair.root.tree])
    ELSE levels

\* VirtualRoot::build
BuildLevels(pairs) ==
    LET levels[k \in 0 .. Len(pairs)] ==
            IF k = 0 THEN NoLevels ELSE AddRoot(levels[k - 1], pairs[k])
    IN levels[Len(pairs)]

\* What a root is, by its tree; it counts as a directory if that cannot be read.
FormOf(root) ==
    IF root.path = <<>> THEN "flatten"
    ELSE LET es == EntriesOf[root.tree]
         IN IF Cardinality(es) = 1 /\ \A e \in es : e.kind # "dir" /\ e.name = Last(root.path)
            THEN "leaf" ELSE "dir"

-----------------------------------------------------------------------------
(* InodeTable.                                                             *)

Known(parent, name) == <<parent, name>> \in DOMAIN numbered

\* insert: a number that was never used.
Insert(node) == inodes' = Append(inodes, node)

Answers(parent, name, ino) == answered' = answered \cup {<<parent, name, ino>>}

\* insert_named: a name that has a number keeps it, and the node behind it.
InsertNamed(parent, name, node) ==
    IF Known(parent, name)
    THEN Answers(parent, name, numbered[<<parent, name>>]) /\ UNCHANGED <<inodes, numbered>>
    ELSE /\ Insert(node)
         /\ numbered' = With(numbered, <<parent, name>>, Len(inodes) + 1)
         /\ Answers(parent, name, Len(inodes) + 1)

-----------------------------------------------------------------------------
(* lookup.                                                                 *)

Free(t) == calls[t].at = "idle" /\ made < MaxCalls
Begin(t, call) == calls' = [calls EXCEPT ![t] = call] /\ made' = made + 1
Goes(t, call) == calls' = [calls EXCEPT ![t] = call] /\ UNCHANGED made
Ends(t) == Goes(t, NoCall)

Fails(t) == calls[t].at \in {"list", "snapshot", "tree", "resolve", "fetch"} /\ Ends(t)
            /\ UNCHANGED <<kept, inodes, numbered, lru, answered>>

Asks(ino, name, phase, tree) == [NoCall EXCEPT !.at = phase, !.ino = ino, !.name = name, !.tree = tree]

\* In the top directory: the clients are listed, every time, ...
LookupClient(t, ino, name) ==
    /\ Free(t) /\ inodes[ino].is = "root"
    /\ Begin(t, Asks(ino, name, "list", NoTree))
    /\ UNCHANGED <<kept, inodes, numbered, lru, answered>>

ListClients(t) ==
    /\ calls[t].at = "list"
    /\ IF kept # {} /\ calls[t].name = MountClient
       THEN InsertNamed(calls[t].ino, calls[t].name, Plain("client", NoTree))
       ELSE UNCHANGED <<inodes, numbered, answered>>
    /\ Ends(t)
    /\ UNCHANGED <<kept, lru>>

\* ... and below one the snapshot is read, every time, with the trees of its
\* roots.
LookupSnapshot(t, ino, name) ==
    /\ Free(t) /\ inodes[ino].is = "client" /\ name \in DOMAIN RootsOf
    /\ Begin(t, Asks(ino, name, "snapshot", NoTree))
    /\ UNCHANGED <<kept, inodes, numbered, lru, answered>>

ReadSnapshot(t) ==
    /\ calls[t].at = "snapshot"
    /\ Goes(t, IF calls[t].name \in kept THEN [calls[t] EXCEPT !.at = "roots"] ELSE NoCall)
    /\ UNCHANGED <<kept, inodes, numbered, lru, answered>>

RootsLeft(t) == Len(calls[t].pairs) < Len(RootsOf[calls[t].name])
NextRoot(t) == RootsOf[calls[t].name][Len(calls[t].pairs) + 1]
WithRoot(call, root, form, doubt) ==
    [call EXCEPT !.pairs = Append(@, [root |-> root, form |-> form]), !.doubtful = @ \/ doubt]

ReadRoot(t) ==
    /\ calls[t].at = "roots" /\ RootsLeft(t)
    /\ \/ Goes(t, WithRoot(calls[t], NextRoot(t), FormOf(NextRoot(t)), FALSE))
       \/ Goes(t, WithRoot(calls[t], NextRoot(t), "dir", TRUE))
    /\ UNCHANGED <<kept, inodes, numbered, lru, answered>>

\* A slip: a view is remembered though a root of it could not be read.
Remember(t, top) == InsertNamed(calls[t].ino, calls[t].name, top)

\* A view that may not be what the snapshot is gets a number that nobody
\* remembers.
RememberIfSure(t, top) ==
    IF calls[t].doubtful THEN Insert(top) /\ UNCHANGED <<numbered, answered>>
    ELSE InsertNamed(calls[t].ino, calls[t].name, top)

ShowSnapshot(t) ==
    /\ calls[t].at = "roots" /\ ~RootsLeft(t)
    /\ RememberIfSure(t, Synthetic(BuildLevels(calls[t].pairs), TopLevel))
    /\ Ends(t)
    /\ UNCHANGED <<kept, lru>>

\* real_inode: a name that has a number needs no look at its tree.
RealInode(t, ino, e) ==
    \/ /\ Known(ino, e.name)
       /\ Answers(ino, e.name, numbered[<<ino, e.name>>])
       /\ UNCHANGED <<calls, inodes, numbered>>
    \/ /\ ~Known(ino, e.name) /\ e.kind = "dir" /\ e.tree # NoTree
       /\ calls' = [calls EXCEPT ![t] = Asks(ino, e.name, "tree", e.tree)]
       /\ UNCHANGED <<inodes, numbered, answered>>
    \/ /\ ~Known(ino, e.name) /\ ~(e.kind = "dir" /\ e.tree # NoTree)
       /\ InsertNamed(ino, e.name, Plain(e.kind, e.tree))
       /\ UNCHANGED calls

ReadTree(t) ==
    /\ calls[t].at = "tree"
    /\ InsertNamed(calls[t].ino, calls[t].name, Plain("dir", calls[t].tree))
    /\ Ends(t)
    /\ UNCHANGED <<kept, lru>>

\* vchild_inode
LookupLevel(t, ino, name) ==
    /\ Free(t) /\ inodes[ino].is = "synthetic"
    /\ \E v \in LevelAt(inodes[ino].levels, inodes[ino].level) :
          /\ v.name = name
          /\ IF v.kind = "synthetic"
             THEN /\ InsertNamed(ino, name, Synthetic(inodes[ino].levels, Append(inodes[ino].level, name)))
                  /\ UNCHANGED calls
             ELSE RealInode(t, ino, v)
    /\ made' = made + 1
    /\ UNCHANGED <<kept, lru>>

LookupEntry(t, ino, name) ==
    /\ Free(t) /\ inodes[ino].is = "dir" /\ inodes[ino].tree # NoTree
    /\ \E e \in EntriesOf[inodes[ino].tree] : e.name = name /\ RealInode(t, ino, e)
    /\ made' = made + 1
    /\ UNCHANGED <<kept, lru>>

-----------------------------------------------------------------------------
(* read_file.                                                              *)

\* Lru::touch, Lru::put.
ToFront(id) == <<id>> \o RemoveFirst(lru.order, id)
Used(id) == [lru EXCEPT !.order = ToFront(id)]
PutChunk(id) ==
    IF id \in lru.held THEN Used(id)
    ELSE LET order == <<id>> \o lru.order
             stay == SubSeq(order, 1, Lesser(CacheCap, Len(order)))
         IN [order |-> stay, held |-> (lru.held \cup {id}) \ ToSet(SubSeq(order, CacheCap + 1, Len(order)))]

\* ChunkOffsets: where every chunk ends.
EndsOf(chunks) ==
    LET ends[k \in 0 .. Len(chunks)] == IF k = 0 THEN 0 ELSE ends[k - 1] + RawLen[chunks[k]]
    IN ends
Total(chunks) == EndsOf(chunks)[Len(chunks)]

\* A slip: at the end of a chunk is still in it.
LocateInclusive(chunks, offset) ==
    CHOOSE k \in DOMAIN chunks :
        /\ EndsOf(chunks)[k] >= offset
        /\ \A j \in DOMAIN chunks : EndsOf(chunks)[j] >= offset => k <= j

\* locate: the first chunk that ends after offset.
Locate(chunks, offset) ==
    CHOOSE k \in DOMAIN chunks :
        /\ EndsOf(chunks)[k] > offset
        /\ \A j \in DOMAIN chunks : EndsOf(chunks)[j] > offset => k <= j

FileChunks(t) == ChunksOf[inodes[calls[t].ino].tree]
Here(t) == Locate(FileChunks(t), calls[t].pos)
ChunkHere(t) == FileChunks(t)[Here(t)]

ReadFile(t, ino, span) ==
    /\ Free(t) /\ inodes[ino].is = "file"
    /\ Begin(t, [NoCall EXCEPT !.at = "resolve", !.ino = ino, !.span = span])
    /\ UNCHANGED <<kept, inodes, numbered, lru, answered>>

\* resolve_file: the list of chunks and their ends.
ResolveFile(t) ==
    /\ calls[t].at = "resolve"
    /\ LET total == Total(FileChunks(t))
           end == Lesser(total, calls[t].span.offset + calls[t].span.size)
       IN Goes(t, [calls[t] EXCEPT !.at = IF calls[t].span.offset >= end THEN "done" ELSE "chunk",
                                   !.pos = calls[t].span.offset, !.end = end])
    /\ UNCHANGED <<kept, inodes, numbered, lru, answered>>

Bytes(id) == [k \in 1 .. RawLen[id] |-> <<id, k>>]

\* The part of this chunk that the read wants; the next one, or the end.
Copied(t) ==
    LET call == calls[t]
        skip == call.pos - EndsOf(FileChunks(t))[Here(t) - 1]
        avail == RawLen[ChunkHere(t)] - skip
        take == Lesser(avail, call.end - call.pos)
    IN [call EXCEPT !.buf = @ \o SubSeq(Bytes(ChunkHere(t)), skip + 1, skip + take), !.pos = @ + take,
                    !.at = IF take = 0 THEN "short"
                           ELSE IF call.pos + take < call.end THEN "chunk"
                           ELSE "done"]

\* chunk_of: from the cache, or from the repository into it.
ChunkCached(t) ==
    /\ calls[t].at = "chunk" /\ ChunkHere(t) \in lru.held
    /\ lru' = Used(ChunkHere(t))
    /\ Goes(t, Copied(t))
    /\ UNCHANGED <<kept, inodes, numbered, answered>>

ChunkMissing(t) ==
    /\ calls[t].at = "chunk" /\ ChunkHere(t) \notin lru.held
    /\ Goes(t, [calls[t] EXCEPT !.at = "fetch"])
    /\ UNCHANGED <<kept, inodes, numbered, lru, answered>>

FetchChunk(t) ==
    /\ calls[t].at = "fetch"
    /\ lru' = PutChunk(ChunkHere(t))
    /\ Goes(t, Copied(t))
    /\ UNCHANGED <<kept, inodes, numbered, answered>>

\* The bytes are handed to the kernel, or an error if a chunk was too short.
ReadReturns(t) ==
    /\ calls[t].at \in {"done", "short"}
    /\ Ends(t)
    /\ UNCHANGED <<kept, inodes, numbered, lru, answered>>

-----------------------------------------------------------------------------
ForgetSnapshot(ts) ==
    /\ ts \in kept
    /\ kept' = kept \ {ts}
    /\ UNCHANGED <<inodes, numbered, calls, lru, made, answered>>

MountInit ==
    /\ kept = DOMAIN RootsOf
    /\ inodes = <<Plain("root", NoTree)>> /\ numbered = << >>
    /\ calls = [t \in Thread |-> NoCall]
    /\ lru = [order |-> <<>>, held |-> {}]
    /\ made = 0 /\ answered = {}

MountNext ==
    \/ \E ts \in kept : ForgetSnapshot(ts)
    \/ \E t \in Thread :
          \/ \E ino \in DOMAIN inodes :
                \/ LookupClient(t, ino, MountClient)
                \/ \E ts \in DOMAIN RootsOf : LookupSnapshot(t, ino, ts)
                \/ \E n \in EntryNames \cup RootNames : LookupLevel(t, ino, n) \/ LookupEntry(t, ino, n)
                \/ \E span \in ReadSpans : ReadFile(t, ino, span)
          \/ ListClients(t) \/ ReadSnapshot(t) \/ ReadRoot(t) \/ ShowSnapshot(t) \/ ReadTree(t)
          \/ ResolveFile(t) \/ ChunkCached(t) \/ ChunkMissing(t) \/ FetchChunk(t) \/ ReadReturns(t)
          \/ Fails(t)

MountSpec == MountInit /\ [][MountNext]_mountVars
-----------------------------------------------------------------------------
(* What there is at a path of a snapshot, as restore places it.            *)

Nowhere == Plain("nowhere", NoTree)

\* Below a tree, name by name.
Under(tree, names) ==
    LET down[k \in 0 .. Len(names)] ==
            IF k = 0 THEN Plain("dir", tree)
            ELSE IF down[k - 1].is # "dir" \/ down[k - 1].tree = NoTree THEN Nowhere
            ELSE LET es == {e \in EntriesOf[down[k - 1].tree] : e.name = names[k]}
                 IN IF es = {} THEN Nowhere
                    ELSE LET e == CHOOSE e \in es : TRUE IN Plain(e.kind, e.tree)
    IN down[Len(names)]

InRoot(root, path) ==
    IF FormOf(root) = "leaf" THEN Under(root.tree, SubSeq(path, Len(root.path), Len(path)))
    ELSE Under(root.tree, SubSeq(path, Len(root.path) + 1, Len(path)))

PlaceOf(ts, path) ==
    LET roots == ToSet(RootsOf[ts])
        over == {r \in roots : IsPrefix(r.path, path)}
    IN IF path # <<>> /\ over # {} THEN InRoot(CHOOSE r \in over : TRUE, path)
       ELSE IF \E r \in roots : IsPrefix(path, r.path) THEN Synthetic(NoLevels, path)
       ELSE Nowhere

\* The path of every number, as far as it is remembered.
Paths ==
    LET down[i \in DOMAIN inodes] ==
            IF i = 1 THEN [sure |-> TRUE, names |-> <<>>]
            ELSE LET keys == {k \in DOMAIN numbered : numbered[k] = i /\ k[1] < i}
                 IN IF keys = {} THEN [sure |-> FALSE, names |-> <<>>]
                    ELSE LET k == CHOOSE k \in keys : TRUE
                         IN [sure |-> down[k[1]].sure, names |-> Append(down[k[1]].names, k[2])]
    IN down

ShowsAll(node, ts) ==
    {v.name : v \in LevelAt(node.levels, node.level)} =
        {n \in EntryNames \cup RootNames : PlaceOf(ts, Append(node.level, n)).is # "nowhere"}

\* insert_named: of two answers to lookups of one name both are the same number.
NamesOnce == \A g, h \in answered : g[1] = h[1] /\ g[2] = h[2] => g[3] = h[3]

\* lookup, insert_named: whatever failed and whichever threads raced, a name
\* has one number for the whole session, and what is behind it is what restore
\* would put at that path; directories that are made up show all the roots.  A
\* view that was put together while a tree could not be read is never taken
\* for the snapshot.
NamesTrue ==
    LET paths == Paths
    IN /\ NamesOnce
       /\ \A i \in DOMAIN inodes :
             paths[i].sure /\ Len(paths[i].names) > 1 =>
                 LET ts == paths[i].names[2]
                     path == SubSeq(paths[i].names, 3, Len(paths[i].names))
                 IN /\ inodes[i].is = "synthetic" => ShowsAll(inodes[i], ts)
                    /\ [inodes[i] EXCEPT !.levels = NoLevels] = PlaceOf(ts, path)

\* read_file: a read returns the bytes of the file from its offset on, as many
\* as it asked for or as there are, also across chunks and past empty ones, and
\* fails only if the repository does; and
\* the cache it goes through stays within its capacity and in step with its
\* order, though threads fetch the same chunk at once.
ReadExact ==
    /\ Len(lru.order) <= CacheCap /\ lru.held = ToSet(lru.order) /\ Cardinality(lru.held) = Len(lru.order)
    /\ \A t \in Thread :
          /\ calls[t].at # "short"
          /\ calls[t].at = "done" =>
              LET chunks == FileChunks(t)
                  content == FlattenSeq([k \in DOMAIN chunks |-> Bytes(chunks[k])])
                  span == calls[t].span
              IN calls[t].buf = SubSeq(content, span.offset + 1,
                                        Lesser(span.offset + span.size, Len(content)))
=============================================================================
