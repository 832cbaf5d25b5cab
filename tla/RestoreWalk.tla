---------------------------- MODULE RestoreWalk ----------------------------
(***************************************************************************)
(* Which nodes a restore writes (kist-core/src/restore.rs): the selection  *)
(* by patterns and SNAPSHOT:PATH, the dry run, and the walk that makes     *)
(* directories only when something goes into them.  The dry run and the    *)
(* restore are two walks in the code, and two here.  What happens to one   *)
(* name of a directory is in RestoreEntry.                                 *)
(***************************************************************************)
EXTENDS Filter, SequencesExt

CONSTANTS
    Snapshots,  \* the snapshots: roots, trees, and the trees that cannot be read
    Requests,   \* what restores ask for: include, exclude, subtree
    Worlds,     \* what restores meet in the target and in the packs
    MaxDepth    \* MAX_TREE_DEPTH

IsList(s) == s \in Seq(ToSet(s))

\* An entry of a directory has the mode that was recorded, if one was, and the
\* tree of its own.  What is there before a restore has not been loosened.
ASSUME SnapshotsAssumption ==
    \A s \in Snapshots :
        /\ IsList(s.roots)
        /\ \A root \in ToSet(s.roots) : root.tree \in DOMAIN s.trees /\ IsList(root.at)
        /\ \A t \in DOMAIN s.trees :
              /\ IsList(s.trees[t])
              /\ \A e \in ToSet(s.trees[t]) :
                    e.mode \in {"none", "open", "readonly"} /\ (e.kind = "dir" => e.sub \in DOMAIN s.trees)
ASSUME RequestsAssumption == \A r \in Requests : IsList(r.subtree)
\* Names are bytes, and patterns have been parsed.
ASSUME NamesAssumption ==
    /\ \A s \in Snapshots :
          /\ \A root \in ToSet(s.roots) : root.at \in Seq(PathNames)
          /\ \A t \in DOMAIN s.trees : \A e \in ToSet(s.trees[t]) : e.name \in PathNames
    /\ \A r \in Requests :
          /\ r.subtree \in Seq(PathNames)
          /\ IsList(r.include) /\ IsFilter(r.include) /\ IsList(r.exclude) /\ IsFilter(r.exclude)
ASSUME WorldsAssumption ==
    \A w \in Worlds : \A p \in DOMAIN w.before : w.before[p] \in {"open", "readonly"}

VARIABLES
    snapshot, request, world,
    phase,      \* where the dry run and the restore after it are
    placed,     \* the placements of the roots
    places,     \* those that are still to be walked
    stack,      \* the directories from a placement down to where the walk is
    hit,        \* the include patterns that have selected something
    summary,    \* the counts and the errors of this walk
    planned,    \* those of the dry run
    mode        \* what is at every path of the target that is a directory

walkVars == <<snapshot, request, world, phase, placed, places, stack, hit, summary, planned, mode>>

NoPos == [selected |-> FALSE, include |-> {}, exclude |-> {}, pending |-> {}, gone |-> TRUE]

NoSummary == [files |-> 0, dirs |-> 0, symlinks |-> 0, nodes |-> {}, errors |-> {}, unmatched |-> {}]

-----------------------------------------------------------------------------
(* Select.                                                                 *)

Positive(p) == ~request.include[p].negated

\* Select::new refuses an include of negated patterns only.
NothingIncluded == request.include # <<>> /\ \A p \in DOMAIN request.include : ~Positive(p)

TopPos == [selected |-> request.include = <<>>, include |-> Start(request.include),
           exclude |-> Start(request.exclude), pending |-> {}, gone |-> FALSE]

ChildPos(parent, name) ==
    LET exclude == Descend(request.exclude, parent.exclude, name)
        include == Descend(request.include, parent.include, name)
    IN IF exclude.decision = "yes" THEN NoPos
       ELSE [selected |-> IF include.decision = "none" THEN parent.selected
                          ELSE include.decision = "yes",
             include |-> include, exclude |-> exclude,
             pending |-> (parent.pending \cup {p \in include.matched : Positive(p)}) \ hit,
             gone |-> FALSE]

\* A slip: a pattern counts as soon as it matches something.
CreditMatched(pos) == pos.pending

\* Select::credit: the patterns that pos brings into hit.
Credit(pos) == IF pos.selected THEN pos.pending ELSE {}

Credited(pos) == hit \cup Credit(pos)

WalkTo(names) ==
    LET at[k \in 0 .. Len(names)] ==
            IF k = 0 THEN TopPos
            ELSE IF at[k - 1].gone THEN NoPos ELSE ChildPos(at[k - 1], names[k])
    IN at[Len(names)]

WorthWalking(pos) == ~pos.gone /\ (pos.selected \/ pos.include.mayMatchBelow)

\* Select::visit, without the credit.
Visited(entry, pos) ==
    ~pos.gone /\ (pos.selected \/ (entry.kind = "dir" /\ pos.include.mayMatchBelow))

\* Negated patterns are never expected to select anything.
Unmatched == {p \in DOMAIN request.include : p \notin hit /\ Positive(p)}

-----------------------------------------------------------------------------
(* Where the roots go.                                                     *)

Entries(tree) == snapshot.trees[tree]
Readable(tree) == tree \notin snapshot.bad

IsFileRoot(last, entries) ==
    Len(entries) = 1 /\ entries[1].kind # "dir" /\ entries[1].name = last

Outcome(kind) == [kind |-> kind, rel |-> <<>>, pos |-> NoPos, above |-> NoPos, last |-> <<>>,
                  tree |-> ""]
Here(rel, pos, above, last, tree) ==
    [kind |-> "here", rel |-> rel, pos |-> pos, above |-> above, last |-> last, tree |-> tree]

\* place_inside, one name further down: what has been found so far, and the
\* tree that the name is looked for in.
Inside(found, name) ==
    LET named == {e \in ToSet(Entries(found.tree)) : e.name = name}
        e == CHOOSE e \in named : TRUE
    IN IF found.kind # "tree" THEN found
       ELSE IF ~Readable(found.tree) THEN [kind |-> "error", tree |-> ""]
       ELSE IF named = {} THEN [kind |-> "elsewhere", tree |-> ""]
       ELSE IF e.kind = "dir" THEN [kind |-> "tree", tree |-> e.sub]
       ELSE [kind |-> "error", tree |-> ""]

\* place_inside: the request is for a root itself or for a directory in it.
PlaceInside(root) ==
    LET below == SubSeq(request.subtree, Len(root.at) + 1, Len(request.subtree))
        found[k \in 0 .. Len(below)] ==
            IF k = 0 THEN [kind |-> "tree", tree |-> root.tree] ELSE Inside(found[k - 1], below[k])
        to == found[Len(below)]
        pos == WalkTo(request.subtree)
    IN IF ~Readable(root.tree) \/ (root.at # <<>> /\ IsFileRoot(Last(root.at), Entries(root.tree)))
       THEN Outcome("error")
       ELSE IF to.kind # "tree" THEN Outcome(to.kind)
       ELSE IF ~WorthWalking(pos) THEN Outcome("pruned")
       ELSE Here(<<>>, pos, NoPos, <<>>, to.tree)

PlaceRoot(root) ==
    LET shared == \A k \in 1 .. Min({Len(root.at), Len(request.subtree)}) :
                      root.at[k] = request.subtree[k]
        above == WalkTo(Front(root.at))
        pos == ChildPos(above, Last(root.at))
    IN IF ~shared THEN Outcome("elsewhere")
       ELSE IF Len(request.subtree) >= Len(root.at) THEN PlaceInside(root)
       ELSE IF above.gone \/ ~WorthWalking(pos) THEN Outcome("pruned")
       ELSE Here(SubSeq(root.at, Len(request.subtree) + 1, Len(root.at)), pos, above,
                 Last(root.at), root.tree)

Outcomes == [r \in DOMAIN snapshot.roots |-> PlaceRoot(snapshot.roots[r])]

\* place_roots and Select::new: nothing has been made when they fail.
Refused ==
    \/ NothingIncluded
    \/ LET kinds == {o.kind : o \in ToSet(Outcomes)}
       IN "error" \in kinds \/ (request.subtree # <<>> /\ kinds \subseteq {"elsewhere"})

PlacedAmong(outcomes, n) ==
    LET upTo[r \in 0 .. n] ==
            IF r = 0 THEN <<>>
            ELSE IF outcomes[r].kind = "here" THEN Append(upTo[r - 1], outcomes[r])
            ELSE upTo[r - 1]
    IN upTo[n]
Placed == PlacedAmong(Outcomes, Len(snapshot.roots))

\* open_placement: the entry of a file root goes one level up.
Opened(place) ==
    IF place.last # <<>> /\ IsFileRoot(place.last, Entries(place.tree))
    THEN [rel |-> Front(place.rel), pos |-> place.above]
    ELSE [rel |-> place.rel, pos |-> place.pos]

-----------------------------------------------------------------------------
(* Both walks keep a stack of levels, the placement first.  A level has a  *)
(* path, the entries to do and a position; the restore keeps more.         *)

Top == stack[Len(stack)]
NextEntry == Head(Top.todo)
NextPos == ChildPos(Top.pos, NextEntry.name)
NextPath == Append(Top.path, NextEntry.name)
Advanced == [stack EXCEPT ![Len(stack)].todo = Tail(@)]

AtEntry(walk) == phase = walk /\ stack # <<>> /\ Top.todo # <<>>
AtEnd(walk) == phase = walk /\ stack # <<>> /\ Top.todo = <<>>

\* A directory that restore_node and plan_node go down into.
Enters(e) == e.kind = "dir" /\ Len(stack) < MaxDepth
IsLeaf(e) == e.kind \in {"file", "symlink"}

Count(sum, path, kind) ==
    [sum EXCEPT !.files = IF kind = "file" THEN @ + 1 ELSE @,
                !.symlinks = IF kind = "symlink" THEN @ + 1 ELSE @,
                !.nodes = @ \cup {<<path, kind>>}]
Fail(sum, path) == [sum EXCEPT !.errors = @ \cup {path}]

rigid == <<snapshot, request, world, placed>>

\* The placements are found before anything is made.
Place ==
    /\ phase = "place"
    /\ placed' = Placed
    /\ places' = placed'
    /\ phase' = IF Refused THEN "refused" ELSE "plan"
    /\ UNCHANGED <<snapshot, request, world, stack, hit, summary, planned, mode>>

-----------------------------------------------------------------------------
(* The dry run.  created says whether the restore has made a level by now. *)

\* Plan::open: every level down to here is made, and reported.
PlanOpen(levels) == [k \in DOMAIN levels |-> [levels[k] EXCEPT !.created = TRUE]]
Reported(levels) ==
    {<<levels[k].path, "dir">> : k \in {k \in DOMAIN levels : levels[k].isDir /\ ~levels[k].created}}
Report(sum, levels) == [sum EXCEPT !.nodes = @ \cup Reported(levels)]

PlanPlace ==
    /\ phase = "plan" /\ stack = <<>> /\ places # <<>>
    /\ places' = Tail(places)
    /\ LET place == Head(places)
           to == Opened(place)
       IN IF Readable(place.tree)
          THEN /\ hit' = Credited(to.pos)
               /\ stack' = <<[path |-> to.rel, todo |-> Entries(place.tree), pos |-> to.pos,
                              isDir |-> FALSE, created |-> to.pos.selected]>>
               /\ UNCHANGED phase
          ELSE phase' = "failed" /\ UNCHANGED <<hit, stack>>
    /\ UNCHANGED <<rigid, summary, planned, mode>>

PlanSkip ==
    /\ AtEntry("plan") /\ ~Visited(NextEntry, NextPos)
    /\ stack' = Advanced
    /\ UNCHANGED <<rigid, phase, places, hit, summary, planned, mode>>

\* plan_node of a file or a symlink, or of something it cannot walk.
PlanLeaf ==
    /\ AtEntry("plan") /\ Visited(NextEntry, NextPos) /\ ~Enters(NextEntry)
    /\ hit' = Credited(NextPos)
    /\ IF IsLeaf(NextEntry) \/ NextPos.selected
       THEN stack' = PlanOpen(Advanced)
       ELSE stack' = Advanced
    /\ LET opened == IF IsLeaf(NextEntry) \/ NextPos.selected THEN Report(summary, stack) ELSE summary
       IN summary' = IF IsLeaf(NextEntry) THEN Count(opened, NextPath, NextEntry.kind)
                     ELSE Fail(opened, NextPath)
    /\ UNCHANGED <<rigid, phase, places, planned, mode>>

\* plan_dir down to its entries; its result is an error when they cannot be
\* read, and then nothing is counted.
PlanDir ==
    /\ AtEntry("plan") /\ Visited(NextEntry, NextPos) /\ Enters(NextEntry)
    /\ hit' = Credited(NextPos)
    /\ LET level == [path |-> NextPath, pos |-> NextPos, isDir |-> TRUE, created |-> FALSE,
                     todo |-> IF Readable(NextEntry.sub) THEN Entries(NextEntry.sub) ELSE <<>>]
           inside == Append(Advanced, level)
           opened == IF NextPos.selected THEN PlanOpen(inside) ELSE inside
           told == IF NextPos.selected THEN Report(summary, inside) ELSE summary
       IN IF Readable(NextEntry.sub)
          THEN stack' = opened /\ summary' = told
          ELSE stack' = Front(opened) /\ summary' = Fail(told, NextPath)
    /\ UNCHANGED <<rigid, phase, places, planned, mode>>

PlanLeave ==
    /\ AtEnd("plan")
    /\ stack' = Front(stack)
    /\ summary' = IF Top.isDir /\ Top.created THEN [summary EXCEPT !.dirs = @ + 1] ELSE summary
    /\ UNCHANGED <<rigid, phase, places, hit, planned, mode>>

\* The dry run is over, and the restore itself starts.  It finds the same
\* placements: a snapshot never changes.
PlanEnd ==
    /\ phase = "plan" /\ stack = <<>> /\ places = <<>>
    /\ planned' = [summary EXCEPT !.unmatched = Unmatched]
    /\ phase' = "restore"
    /\ places' = placed
    /\ hit' = {}
    /\ summary' = NoSummary
    /\ UNCHANGED <<rigid, stack, mode>>

-----------------------------------------------------------------------------
(* The restore.  A level that has no handle yet is made when the first     *)
(* thing goes into it, the levels above it first.                          *)

ReadOnly(modes, path) == path \in DOMAIN modes /\ modes[path] = "readonly"

\* The levels of an attempt so far, the modes in the target, and whether the
\* attempt has failed.
Attempt(levels, modes, ok) == [levels |-> levels, modes |-> modes, ok |-> ok]

\* create_dirs for a placement, create_child_dir for a directory: what is
\* there already is used when it is a directory.
CanCreate(level, modes) ==
    \A p \in Prefixes(level.path) \ {<<>>} :
        /\ p \notin world.blocked
        /\ p \in DOMAIN modes \/ ~ReadOnly(modes, Front(p))

\* make_owner_writable, for a directory whose recorded mode is put on it in
\* the end.
Loosens(level, modes) == level.recorded # "none" /\ ReadOnly(modes, level.path)

\* PendingDir::ensure for the k-th level, those above it done.
EnsureLevel(a, k, forWriting) ==
    LET level == a.levels[k]
        made == [p \in DOMAIN a.modes \cup (Prefixes(level.path) \ {<<>>}) |->
                    IF p \in DOMAIN a.modes THEN a.modes[p] ELSE "open"]
        prepared == [level EXCEPT !.handle = TRUE, !.createFailed = FALSE, !.prepared = TRUE,
                                  !.loosened = @ \/ Loosens(level, made)]
        loose == IF Loosens(level, made) THEN [made EXCEPT ![level.path] = "loosened"] ELSE made
    IN IF ~a.ok THEN a
       ELSE IF ~level.handle /\ ~CanCreate(level, a.modes)
       THEN Attempt([a.levels EXCEPT ![k].createFailed = TRUE], a.modes, FALSE)
       ELSE IF forWriting /\ ~level.prepared
       THEN Attempt([a.levels EXCEPT ![k] = prepared], loose, TRUE)
       ELSE Attempt([a.levels EXCEPT ![k].handle = TRUE, ![k].createFailed = FALSE], made, TRUE)

\* ensure for the innermost of levels; a level that has a handle has all
\* above it.
Ensure(levels, modes, forWriting) ==
    LET done[k \in 0 .. Len(levels)] ==
            IF k = 0 THEN Attempt(levels, modes, TRUE)
            ELSE EnsureLevel(done[k - 1], k, forWriting \/ k < Len(levels))
    IN done[Len(levels)]

Level(path, todo, pos, isDir, recorded) ==
    [path |-> path, todo |-> todo, pos |-> pos, isDir |-> isDir, recorded |-> recorded,
     handle |-> path = <<>>, prepared |-> path = <<>>, loosened |-> FALSE, createFailed |-> FALSE]

RestorePlace ==
    /\ phase = "restore" /\ stack = <<>> /\ places # <<>>
    /\ places' = Tail(places)
    /\ LET place == Head(places)
           to == Opened(place)
           base == <<Level(to.rel, Entries(place.tree), to.pos, FALSE, "none")>>
           made == IF to.pos.selected THEN Ensure(base, mode, FALSE) ELSE Attempt(base, mode, TRUE)
       IN IF Readable(place.tree) /\ made.ok
          THEN /\ hit' = Credited(to.pos)
               /\ stack' = made.levels
               /\ mode' = made.modes
               /\ UNCHANGED phase
          ELSE phase' = "failed" /\ UNCHANGED <<hit, stack, mode>>
    /\ UNCHANGED <<rigid, summary, planned>>

\* A slip: nobody looks whether the placement could be made.
BaseFailedNever == FALSE

\* After a node of a placement: when the placement could not be made, the
\* whole restore fails.
BaseFailed == phase = "restore" /\ Len(stack) = 1 /\ Top.createFailed
RestoreBlocked ==
    /\ BaseFailed
    /\ ~Ensure(stack, mode, FALSE).ok
    /\ phase' = "failed"
    /\ UNCHANGED <<rigid, stack, places, hit, summary, planned, mode>>

RestoreSkip ==
    /\ AtEntry("restore") /\ ~BaseFailed /\ ~Visited(NextEntry, NextPos)
    /\ stack' = Advanced
    /\ UNCHANGED <<rigid, phase, places, hit, summary, planned, mode>>

\* A slip: every node that is walked does.
ReadyAlways == Ensure(Advanced, mode, TRUE)

\* A selected node needs its level open before it is started.
Ready == IF NextPos.selected THEN Ensure(Advanced, mode, TRUE) ELSE Attempt(Advanced, mode, TRUE)

\* When it cannot be, the error is one of the level, and what is left of the
\* level is not restored; at a placement it is one of the whole restore.
RestoreStuck ==
    /\ AtEntry("restore") /\ ~BaseFailed /\ Visited(NextEntry, NextPos) /\ ~Ready.ok
    /\ hit' = Credited(NextPos)
    /\ mode' = Ready.modes
    /\ IF Len(stack) = 1
       THEN phase' = "failed" /\ UNCHANGED <<stack, summary>>
       ELSE /\ stack' = Front(Ready.levels)
            /\ summary' = Fail(summary, Top.path)
            /\ UNCHANGED phase
    /\ UNCHANGED <<rigid, places, planned>>

\* restore_node of a file or a symlink, or of something it cannot walk.
RestoreLeaf ==
    /\ AtEntry("restore") /\ ~BaseFailed
    /\ Visited(NextEntry, NextPos) /\ ~Enters(NextEntry) /\ Ready.ok
    /\ hit' = Credited(NextPos)
    /\ stack' = Ready.levels
    /\ mode' = Ready.modes
    /\ summary' = IF /\ IsLeaf(NextEntry)
                     /\ ~ReadOnly(Ready.modes, Top.path)
                     /\ NextPath \notin world.blocked \cup world.lost \cup DOMAIN mode
                  THEN Count(summary, NextPath, NextEntry.kind)
                  ELSE Fail(summary, NextPath)
    /\ UNCHANGED <<rigid, phase, places, planned>>

\* restore_dir down to its entries.
RestoreDir ==
    /\ AtEntry("restore") /\ ~BaseFailed
    /\ Visited(NextEntry, NextPos) /\ Enters(NextEntry) /\ Ready.ok
    /\ hit' = Credited(NextPos)
    /\ LET level == Level(NextPath, IF Readable(NextEntry.sub) THEN Entries(NextEntry.sub) ELSE <<>>,
                          NextPos, TRUE, NextEntry.mode)
           inside == Append(Ready.levels, level)
           into == IF NextPos.selected THEN Ensure(inside, Ready.modes, FALSE)
                   ELSE Attempt(inside, Ready.modes, TRUE)
       IN /\ mode' = into.modes
          /\ IF into.ok /\ Readable(NextEntry.sub)
             THEN stack' = into.levels /\ summary' = summary
             ELSE stack' = Front(into.levels) /\ summary' = Fail(summary, NextPath)
    /\ UNCHANGED <<rigid, phase, places, planned>>

\* A slip: a directory stays as it is when its metadata cannot be put on it.
PutBackNever(level, kept) == kept

\* What a directory keeps when its metadata cannot be put on it: a mode
\* that was loosened is put back.
PutBack(level, kept) == IF level.loosened THEN "readonly" ELSE kept

\* The end of restore_dir: a directory that was made is counted and gets its
\* metadata, for which it is opened once more.
RestoreLeave ==
    /\ AtEnd("restore") /\ ~BaseFailed
    /\ stack' = Front(stack)
    /\ LET open == Ensure(stack, mode, TRUE)
           level == Last(open.levels)
           counted == [summary EXCEPT !.dirs = @ + 1]
       IN IF ~Top.isDir \/ ~Top.handle THEN UNCHANGED <<summary, mode>>
          ELSE IF level.recorded = "none" THEN summary' = counted /\ mode' = open.modes
          ELSE IF level.path \in world.unsettable
          THEN /\ summary' = Fail(counted, level.path)
               /\ mode' = [open.modes EXCEPT ![level.path] = PutBack(level, @)]
          ELSE /\ summary' = counted
               /\ mode' = [open.modes EXCEPT ![level.path] = level.recorded]
    /\ UNCHANGED <<rigid, phase, places, hit, planned>>

RestoreEnd ==
    /\ phase = "restore" /\ stack = <<>> /\ places = <<>>
    /\ phase' = "done"
    /\ summary' = [summary EXCEPT !.unmatched = Unmatched]
    /\ UNCHANGED <<rigid, stack, places, hit, planned, mode>>

WalkInit ==
    /\ snapshot \in Snapshots /\ request \in Requests /\ world \in Worlds
    /\ phase = "place"
    /\ placed = <<>> /\ places = <<>> /\ stack = <<>>
    /\ hit = {}
    /\ summary = NoSummary /\ planned = NoSummary
    /\ mode = world.before

WalkNext ==
    \/ Place
    \/ PlanPlace \/ PlanSkip \/ PlanLeaf \/ PlanDir \/ PlanLeave \/ PlanEnd
    \/ RestorePlace \/ RestoreSkip \/ RestoreStuck \/ RestoreLeaf \/ RestoreDir
    \/ RestoreLeave \/ RestoreBlocked \/ RestoreEnd

WalkSpec == WalkInit /\ [][WalkNext]_walkVars

-----------------------------------------------------------------------------
(* What is asked for, said of whole paths.                                 *)

Under(path) == IsStrictPrefix(request.subtree, path)
Target(path) == SubSeq(path, Len(request.subtree) + 1, Len(path))
Parts(path) == Prefixes(path) \ {<<>>}

Excluded(path) == \E p \in Parts(path) : Decision(request.exclude, p) = "yes"

\* The nearest node on the path that a pattern of include says something of.
Included(path) ==
    LET said == {Len(p) : p \in {p \in Parts(path) : Decision(request.include, p) # "none"}}
    IN IF said = {} THEN request.include = <<>>
       ELSE Decision(request.include, SubSeq(path, 1, Max(said))) = "yes"

Chosen(path) == ~Excluded(path) /\ Included(path)

\* The nodes of the snapshot that can be read, and those that are to be
\* restored.
Nodes ==
    LET below[d \in 0 .. MaxDepth + Len(request.subtree), t \in DOMAIN snapshot.trees] ==
            IF d = 0 \/ ~Readable(t) THEN {}
            ELSE LET es == ToSet(Entries(t))
                 IN {[path |-> <<e.name>>, kind |-> e.kind, open |-> d > 1 /\ e.kind = "dir",
                       sub |-> e.sub] : e \in es}
                    \cup UNION {{[n EXCEPT !.path = <<e.name>> \o @] : n \in below[d - 1, e.sub]} :
                                e \in {e \in es : e.kind = "dir"}}
        at(r) == IF r.at # <<>> /\ Readable(r.tree) /\ IsFileRoot(Last(r.at), Entries(r.tree))
                 THEN Front(r.at) ELSE r.at
        depth(r) == MaxDepth + Max({0, Len(request.subtree) - Len(r.at)})
    IN UNION {{[n EXCEPT !.path = at(snapshot.roots[k]) \o @] @@ [root |-> k] :
                   n \in below[depth(snapshot.roots[k]), snapshot.roots[k].tree]} :
                k \in DOMAIN snapshot.roots}

Wanted == {n \in Nodes : Under(n.path) /\ Chosen(n.path)}
WantedDirs ==
    LET wanted == Wanted
    IN {n \in Nodes : Under(n.path) /\ n.open
                        /\ (n \in wanted \/ \E w \in wanted : IsStrictPrefix(n.path, w.path))}
Broken(n) == n.kind = "other" \/ (n.kind = "dir" /\ (~n.open \/ ~Readable(n.sub)))

\* The placements themselves, as far as they are selected.
PlacePath(place) == request.subtree \o Opened(place).rel
Covered == {n.path : n \in Wanted} \cup {PlacePath(p) : p \in {p \in ToSet(placed) : Opened(p).pos.selected}}
NeverMatched ==
    LET parts == UNION {Parts(path) : path \in Covered}
    IN {p \in DOMAIN request.include :
            Positive(p) /\ ~\E q \in parts : MeansPath(request.include[p], q)}

\* The dry run reports the nodes that the patterns and SNAPSHOT:PATH ask for
\* and no other, the directories above them with them, counts each, and names
\* the patterns that asked for nothing, although it prunes the branches in
\* which it expects nothing.
SelectionExact ==
    (phase = "restore" /\ stack = <<>> /\ places = placed) =>
        LET wanted == Wanted
            dirs == WantedDirs
        IN /\ planned.nodes = {<<Target(n.path), n.kind>> : n \in {n \in wanted : IsLeaf(n)}}
                                \cup {<<Target(n.path), "dir">> : n \in dirs}
           /\ planned.files = Cardinality({n \in wanted : n.kind = "file"})
           /\ planned.symlinks = Cardinality({n \in wanted : n.kind = "symlink"})
           /\ planned.dirs = Cardinality({n \in dirs : Readable(n.sub)})
           /\ {Target(n.path) : n \in {n \in wanted : Broken(n)}} \subseteq planned.errors
           /\ planned.unmatched = NeverMatched

\* Nothing is reported or restored that is not asked for, whatever fails
\* meanwhile: no directory that is excluded is reported or made, and no other
\* node is reported or restored unless it is chosen.
NothingUnasked ==
    /\ \A n \in summary.nodes \cup planned.nodes :
          LET path == request.subtree \o n[1]
          IN ~Excluded(path) /\ (n[2] # "dir" => Included(path))
    /\ \A p \in DOMAIN mode \ DOMAIN world.before : ~Excluded(request.subtree \o p)

Undisturbed == world = [before |-> << >>, blocked |-> {}, lost |-> {}, unsettable |-> {}]

\* No root is inside another.  Where one is, its placement may be a directory
\* that the walk of the other root has just made read-only again, and then
\* nothing more can be written there.
Disjoint ==
    \A k, l \in DOMAIN snapshot.roots :
        k # l => ~IsPrefix(snapshot.roots[k].at, snapshot.roots[l].at)

\* A restore into an empty target in which nothing fails does what its dry run
\* has told: the same nodes, counts, errors and unmatched patterns, and no
\* directory that was not reported but the placements and those above them.
DryRunFaithful ==
    Undisturbed /\ Disjoint =>
        /\ phase = "failed" => planned = NoSummary
        /\ phase = "done" =>
              LET told == {n[1] : n \in {n \in planned.nodes : n[2] = "dir"}}
              IN /\ summary = [planned EXCEPT !.nodes = {n \in @ : n[2] # "dir"}]
                 /\ told \subseteq DOMAIN mode
                 /\ DOMAIN mode \ told \subseteq UNION {Prefixes(Opened(p).rel) : p \in ToSet(placed)}

\* A directory is writable only for as long as the restore works in it: it
\* gets its recorded mode or keeps the one it had, on every way out.
LoosenedRestored ==
    \A p \in DOMAIN mode : mode[p] = "loosened" => \E k \in DOMAIN stack : stack[k].path = p

\* A restore that cannot make a placement fails as a whole, also when it is
\* found out deep inside, instead of reporting every subtree for itself.
BlockedPlaceFails ==
    phase = "done" =>
        \A place \in ToSet(placed) :
            Prefixes(Opened(place).rel) \cap world.blocked # {} =>
                ~\E n \in Wanted : IsPrefix(PlacePath(place), n.path)
=============================================================================
