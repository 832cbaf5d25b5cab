----------------------------- MODULE MCRestore -----------------------------
(***************************************************************************)
(* Restores for TLC: the walk over small snapshots, for the requests worth *)
(* telling apart and with what may stand in the way; and, apart from it,   *)
(* what becomes of single entries while another process is at work.        *)
(***************************************************************************)
EXTENDS RestoreWalk, RestoreEntry, MCPaths

Entry(name, kind, sub, recorded) == [name |-> name, kind |-> kind, sub |-> sub, mode |-> recorded]
Dir(name, sub, recorded) == Entry(name, "dir", sub, recorded)
File(name) == Entry(name, "file", "-", "none")
Link(name) == Entry(name, "symlink", "-", "none")
Other(name) == Entry(name, "other", "-", "none")

Trees ==
    [top |-> <<Dir(a, "mid", "readonly"), Dir(b, "low", "open"), File(ab)>>,
     mid |-> <<File(a), Dir(b, "low", "none"), Link(odd)>>,
     low |-> <<Dir(a, "last", "readonly"), File(b)>>,
     last |-> <<Other(a), File(ab), Dir(b, "none", "open")>>,
     none |-> << >>,
     one |-> <<File(b)>>]

\* A directory and a file that are roots; a root that is the whole file
\* system; and one with a tree that cannot be read.
AllSnapshots ==
    {[roots |-> <<[at |-> <<h, a>>, tree |-> "top"], [at |-> <<h, b>>, tree |-> "one"]>>,
      trees |-> Trees, bad |-> {}],
     [roots |-> <<[at |-> << >>, tree |-> "mid"], [at |-> <<b, a>>, tree |-> "last"]>>,
      trees |-> Trees, bad |-> {}],
     [roots |-> <<[at |-> <<a>>, tree |-> "top"]>>, trees |-> Trees, bad |-> {"low"}]}

Includes ==
    {<<>>,
     <<P(FALSE, FALSE, <<<<Lit("a"), Star>>>>)>>,
     <<P(FALSE, TRUE, <<DeepStar, <<Lit("b")>>, <<AnyChar, Lit("b")>>>>), P(FALSE, TRUE, <<<<Lit("A")>>>>)>>,
     <<P(FALSE, TRUE, <<<<Lit("h")>>, DeepStar>>), P(TRUE, FALSE, <<<<Lit("b")>>>>)>>,
     <<P(FALSE, FALSE, <<<<Class(TRUE, {"a", "h"}), Star, Lit("b")>>>>),
       P(TRUE, FALSE, <<<<Lit("b")>>, <<Lit("a")>>>>),
       Pattern(FALSE, FALSE, TRUE, <<<<Lit("A"), Lit("b")>>>>)>>,
     <<P(FALSE, TRUE, <<<<Star>>, <<Lit("a")>>, <<AnyChar>>, <<Lit("a")>>>>)>>,
     <<P(TRUE, FALSE, <<<<Star>>>>)>>}
Excludes ==
    {<<>>,
     <<P(FALSE, FALSE, <<<<Lit("b")>>>>)>>,
     <<P(FALSE, FALSE, <<<<Star, Lit("b")>>>>),
       P(TRUE, TRUE, <<DeepStar, <<Lit("a")>>, DeepStar, <<Lit("b")>>>>)>>}
Subtrees == {<<>>, <<h>>, <<h, a>>, <<h, a, b>>, <<a>>, <<h, b>>, <<b>>}

AllRequests ==
    {[include |-> i, exclude |-> e, subtree |-> s] : i \in Includes, e \in Excludes, s \in Subtrees}

None == << >>
Quiet == [before |-> None, blocked |-> {}, lost |-> {}, unsettable |-> {}]
AllWorlds ==
    {Quiet,
     [Quiet EXCEPT !.before = (<<h>> :> "open") @@ (<<h, a>> :> "open")
                                @@ (<<h, a, a>> :> "readonly") @@ (<<h, a, b>> :> "open")
                                 @@ (<<h, a, b, a>> :> "readonly"),
                   !.unsettable = {<<h, a, a>>}, !.lost = {<<h, a, b, b>>}],
     [Quiet EXCEPT !.blocked = {<<h, a>>, <<a, b>>}],
     [Quiet EXCEPT !.blocked = {<<h, a, b>>, <<b>>},
                     !.before = (<<a>> :> "readonly") @@ (<<a, a>> :> "readonly")]}

-----------------------------------------------------------------------------
F(dir, name, key, suid, owner) ==
    [dir |-> dir, name |-> name, kind |-> "file", key |-> key, suid |-> suid, owner |-> owner,
     data |-> IF key = 0 THEN "own" ELSE "shared"]
S(dir, name) == [F(dir, name, 0, FALSE, TRUE) EXCEPT !.kind = "symlink", !.data = "O"]

\* Two names of one file, in either order, either of them restored twice; and
\* symlinks.
AllScripts ==
    {<<F("T", "a", 1, TRUE, TRUE), F("D", "b", 1, TRUE, TRUE), S("T", "c")>>,
     <<F("D", "b", 1, FALSE, TRUE), F("T", "a", 1, FALSE, TRUE), F("T", "a", 1, FALSE, TRUE)>>,
     <<F("T", "a", 1, FALSE, TRUE), F("T", "a", 1, FALSE, TRUE), F("D", "b", 1, FALSE, TRUE)>>,
     <<S("D", "c"), F("D", "b", 0, TRUE, FALSE)>>}

\* An empty target, one with files that are linked, and what is in the way.
AllBefore ==
    {None,
     (<<"T", "a">> :> Regular(1)) @@ (<<"T", "d">> :> DirD) @@ (<<"D", "b">> :> Regular(1))
         @@ (<<"T", "c">> :> Regular(1)),
     (<<"T", "a">> :> ToOutside) @@ (<<"T", "d">> :> DirD) @@ (<<"D", "b">> :> Special)
         @@ (<<"D", "c">> :> DirD),
     (<<"T", "d">> :> ToOutside),
     (<<"T", "d">> :> Regular(1)) @@ (<<"T", "a">> :> DirD)}

\* One of the two is at work, the other has nothing to do.
NoWalk ==
    /\ snapshot = [roots |-> <<>>, trees |-> None, bad |-> {}]
    /\ request = [include |-> <<>>, exclude |-> <<>>, subtree |-> <<>>]
    /\ world = Quiet /\ phase = "refused" /\ placed = <<>> /\ places = <<>> /\ stack = <<>>
    /\ hit = {} /\ summary = NoSummary /\ planned = NoSummary /\ mode = None
NoEntries ==
    /\ script = <<>> /\ asRoot = FALSE /\ hardLinks = FALSE
    /\ dirs = [O |-> None] /\ theirs = dirs /\ put = None
    /\ inodes = <<User, User>> /\ at = 1 /\ pc = "open" /\ handle = "none" /\ temp = NoTemp
    /\ first = None /\ restored = {} /\ failed = {} /\ raced = {} /\ meddled = 0

MCRestoreInit == (WalkInit /\ NoEntries) \/ (NoWalk /\ EntryInit)
MCRestoreNext ==
    \/ WalkNext /\ UNCHANGED entryVars
    \/ script # <<>> /\ EntryNext /\ UNCHANGED walkVars
MCRestoreSpec == MCRestoreInit /\ [][MCRestoreNext]_<<walkVars, entryVars>>
=============================================================================
