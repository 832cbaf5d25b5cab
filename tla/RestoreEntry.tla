---------------------------- MODULE RestoreEntry ----------------------------
(***************************************************************************)
(* How a restore puts files, hard links and symlinks into the directories  *)
(* of its target (kist-core/src/restore.rs, dirhandle.rs, fsmeta.rs),      *)
(* while another process works in the same directories and while each call *)
(* may fail or be the last one.  "T" is the target, "D" the directory that *)
(* is d in it at first, "O" a directory outside of the target.  Calls go   *)
(* through handles: a directory that is moved away stays the directory it  *)
(* is.  An object is what a name of a directory stands for.                *)
(***************************************************************************)
EXTENDS Naturals, Sequences

CONSTANTS
    Data,       \* what a file may contain, and where a symlink may go to
    Scripts,    \* the entries a restore comes to, in their order
    Before,     \* what the names of the target may stand for before it
    Meddles,    \* how often the other process does something
    Faults      \* whether calls fail for a reason of their own

VARIABLES
    script,     \* the entries of this restore
    asRoot,     \* it runs as root
    hardLinks,  \* the file system of the target has hard links
    dirs,       \* what every name in every directory stands for
    inodes,     \* the files
    at,         \* the entry it is at
    pc,         \* what it does with it next
    handle,     \* the directory it has open for d ("none" or D)
    temp,       \* the temporary name of this entry
    first,      \* the hard link table: where the first name of a file is
    restored,   \* the entries that are counted
    failed,     \* the entries an error is recorded for
    theirs,     \* what the others last put behind a name
    put,        \* all that they ever put there, during this restore
    raced,      \* the names they changed between the last look and the rename
    meddled     \* how often they did something

entryVars == <<script, asRoot, hardLinks, dirs, inodes, at, pc, handle, temp, first,
               restored, failed, theirs, put, raced, meddled>>

Obj(kind, dir, file) == [kind |-> kind, dir |-> dir, file |-> file]
Nothing == Obj("none", "none", 0)
DirD == Obj("dir", "D", 0)
ToOutside == Obj("symlink", "O", 0)
Special == Obj("special", "none", 0)
Regular(n) == Obj("file", "none", n)
Names == {"a", "b", "c", "d", "tmp"}

\* The entries of a restore.  A name comes again only as the same file, from
\* sources that overlap, and what is recorded of one file is the same.
ScriptEntries == [dir : {"T", "D"}, name : {"a", "b", "c"}, kind : {"file", "symlink"}, key : Nat,
            suid : BOOLEAN, owner : BOOLEAN, data : Data]
PlaceOf(e) == <<e.dir, e.name>>
OneFile(e, f) == e.key # 0 /\ e.key = f.key
ASSUME ScriptsAssumption ==
    \A s \in Scripts :
        /\ s \in Seq(ScriptEntries)
        /\ \A k, l \in DOMAIN s :
              /\ PlaceOf(s[k]) = PlaceOf(s[l]) => k = l \/ OneFile(s[k], s[l])
              /\ OneFile(s[k], s[l]) => s[k] = [s[l] EXCEPT !.dir = s[k].dir, !.name = s[k].name]

ASSUME BeforeAssumption ==
    \A before \in Before : \A p \in DOMAIN before :
        /\ p \in {"T", "D"} \X {"a", "b", "c", "d"}
        /\ before[p] \in {Nothing, DirD, ToOutside, Special, Regular(1)}

ASSUME MeddlesAssumption == Meddles \in Nat

NoTemp == [is |-> FALSE, dir |-> "none", link |-> FALSE]

\* A file: its content, whether it has its recorded owner, and setuid.
Inode(data, owned, suid) == [data |-> data, owned |-> owned, suid |-> suid]
User == Inode("user", TRUE, FALSE)

E == script[at]
EntryDir == IF E.dir = "T" THEN "T" ELSE handle
Dest == dirs[EntryDir][E.name]
Put(d, n, o) == dirs' = [dirs EXCEPT ![d][n] = o]

rigidEntry == <<script, asRoot, hardLinks>>
others == <<theirs, put, raced, meddled>>

NextEntryIs(ok, error) ==
    /\ at' = at + 1
    /\ pc' = "open"
    /\ restored' = IF ok THEN restored \cup {at} ELSE restored
    /\ failed' = IF error THEN failed \cup {at} ELSE failed

Continue(to) == pc' = to /\ UNCHANGED <<at, restored, failed>>

-----------------------------------------------------------------------------
(* Directories.                                                            *)

\* A slip: a symlink is followed.
OpenChildFollows(o) == IF o.kind \in {"dir", "symlink"} THEN o.dir ELSE "none"

\* open_child_dir: O_DIRECTORY and O_NOFOLLOW.
OpenChild(o) == IF o.kind = "dir" THEN o.dir ELSE "none"

\* The level of the entry; create_child_dir uses what is there.
Open ==
    /\ pc = "open" /\ at <= Len(script)
    /\ LET needs == E.dir = "D" /\ handle = "none"
           found == IF dirs["T"]["d"] = Nothing THEN DirD ELSE dirs["T"]["d"]
           opened == OpenChild(found)
       IN IF ~needs THEN Continue("start") /\ UNCHANGED <<dirs, handle>>
          ELSE /\ handle' = opened
               /\ Put("T", "d", found)
               /\ IF opened = "none" THEN NextEntryIs(FALSE, TRUE) ELSE Continue("start")
    /\ UNCHANGED <<rigidEntry, inodes, temp, first, others>>

Dispatch ==
    /\ pc = "start"
    /\ Continue(IF E.kind = "symlink" THEN "clear"
                ELSE IF E.key \in DOMAIN first THEN "link" ELSE "look")
    /\ UNCHANGED <<rigidEntry, dirs, inodes, handle, temp, first, others>>

-----------------------------------------------------------------------------
(* Hard links.                                                             *)

\* open_rel: from the target down to the directory of the first name.
FirstDir == IF first[E.key].dir = "T" THEN "T" ELSE OpenChild(dirs["T"]["d"])
FirstObj == IF FirstDir = "none" THEN Nothing ELSE dirs[FirstDir][first[E.key].name]
Linkable == hardLinks /\ FirstObj.kind \notin {"none", "dir"}

\* A slip: a name that is there already is replaced by a copy.
AfterLinkCopy == "look"

\* What is done when the name is taken, or when it cannot be linked.
AfterLink == IF Linkable THEN "linkOver" ELSE "look"

\* link_to_first.  When it fails the file is copied.
LinkFirst ==
    /\ pc = "link"
    /\ IF Linkable /\ Dest = Nothing
       THEN Put(EntryDir, E.name, FirstObj) /\ NextEntryIs(TRUE, FALSE)
       ELSE /\ Continue(AfterLink)
            /\ UNCHANGED dirs
    /\ UNCHANGED <<rigidEntry, inodes, handle, temp, first, others>>

SameFile == FirstObj = Dest

\* link_over: a link under a temporary name first.
LinkOver ==
    /\ pc = "linkOver"
    /\ IF SameFile THEN NextEntryIs(TRUE, FALSE) /\ UNCHANGED <<dirs, temp>>
       ELSE IF Linkable
       THEN /\ Put(EntryDir, "tmp", FirstObj)
            /\ temp' = [is |-> TRUE, dir |-> EntryDir, link |-> TRUE]
            /\ Continue("commit")
       ELSE Continue("look") /\ UNCHANGED <<dirs, temp>>
    /\ UNCHANGED <<rigidEntry, inodes, handle, first, others>>

-----------------------------------------------------------------------------
(* Files.                                                                  *)

\* A slip: only a directory is in the way.
InTheWayDir(o) == o.kind = "dir"

\* refuse_in_the_way.
InTheWay(o) == o.kind \notin {"none", "file"}

\* restore_file, before the content is read.
Look ==
    /\ pc = "look"
    /\ IF InTheWay(Dest) THEN NextEntryIs(FALSE, TRUE) ELSE Continue("create")
    /\ UNCHANGED <<rigidEntry, dirs, inodes, handle, temp, first, others>>

\* TempFile::create_in, and the content goes into it.
Create ==
    /\ pc = "create"
    /\ inodes' = Append(inodes, Inode("part", FALSE, FALSE))
    /\ Put(EntryDir, "tmp", Regular(Len(inodes) + 1))
    /\ temp' = [is |-> TRUE, dir |-> EntryDir, link |-> FALSE]
    /\ Continue("write")
    /\ UNCHANGED <<rigidEntry, handle, first, others>>

Drop == temp' = NoTemp /\ Put(temp.dir, "tmp", Nothing)

\* The last chunk is written, or one cannot be read.
Write ==
    /\ pc = "write"
    /\ \/ /\ inodes' = [inodes EXCEPT ![Len(inodes)].data = E.data]
          /\ Continue("meta") /\ UNCHANGED <<dirs, temp>>
       \/ Faults /\ Drop /\ NextEntryIs(FALSE, TRUE) /\ UNCHANGED inodes
    /\ UNCHANGED <<rigidEntry, handle, first, others>>

\* A slip: the mode first.
DressedModeFirst(inode, entry, root, owner, mode) ==
    LET chmoded == IF mode THEN [inode EXCEPT !.suid = entry.suid] ELSE inode
    IN IF owner THEN [chmoded EXCEPT !.owned = TRUE, !.suid = FALSE] ELSE chmoded

\* apply_meta: the owner first, which clears setuid, and then the mode,
\* without setuid when root could not give the file to its owner.
Dressed(inode, entry, root, owner, mode) ==
    LET chowned == IF owner THEN [inode EXCEPT !.owned = TRUE, !.suid = FALSE] ELSE inode
    IN IF mode THEN [chowned EXCEPT !.suid = entry.suid /\ (owner \/ ~root)] ELSE chowned

\* Extended attributes that cannot be set end it; the file is kept.
Meta ==
    /\ pc = "meta"
    /\ \E xattrs, chown \in IF Faults THEN BOOLEAN ELSE {TRUE} :
          LET owner == xattrs /\ asRoot /\ E.owner /\ chown
          IN /\ inodes' = [inodes EXCEPT ![Len(inodes)] = Dressed(@, E, asRoot, owner, xattrs)]
             /\ failed' = IF xattrs /\ (asRoot /\ E.owner => owner) THEN failed ELSE failed \cup {at}
    /\ pc' = "commit"
    /\ UNCHANGED <<rigidEntry, dirs, at, handle, temp, first, restored, others>>

\* A copy takes over when a link cannot be put in place.
GiveUp == IF temp.link THEN Continue("look") ELSE NextEntryIs(FALSE, TRUE)

\* TempPath::commit: the last look ...
Commit ==
    /\ pc = "commit"
    /\ IF InTheWay(Dest) THEN Drop /\ GiveUp
       ELSE Continue("rename") /\ UNCHANGED <<dirs, temp>>
    /\ UNCHANGED <<rigidEntry, inodes, handle, first, others>>

\* ... and the rename, which does nothing when both names are one file.
Rename ==
    /\ pc = "rename"
    /\ LET new == dirs[EntryDir]["tmp"]
       IN IF Dest.kind = "dir"
          THEN Drop /\ GiveUp /\ UNCHANGED first
          ELSE /\ dirs' = IF new = Dest THEN dirs
                          ELSE [dirs EXCEPT ![EntryDir][E.name] = new, ![EntryDir]["tmp"] = Nothing]
               /\ temp' = NoTemp
               /\ first' = IF temp.link \/ E.key = 0 THEN first
                           ELSE [key \in DOMAIN first \cup {E.key} |->
                                   IF key = E.key THEN [dir |-> E.dir, name |-> E.name] ELSE first[key]]
               /\ NextEntryIs(TRUE, FALSE)
    /\ UNCHANGED <<rigidEntry, inodes, handle, others>>

-----------------------------------------------------------------------------
(* Symlinks: replace_with_symlink removes what is there, and then makes    *)
(* the symlink.                                                            *)

ClearName ==
    /\ pc = "clear"
    /\ \/ Dest.kind # "dir" /\ Put(EntryDir, E.name, Nothing) /\ Continue("symlink")
       \/ /\ Dest.kind = "dir" \/ (Faults /\ Dest # Nothing)
          /\ NextEntryIs(FALSE, TRUE) /\ UNCHANGED dirs
    /\ UNCHANGED <<rigidEntry, inodes, handle, temp, first, others>>

Symlink ==
    /\ pc = "symlink"
    /\ \/ /\ Dest = Nothing /\ Put(EntryDir, E.name, Obj("symlink", E.data, 0))
          /\ \E metaFails \in IF Faults THEN BOOLEAN ELSE {FALSE} : NextEntryIs(TRUE, metaFails)
       \/ (Dest # Nothing \/ Faults) /\ NextEntryIs(FALSE, TRUE) /\ UNCHANGED dirs
    /\ UNCHANGED <<rigidEntry, inodes, handle, temp, first, others>>

Running == pc # "killed" /\ at <= Len(script)

\* SIGINT runs no destructor.
Kill ==
    /\ Running /\ Faults
    /\ pc' = "killed"
    /\ UNCHANGED <<rigidEntry, dirs, inodes, at, handle, temp, first, restored, failed, others>>

-----------------------------------------------------------------------------
(* The other process.                                                      *)

Meddle(d, n, o) ==
    /\ Running /\ meddled < Meddles
    /\ Put(d, n, o)
    /\ theirs' = [theirs EXCEPT ![d][n] = o] /\ put' = [put EXCEPT ![d][n] = @ \cup {o}]
    /\ raced' = IF pc = "rename" /\ d = EntryDir /\ n = E.name THEN raced \cup {<<d, n>>} ELSE raced
    /\ meddled' = meddled + 1
    /\ UNCHANGED <<rigidEntry, inodes, at, pc, handle, temp, first, restored, failed>>

\* It moves d away and puts a symlink there, or something behind a name.
SwapDir == dirs["T"]["d"] = DirD /\ Meddle("T", "d", ToOutside)
Plant ==
    \E k \in DOMAIN script, o \in {ToOutside, Special, Regular(1)} :
        /\ dirs[script[k].dir][script[k].name].kind \in {"none", "file"}
        /\ Meddle(script[k].dir, script[k].name, o)

-----------------------------------------------------------------------------
EntryInit ==
    /\ script \in Scripts
    /\ asRoot \in BOOLEAN /\ hardLinks \in BOOLEAN
    /\ \E before \in Before :
          dirs = [d \in {"T", "D", "O"} |-> [n \in Names |->
                    IF d = "O" /\ n = "b" THEN Regular(2)
                    ELSE IF <<d, n>> \in DOMAIN before THEN before[<<d, n>>] ELSE Nothing]]
    \* The user's file, which may have several names, and the one outside.
    /\ inodes = <<User, User>>
    /\ at = 1 /\ pc = "open" /\ handle = "none"
    /\ temp = NoTemp
    /\ first = << >>
    /\ restored = {} /\ failed = {}
    /\ theirs = dirs /\ raced = {} /\ meddled = 0
    /\ put = [d \in {"T", "D", "O"} |-> [n \in Names |-> {}]]

EntryNext ==
    \/ Open \/ Dispatch \/ LinkFirst \/ LinkOver \/ Look \/ Create \/ Write \/ Meta
    \/ Commit \/ Rename \/ ClearName \/ Symlink \/ Kill \/ SwapDir \/ Plant

EntrySpec == EntryInit /\ [][EntryNext]_entryVars

-----------------------------------------------------------------------------
Files == {k \in DOMAIN script : script[k].kind = "file"}
Object(k) == dirs[script[k].dir][script[k].name]
Theirs(k) == theirs[script[k].dir][script[k].name]
EverPut(k) == put[script[k].dir][script[k].name]
Ended == pc = "open" /\ at > Len(script)

\* Nothing outside of the target changes, wherever the directories of the
\* target are moved and whatever symlinks come into their place.
OutsideUntouched ==
    /\ dirs["O"] = theirs["O"]
    /\ inodes[1] = User /\ inodes[2] = User

\* Behind the name of a file is what the others have put there, or the whole
\* content of an entry that is counted; a part of it never is.  What is not a
\* regular file stays, unless it has come after the last look.  A hard link
\* goes to whatever the others had put behind a name of the file.
CountedFor(k) == {l \in restored : PlaceOf(script[l]) = PlaceOf(script[k])}
SameKey(k) == {l \in Files : OneFile(script[k], script[l])}
ContentOf(k, o) == o.kind = "file" /\ inodes[o.file].data = script[k].data
Linked(k, o) == \E l \in SameKey(k) : o \in EverPut(l)
ExistingKept ==
    \A k \in Files :
        \/ Object(k) = Theirs(k)
        \/ /\ \E l \in CountedFor(k) : ContentOf(l, Object(k)) \/ Linked(l, Object(k))
           /\ Theirs(k).kind \in {"dir", "symlink", "special"} => PlaceOf(script[k]) \in raced

\* Root restores setuid only together with the owner, and always with it.
SetuidWithOwner ==
    \A k \in restored \cap Files :
        Object(k) # Theirs(k) /\ Object(k).kind = "file" =>
            LET f == inodes[Object(k).file]
            IN /\ f.suid /\ asRoot => f.owned
               /\ SameKey(k) \cup {k} \subseteq restored \ failed /\ meddled = 0
                  /\ (asRoot => script[k].owner)
                     => f.suid = script[k].suid

\* Names that were one file are one file again, also over an earlier restore.
LinkedTogether ==
    Ended /\ hardLinks /\ meddled = 0 =>
        \A k, l \in restored \cap Files :
            OneFile(script[k], script[l]) => Object(k) = Object(l)
=============================================================================
