------------------------------ MODULE RestoreProofs ------------------------------
(***************************************************************************)
(* Proofs about restores.  RestoreEntry: whatever another process does in  *)
(* the directories of the target, whichever calls fail and whenever it is  *)
(* killed, a restore leaves what is outside alone, keeps what is there or  *)
(* puts a whole file in its place, gives no file setuid for the wrong      *)
(* owner, and makes names that were one file one file again.  RestoreWalk: *)
(* a directory that is made writable for the restore stays so only for as  *)
(* long as the restore is in it.  Filter: the positions that move down a   *)
(* path know what the patterns mean for it.                                *)
(***************************************************************************)
EXTENDS RestoreEntry, RestoreWalk, SequenceTheorems, NaturalsInduction, WellFoundedInduction, TLAPS

Dirs == {"T", "D", "O"}
FileNames == {"a", "b", "c"}

Kinds == {"none", "dir", "symlink", "special", "file"}
Objects == [kind : Kinds, dir : Data \cup {"none", "D", "O"}, file : Nat]

\* A directory is D, and a file is one that there is.
Sane(o) ==
    /\ o \in Objects
    /\ o.kind = "dir" => o.dir = "D"
    /\ o.kind = "file" => o.file \in 1 .. Len(inodes)

Steps == {"open", "start", "link", "linkOver", "look", "create", "write", "meta", "commit",
          "rename", "clear", "symlink", "killed"}

ScriptType == script \in Scripts /\ asRoot \in BOOLEAN /\ hardLinks \in BOOLEAN
DirsType ==
    /\ dirs \in [Dirs -> [Names -> Objects]]
    /\ theirs \in [Dirs -> [Names -> Objects]]
    /\ put \in [Dirs -> [Names -> SUBSET Objects]]
    /\ \A d \in Dirs, n \in Names : Sane(dirs[d][n])
    /\ dirs["O"] = theirs["O"]
    /\ \A d \in Dirs, n \in Names : \A o \in put[d][n] : o \in {ToOutside, Special, Regular(1)}
Inodes == [data : Data \cup {"user", "part"}, owned : BOOLEAN, suid : BOOLEAN]
InodesType ==
    /\ inodes \in Seq(Inodes)
    /\ Len(inodes) >= 2 /\ inodes[1] = User /\ inodes[2] = User
Temps == [is : BOOLEAN, dir : {"none", "T", "D"}, link : BOOLEAN]
ProgressType ==
    /\ at \in 1 .. Len(script) + 1 /\ pc \in Steps /\ handle \in {"none", "D"}
    /\ temp \in Temps
    /\ restored \subseteq 1 .. (at - 1)
    /\ meddled \in Nat
    /\ \A k \in restored : script[k].dir = "D" => handle = "D"
    /\ pc \notin {"open", "killed"} => at <= Len(script) /\ (E.dir = "D" => handle = "D")
TypeOK == ScriptType /\ DirsType /\ InodesType /\ ProgressType

\* Each step is one of its own kind of entry.
StepFits ==
    /\ pc \in {"link", "linkOver", "look", "create", "write", "meta", "commit", "rename"}
          => E.kind = "file"
    /\ pc \in {"clear", "symlink"} => E.kind = "symlink"
    /\ pc \in {"link", "linkOver"} => E.key # 0 /\ E.key \in DOMAIN first
    /\ pc = "linkOver" => Dest # Nothing

\* The first name of a file is that of an entry that is restored.
FirstNamed ==
    /\ 0 \notin DOMAIN first
    /\ \A key \in DOMAIN first :
          \E l \in restored \cap Files :
              script[l].key = key /\ first[key] = [dir |-> script[l].dir, name |-> script[l].name]

FirstOf(key) == dirs[first[key].dir][first[key].name]

\* The first name stands for the file, or for what the others put there.
FirstKept ==
    \A k \in Files :
        script[k].key \in DOMAIN first =>
            ContentOf(k, FirstOf(script[k].key)) \/ Linked(k, FirstOf(script[k].key))

\* The temporary name: the file of this entry, or a link.
TempKept ==
    /\ pc \in {"write", "meta", "commit", "rename"} => temp.is /\ temp.dir = EntryDir
    /\ pc \in {"write", "meta"} => ~temp.link
    /\ pc \in {"write", "meta", "commit", "rename"} /\ ~temp.link
          => /\ Len(inodes) >= 3
             /\ dirs[EntryDir]["tmp"] = Regular(Len(inodes))
    /\ pc \in {"meta", "commit", "rename"} /\ ~temp.link => inodes[Len(inodes)].data = E.data
    /\ pc \in {"commit", "rename"} /\ temp.link
          => /\ E.key # 0 /\ E.key \in DOMAIN first
             /\ ContentOf(at, dirs[EntryDir]["tmp"]) \/ Linked(at, dirs[EntryDir]["tmp"])

\* No other name has the file that is being written.
Fresh ==
    pc \in {"write", "meta"} =>
        \A d \in Dirs, n \in Names \ {"tmp"} : dirs[d][n].kind = "file" => dirs[d][n].file < Len(inodes)

\* What is in the way at the rename has come after the last look.
Looked ==
    pc = "rename" =>
        (theirs[EntryDir][E.name].kind \in {"dir", "symlink", "special"} => PlaceOf(E) \in raced)

\* No file has setuid without its owner when root restores it.
SuidOwned == \A f \in 1 .. Len(inodes) : inodes[f].suid /\ asRoot => inodes[f].owned

SafetyInv ==
    TypeOK /\ StepFits /\ FirstNamed /\ FirstKept /\ TempKept /\ Fresh /\ Looked /\ ExistingKept
    /\ SuidOwned

-----------------------------------------------------------------------------
(* While nobody meddles.                                                   *)

Settled(l) == l \notin failed /\ (asRoot => script[l].owner)
MadeBy(l, o) == o.kind = "file" /\ (Settled(l) => inodes[o.file].suid = script[l].suid)
MadeFor(k, o) == \E l \in restored \cap ({k} \cup SameKey(k)) : MadeBy(l, o)

HandleIsD == meddled = 0 /\ handle = "D" => OpenChild(dirs["T"]["d"]) = "D"

\* A restored name has a file that was made for it, or for another name of it.
NamesMade == meddled = 0 => \A k \in restored \cap Files : MadeFor(k, Object(k))
TempMade ==
    meddled = 0 /\ pc \in {"commit", "rename"} =>
        IF temp.link THEN MadeFor(at, dirs[EntryDir]["tmp"]) ELSE MadeBy(at, dirs[EntryDir]["tmp"])

\* The names of one file have what its first name has.
AsFirst ==
    meddled = 0 /\ hardLinks =>
        \A k \in restored \cap Files :
            script[k].key # 0 =>
                script[k].key \in DOMAIN first /\ Object(k) = FirstOf(script[k].key)

\* A copy is only made of the first name.
LinkPath ==
    meddled = 0 /\ hardLinks =>
        /\ pc = "look" /\ E.key \in DOMAIN first => InTheWay(Dest)
        /\ pc \in {"create", "write", "meta"} => E.key \notin DOMAIN first
        /\ pc \in {"commit", "rename"} =>
              /\ temp.link <=> E.key \in DOMAIN first
              /\ temp.link => dirs[EntryDir]["tmp"] = FirstOf(E.key)
        /\ pc = "rename" => ~InTheWay(Dest)

QuietInv == HandleIsD /\ NamesMade /\ TempMade /\ AsFirst /\ LinkPath
IInv == SafetyInv /\ QuietInv

-----------------------------------------------------------------------------
(* What the entries are.                                                   *)

\* The entries of a restore, and when two of them are one file (restore_node).
LEMMA ScriptFacts ==
    ASSUME ScriptType
    PROVE  /\ script \in Seq(ScriptEntries) /\ Len(script) \in Nat /\ DOMAIN script = 1 .. Len(script)
           /\ \A k \in DOMAIN script : script[k] \in ScriptEntries
           /\ \A k, l \in DOMAIN script :
                 /\ script[k].dir = script[l].dir /\ script[k].name = script[l].name
                       => k = l \/ (script[k].key # 0 /\ script[k].key = script[l].key)
                 /\ script[k].key # 0 /\ script[k].key = script[l].key
                       => /\ script[k].kind = script[l].kind /\ script[k].data = script[l].data
                          /\ script[k].suid = script[l].suid /\ script[k].owner = script[l].owner
<1>1. script \in Seq(ScriptEntries)
    BY ScriptsAssumption DEF ScriptType
<1>2. DOMAIN script = 1 .. Len(script) /\ Len(script) \in Nat
    BY <1>1
<1>3. \A k \in DOMAIN script : script[k] \in ScriptEntries
    BY <1>1, <1>2
<1>4. ASSUME NEW k \in DOMAIN script, NEW l \in DOMAIN script
      PROVE  /\ script[k].dir = script[l].dir /\ script[k].name = script[l].name
                   => k = l \/ (script[k].key # 0 /\ script[k].key = script[l].key)
             /\ script[k].key # 0 /\ script[k].key = script[l].key
                   => /\ script[k].kind = script[l].kind /\ script[k].data = script[l].data
                      /\ script[k].suid = script[l].suid /\ script[k].owner = script[l].owner
    <2>1. /\ PlaceOf(script[k]) = PlaceOf(script[l]) => k = l \/ OneFile(script[k], script[l])
          /\ OneFile(script[k], script[l])
                => script[k] = [script[l] EXCEPT !.dir = script[k].dir, !.name = script[k].name]
        BY ScriptsAssumption DEF ScriptType
    <2>2. script[k] \in ScriptEntries /\ script[l] \in ScriptEntries
        BY <1>3
    <2>3. ASSUME NEW e \in ScriptEntries, NEW f \in ScriptEntries,
                 e = [f EXCEPT !.dir = e.dir, !.name = e.name]
          PROVE  e.kind = f.kind /\ e.data = f.data /\ e.suid = f.suid /\ e.owner = f.owner
        BY <2>3 DEF ScriptEntries
    <2>4. QED
        BY <2>1, <2>2, <2>3 DEF OneFile, PlaceOf
<1>5. QED
    BY <1>1, <1>2, <1>3, <1>4

\* The entry that a step is about, and where its name is (restore_node).
LEMMA EntryFacts ==
    ASSUME TypeOK, pc \notin {"open", "killed"}
    PROVE  /\ at \in DOMAIN script /\ E \in ScriptEntries /\ EntryDir = E.dir
           /\ E.dir \in {"T", "D"} /\ E.name \in FileNames
           /\ EntryDir \in Dirs /\ E.name \in Names /\ E.name # "tmp"
           /\ Dest = Object(at) /\ Sane(Dest)
<1>1. at \in 1 .. Len(script) /\ at \in DOMAIN script
    <2>1. DOMAIN script = 1 .. Len(script) /\ Len(script) \in Nat
        BY ScriptFacts DEF TypeOK
    <2>2. at \in 1 .. Len(script) + 1
        BY DEF TypeOK, ProgressType
    <2>3. at <= Len(script)
        BY Zenon DEF TypeOK, ProgressType
    <2>4. QED
        BY <2>1, <2>2, <2>3
<1>2. E \in ScriptEntries
    BY <1>1, ScriptFacts DEF TypeOK, E
<1>3. E.dir \in {"T", "D"} /\ E.name \in FileNames
    BY <1>2 DEF ScriptEntries, FileNames
<1>4. EntryDir = E.dir
    BY <1>3 DEF EntryDir, TypeOK, ProgressType
<1>5. Sane(Dest)
    BY <1>3, <1>4 DEF Dest, TypeOK, DirsType, Dirs, Names, FileNames
<1>6. QED
    BY <1>1, <1>2, <1>3, <1>4, <1>5 DEF Dest, Object, E, Dirs, Names, FileNames

\* Where the name of a file is, and what it stands for.
LEMMA FileFacts ==
    ASSUME TypeOK, NEW k \in Files
    PROVE  /\ k \in DOMAIN script /\ k \in Nat /\ script[k] \in ScriptEntries /\ script[k].kind = "file"
           /\ script[k].dir \in {"T", "D"} /\ script[k].dir \in Dirs
           /\ script[k].name \in FileNames /\ script[k].name \in Names
           /\ Object(k) \in Objects /\ Sane(Object(k))
<1>1. k \in DOMAIN script /\ script[k].kind = "file" /\ script[k] \in ScriptEntries /\ k \in Nat
    BY ScriptFacts DEF Files, TypeOK
<1>2. script[k].dir \in {"T", "D"} /\ script[k].name \in FileNames
    BY <1>1 DEF ScriptEntries, FileNames
<1>3. script[k].dir \in Dirs /\ script[k].name \in Names
    BY <1>2 DEF Dirs, Names, FileNames
<1>4. QED
    BY <1>1, <1>2, <1>3 DEF Object, TypeOK, DirsType

\* What a change of one name does (the calls through a DirHandle).
LEMMA PutEffect ==
    ASSUME NEW f \in [Dirs -> [Names -> Objects]], NEW d \in Dirs, NEW n \in Names, NEW o \in Objects,
           NEW g, g = [f EXCEPT ![d][n] = o]
    PROVE  /\ g \in [Dirs -> [Names -> Objects]]
           /\ g[d][n] = o
           /\ \A e \in Dirs, m \in Names : e # d \/ m # n => g[e][m] = f[e][m]
           /\ \A e \in Dirs : e # d => g[e] = f[e]
OBVIOUS

\* The objects that a restore or the others put somewhere.
LEMMA TheObjects ==
    ASSUME NEW n \in Nat
    PROVE  Nothing \in Objects /\ DirD \in Objects /\ ToOutside \in Objects /\ Special \in Objects
           /\ Regular(n) \in Objects /\ \A t \in Data : Obj("symlink", t, 0) \in Objects
<1>1. ASSUME NEW kind \in Kinds, NEW d \in Data \cup {"none", "D", "O"}, NEW f \in Nat PROVE Obj(kind, d, f) \in Objects
    BY DEF Obj, Objects
<1>2. QED
    BY <1>1 DEF Nothing, DirD, ToOutside, Special, Regular, Kinds

-----------------------------------------------------------------------------
(* The beginning.                                                          *)

\* A restore begins with what is in the target (restore).
LEMMA InitHolds == EntryInit => IInv
<1> SUFFICES ASSUME EntryInit PROVE IInv
    OBVIOUS
<1>1. ScriptType
    BY DEF EntryInit, ScriptType
<1>2. inodes \in Seq(Inodes)
      /\ Len(inodes) = 2 /\ inodes[1] = User /\ inodes[2] = User
    <2>1. inodes = <<User, User>>
        BY DEF EntryInit
    <2>2. User \in Inodes
        BY DEF User, Inode, Inodes
    <2>3. QED
        BY <2>1, <2>2
<1>3. \A d \in Dirs, n \in Names : dirs[d][n] \in {Nothing, DirD, ToOutside, Special, Regular(1), Regular(2)}
    <2>1. PICK before \in Before :
            dirs = [d \in {"T", "D", "O"} |-> [n \in Names |->
                      IF d = "O" /\ n = "b" THEN Regular(2)
                      ELSE IF <<d, n>> \in DOMAIN before THEN before[<<d, n>>] ELSE Nothing]]
        BY DEF EntryInit
    <2>2. ASSUME NEW d \in Dirs, NEW n \in Names
          PROVE  dirs[d][n] \in {Nothing, DirD, ToOutside, Special, Regular(1), Regular(2)}
        <3>1. dirs[d][n] = IF d = "O" /\ n = "b" THEN Regular(2)
                           ELSE IF <<d, n>> \in DOMAIN before THEN before[<<d, n>>] ELSE Nothing
            BY <2>1 DEF Dirs
        <3>2. <<d, n>> \in DOMAIN before =>
                before[<<d, n>>] \in {Nothing, DirD, ToOutside, Special, Regular(1)}
            BY BeforeAssumption
        <3>3. QED
            BY <3>1, <3>2
    <2>3. QED
        BY <2>2
<1>4. \A d \in Dirs, n \in Names : dirs[d][n] \in Objects /\ Sane(dirs[d][n])
    <2>1. ASSUME NEW o \in {Nothing, DirD, ToOutside, Special, Regular(1), Regular(2)}
          PROVE  o \in Objects /\ Sane(o)
        <3>1. o \in Objects
            BY TheObjects
        <3>2. o.kind = "dir" => o.dir = "D"
            BY DEF Nothing, DirD, ToOutside, Special, Regular, Obj
        <3>3. o.kind = "file" => o.file \in 1 .. 2
            BY DEF Nothing, DirD, ToOutside, Special, Regular, Obj
        <3>4. QED
            BY <1>2, <3>1, <3>2, <3>3 DEF Sane
    <2>2. QED
        BY <1>3, <2>1
<1>5. dirs \in [Dirs -> [Names -> Objects]]
    BY <1>4 DEF EntryInit, Dirs
<1>6. DirsType
    BY <1>4, <1>5 DEF DirsType, EntryInit, Dirs
<1>7. TypeOK
    <2>1. NoTemp \in [is : BOOLEAN, dir : {"none", "T", "D"}, link : BOOLEAN]
        BY DEF NoTemp
    <2>2. at = 1 /\ pc = "open" /\ handle = "none" /\ temp = NoTemp /\ restored = {} /\ meddled = 0
        BY DEF EntryInit
    <2>3. ProgressType
        BY <1>1, <2>1, <2>2, ScriptFacts DEF ProgressType, Steps, Temps
    <2>4. QED
        BY <1>1, <1>2, <1>6, <2>3 DEF TypeOK, InodesType
<1>8. FirstNamed /\ FirstKept /\ StepFits /\ Fresh /\ Looked /\ TempKept
    <2>1. first = << >> /\ pc = "open"
        BY DEF EntryInit
    <2>2. QED
        BY <2>1 DEF FirstNamed, FirstKept, StepFits, Fresh, Looked, TempKept
<1>9. ExistingKept
    BY DEF ExistingKept, EntryInit, Object, Theirs
<1>10. SuidOwned
    BY <1>2 DEF SuidOwned, User, Inode
<1>11. QuietInv
    BY DEF QuietInv, HandleIsD, NamesMade, TempMade, AsFirst, LinkPath, EntryInit
<1>12. QED
    BY <1>7, <1>8, <1>9, <1>10, <1>11 DEF IInv, SafetyInv

-----------------------------------------------------------------------------
(* The names of files.                                                     *)

NamesInv == FirstNamed /\ FirstKept /\ ExistingKept /\ NamesMade /\ AsFirst

\* What does not change as long as the entries do not (restore_node).
LEMMA Steady ==
    ASSUME script' = script
    PROVE  /\ Files' = Files
           /\ \A k : SameKey(k)' = SameKey(k)
           /\ \A k : Object(k)' = dirs'[script[k].dir][script[k].name]
           /\ theirs' = theirs => \A k : Theirs(k)' = Theirs(k)
           /\ put' = put => \A k, o : Linked(k, o)' <=> Linked(k, o)
           /\ asRoot' = asRoot /\ failed \subseteq failed' => \A k : Settled(k)' => Settled(k)
<1>1. Files' = Files
    BY DEF Files
<1>2. \A k : SameKey(k)' = SameKey(k)
    BY <1>1 DEF SameKey, OneFile
<1>3. QED
    BY <1>1, <1>2 DEF Object, Theirs, Linked, EverPut, Settled

\* Two entries of one file have the same key and the same content
\* (restore_file_entry).
LEMMA KinFacts ==
    ASSUME TypeOK, NEW k \in Files, NEW l \in SameKey(k)
    PROVE  /\ l \in Files /\ k \in SameKey(l) /\ SameKey(k) = SameKey(l)
           /\ script[l].key = script[k].key /\ script[k].key # 0
           /\ script[l].data = script[k].data /\ script[l].suid = script[k].suid
           /\ script[l].owner = script[k].owner
           /\ \A o : Linked(k, o) <=> Linked(l, o)
           /\ \A o : ContentOf(k, o) <=> ContentOf(l, o)
<1>1. l \in Files /\ script[k].key # 0 /\ script[k].key = script[l].key
    BY DEF SameKey, OneFile
<1>2. SameKey(k) = SameKey(l) /\ k \in SameKey(l)
    BY <1>1 DEF SameKey, OneFile
<1>3. k \in DOMAIN script /\ l \in DOMAIN script
    BY <1>1, FileFacts
<1>4. script[l].data = script[k].data /\ script[l].suid = script[k].suid /\ script[l].owner = script[k].owner
    BY <1>1, <1>3, ScriptFacts DEF TypeOK
<1>5. QED
    BY <1>1, <1>2, <1>4 DEF Linked, ContentOf

\* Two entries at one place are one, or are one file (restore_node).
LEMMA SamePlace ==
    ASSUME TypeOK, NEW k \in Files, NEW l \in DOMAIN script,
           script[k].dir = script[l].dir, script[k].name = script[l].name
    PROVE  l \in Files /\ (k = l \/ l \in SameKey(k)) /\ Object(k) = Object(l)
<1>1. k \in DOMAIN script /\ script[k].kind = "file"
    BY FileFacts
<1>2. k = l \/ (script[k].key # 0 /\ script[k].key = script[l].key)
    BY <1>1, ScriptFacts DEF TypeOK
<1>3. l \in Files
    BY <1>1, <1>2, ScriptFacts DEF TypeOK, Files
<1>4. QED
    BY <1>2, <1>3 DEF SameKey, OneFile, Object

\* The first name of a file is that of an entry that is restored (HardLinks).
LEMMA FirstFacts ==
    ASSUME FirstNamed, NEW key \in DOMAIN first
    PROVE  key # 0 /\ \E l \in restored \cap Files :
               /\ script[l].key = key /\ FirstOf(key) = Object(l)
               /\ first[key].dir = script[l].dir /\ first[key].name = script[l].name
BY DEF FirstNamed, FirstOf, Object

\* A step that leaves the names of files alone, and what is behind them.
LEMMA AsideNames ==
    ASSUME IInv, UNCHANGED <<script, asRoot, hardLinks, first>>, UNCHANGED others,
           restored \subseteq restored', restored' \cap Files = restored \cap Files, failed \subseteq failed',
           \A k \in Files : Object(k)' = Object(k),
           \A k \in Files : Object(k).kind = "file" =>
               /\ inodes'[Object(k).file].data = inodes[Object(k).file].data
               /\ inodes'[Object(k).file].suid = inodes[Object(k).file].suid
    PROVE  NamesInv'
<1>1. /\ Files' = Files
      /\ \A k : SameKey(k)' = SameKey(k)
      /\ \A k : Theirs(k)' = Theirs(k)
      /\ \A k, o : Linked(k, o)' <=> Linked(k, o)
      /\ \A k : Settled(k)' => Settled(k)
    BY Steady DEF others
<1>2. TypeOK /\ FirstNamed /\ FirstKept /\ ExistingKept /\ NamesMade /\ AsFirst
    BY DEF IInv, SafetyInv, QuietInv
<1>3. \A k, l \in Files : ContentOf(l, Object(k)) => ContentOf(l, Object(k))'
    BY <1>1 DEF ContentOf
<1>4. \A key \in DOMAIN first : FirstOf(key)' = FirstOf(key)
    <2>1. ASSUME NEW key \in DOMAIN first PROVE FirstOf(key)' = FirstOf(key)
        <3>1. PICK l \in restored \cap Files :
                 FirstOf(key) = Object(l) /\ first[key].dir = script[l].dir /\ first[key].name = script[l].name
            BY <1>2, FirstFacts
        <3>2. FirstOf(key)' = Object(l)'
            BY <3>1 DEF FirstOf, Object
        <3>3. QED
            BY <3>1, <3>2
    <2>2. QED
        BY <2>1
<1>5. FirstNamed'
    BY <1>1, <1>2 DEF FirstNamed
<1>6. FirstKept'
    <2>1. ASSUME NEW k \in Files, script[k].key \in DOMAIN first
          PROVE  (ContentOf(k, FirstOf(script[k].key)) \/ Linked(k, FirstOf(script[k].key)))'
        <3>1. PICK l \in restored \cap Files : FirstOf(script[k].key) = Object(l)
            BY <1>2, <2>1, FirstFacts
        <3>2. ContentOf(k, Object(l)) \/ Linked(k, Object(l))
            BY <1>2, <2>1, <3>1 DEF FirstKept
        <3>3. FirstOf(script[k].key)' = Object(l) /\ Object(l)' = Object(l)
            BY <1>4, <2>1, <3>1
        <3>4. ContentOf(k, Object(l))' \/ Linked(k, Object(l))'
            BY <1>1, <1>3, <3>2, <3>3
        <3>5. QED
            BY <3>3, <3>4 DEF ContentOf, Linked
    <2>2. QED
        BY <1>1, <2>1 DEF FirstKept
<1>7. ExistingKept'
    <2>1. ASSUME NEW k \in Files,
                 NEW l \in CountedFor(k), ContentOf(l, Object(k)) \/ Linked(l, Object(k))
          PROVE  l \in CountedFor(k)' /\ (ContentOf(l, Object(k))' \/ Linked(l, Object(k))')
        <3>1. l \in restored /\ PlaceOf(script[l]) = PlaceOf(script[k])
            BY DEF CountedFor
        <3>2. l \in Files
            <4>1. l \in DOMAIN script
                BY <1>2, <3>1, ScriptFacts DEF TypeOK, ProgressType
            <4>2. QED
                BY <1>2, <3>1, <4>1, SamePlace DEF PlaceOf
        <3>3. l \in CountedFor(k)'
            BY <3>1 DEF CountedFor
        <3>4. QED
            BY <1>1, <1>3, <2>1, <3>2, <3>3
    <2>2. ASSUME NEW k \in Files PROVE
              \/ Object(k)' = Theirs(k)'
              \/ /\ \E l \in CountedFor(k)' : ContentOf(l, Object(k))' \/ Linked(l, Object(k))'
                 /\ Theirs(k)'.kind \in {"dir", "symlink", "special"} => PlaceOf(script[k]) \in raced
        BY <1>1, <1>2, <2>1 DEF ExistingKept
    <2>3. QED
        BY <1>1, <2>2 DEF ExistingKept, others
<1>8. NamesMade'
    <2>1. ASSUME NEW k \in restored \cap Files, MadeFor(k, Object(k)) PROVE MadeFor(k, Object(k))'
        <3>1. PICK l \in restored \cap ({k} \cup SameKey(k)) : MadeBy(l, Object(k))
            BY <2>1 DEF MadeFor
        <3>2. MadeBy(l, Object(k))'
            BY <1>1, <3>1 DEF MadeBy
        <3>3. QED
            BY <1>1, <3>1, <3>2 DEF MadeFor
    <2>2. QED
        BY <1>1, <1>2, <2>1 DEF NamesMade, others
<1>9. AsFirst'
    BY <1>1, <1>2, <1>4 DEF AsFirst, others
<1>10. QED
    BY <1>5, <1>6, <1>7, <1>8, <1>9 DEF NamesInv

Near(k) == script[k].dir = E.dir /\ script[k].name = E.name
FirstWithEntry ==
    [key \in DOMAIN first \cup {E.key} |->
        IF key = E.key THEN [dir |-> E.dir, name |-> E.name] ELSE first[key]]

\* A step that puts a file or a link behind the name of the entry, and counts
\* the entry (restore_file_entry).
LEMMA GainNames ==
    ASSUME IInv, NEW a \in Files, a = at, NEW mine, mine = E.key, NEW o,
           UNCHANGED <<script, asRoot, hardLinks, inodes>>, UNCHANGED others,
           restored' = restored \cup {a}, failed' = failed,
           \A k \in Files : Object(k)' = IF Near(k) THEN o ELSE Object(k),
           ContentOf(a, o) \/ Linked(a, o),
           o = Theirs(a) \/ (Theirs(a).kind \in {"dir", "symlink", "special"} => PlaceOf(E) \in raced),
           meddled = 0 => MadeBy(a, o) \/ MadeFor(a, o),
           \/ /\ first' = first
              /\ meddled = 0 /\ hardLinks /\ mine # 0 => mine \in DOMAIN first /\ o = FirstOf(mine)
           \/ /\ first' = FirstWithEntry /\ mine # 0
              /\ meddled = 0 /\ hardLinks => mine \notin DOMAIN first
    PROVE  NamesInv'
<1>1. /\ Files' = Files
      /\ \A k : SameKey(k)' = SameKey(k)
      /\ \A k : Theirs(k)' = Theirs(k)
      /\ \A k, q : Linked(k, q)' <=> Linked(k, q)
      /\ \A k : Settled(k)' => Settled(k)
    BY Steady DEF others
<1>2. TypeOK /\ FirstNamed /\ FirstKept /\ ExistingKept /\ NamesMade /\ AsFirst
    BY DEF IInv, SafetyInv, QuietInv
<1>3. /\ \A k, q : ContentOf(k, q)' <=> ContentOf(k, q)
      /\ \A k, q : MadeBy(k, q) => MadeBy(k, q)'
    BY <1>1 DEF ContentOf, MadeBy
<1>4. E = script[a] /\ a \in DOMAIN script /\ script[a].key = mine
    BY <1>2, FileFacts DEF E
<1>5. \A k \in Files : Near(k) => k = a \/ (k \in SameKey(a) /\ script[k].key = mine /\ mine # 0)
    BY <1>2, <1>4, SamePlace, KinFacts DEF Near
<1>6. Object(a)' = o /\ Near(a)
    BY <1>4 DEF Near
<1>7. \A key \in DOMAIN first : \E l \in restored \cap Files :
         /\ key # 0 /\ script[l].key = key /\ FirstOf(key) = Object(l)
         /\ first[key].dir = script[l].dir /\ first[key].name = script[l].name
    BY <1>2, FirstFacts
\* The other first names.
<1>8. ASSUME NEW key \in DOMAIN first, key # mine \/ first' = first
      PROVE  /\ key \in DOMAIN first' /\ first'[key] = first[key]
             /\ \E l \in restored \cap Files :
                  /\ key # 0 /\ script[l].key = key /\ FirstOf(key) = Object(l)
                  /\ FirstOf(key)' = IF Near(l) THEN o ELSE Object(l)
                  /\ Near(l) => key = mine
    <2>1. key \in DOMAIN first' /\ first'[key] = first[key]
        BY <1>8 DEF FirstWithEntry
    <2>2. PICK l \in restored \cap Files :
            /\ key # 0 /\ script[l].key = key /\ FirstOf(key) = Object(l)
            /\ first[key].dir = script[l].dir /\ first[key].name = script[l].name
        BY <1>7
    <2>3. FirstOf(key)' = Object(l)'
        BY <2>1, <2>2 DEF FirstOf, Object
    <2>4. Near(l) => key = mine
        BY <1>4, <1>5, <2>2
    <2>5. QED
        BY <2>1, <2>2, <2>3, <2>4
\* That of the entry.
<1>9. ASSUME first' = FirstWithEntry, mine # 0
      PROVE  /\ DOMAIN first' = DOMAIN first \cup {mine}
             /\ first'[mine] = [dir |-> script[a].dir, name |-> script[a].name]
             /\ FirstOf(mine)' = o
    <2>1. /\ DOMAIN first' = DOMAIN first \cup {mine}
          /\ first'[mine] = [dir |-> script[a].dir, name |-> script[a].name]
        BY <1>4, <1>9 DEF FirstWithEntry
    <2>2. FirstOf(mine)' = Object(a)'
        BY <2>1 DEF FirstOf, Object
    <2>3. QED
        BY <1>6, <2>1, <2>2
<1>10. FirstNamed'
    <2>1. ASSUME NEW key \in DOMAIN first'
          PROVE  key # 0 /\ \E l \in restored' \cap Files :
                    script[l].key = key /\ first'[key] = [dir |-> script[l].dir, name |-> script[l].name]
        <3>1. CASE first' = FirstWithEntry /\ mine # 0 /\ key = mine
            BY <1>4, <1>9, <3>1
        <3>2. CASE ~(first' = FirstWithEntry /\ mine # 0 /\ key = mine)
            <4>1. key \in DOMAIN first /\ first'[key] = first[key]
                BY <1>8, <1>9, <2>1, <3>2
            <4>2. QED
                BY <1>2, <4>1 DEF FirstNamed
        <3>3. QED
            BY <3>1, <3>2
    <2>2. QED
        BY <1>1, <2>1 DEF FirstNamed
<1>11. ASSUME NEW k \in Files, Near(k) PROVE ContentOf(k, o) \/ Linked(k, o)
    BY <1>2, <1>5, <1>11, KinFacts
<1>12. FirstKept'
    <2>1. ASSUME NEW k \in Files, NEW key \in DOMAIN first', key = script[k].key
          PROVE  ContentOf(k, FirstOf(key))' \/ Linked(k, FirstOf(key))'
        <3>1. CASE first' = FirstWithEntry /\ mine # 0 /\ key = mine
            <4>1. k = a \/ k \in SameKey(a)
                BY <1>4, <2>1, <3>1 DEF SameKey, OneFile
            <4>2. FirstOf(key)' = o
                BY <1>9, <3>1
            <4>3. ContentOf(k, o) \/ Linked(k, o)
                BY <1>2, <4>1, KinFacts
            <4>4. QED
                BY <1>1, <4>2, <4>3 DEF ContentOf, Linked, EverPut, others
        <3>2. CASE ~(first' = FirstWithEntry /\ mine # 0 /\ key = mine)
            <4>1. key \in DOMAIN first /\ (key # mine \/ first' = first)
                BY <1>9, <2>1, <3>2
            <4>2. PICK l \in restored \cap Files :
                    /\ key # 0 /\ script[l].key = key /\ FirstOf(key) = Object(l)
                    /\ FirstOf(key)' = IF Near(l) THEN o ELSE Object(l)
                BY <1>8, <4>1
            <4>3. ContentOf(k, FirstOf(key)) \/ Linked(k, FirstOf(key))
                BY <1>2, <2>1, <4>1 DEF FirstKept
            <4>4. l \in SameKey(k)
                BY <2>1, <4>2 DEF SameKey, OneFile
            <4>5. Near(l) => ContentOf(k, o) \/ Linked(k, o)
                BY <1>2, <1>11, <4>2, <4>4, KinFacts
            <4>6. \A q : q = FirstOf(key)' => ContentOf(k, q) \/ Linked(k, q)
                BY <4>2, <4>3, <4>5
            <4>7. QED
                BY <1>1, <4>6 DEF ContentOf, Linked, EverPut, others
        <3>3. QED
            BY <3>1, <3>2
    <2>2. QED
        BY <1>1, <2>1 DEF FirstKept
<1>13. ExistingKept'
    <2>1. ASSUME NEW k \in Files PROVE
              \/ Object(k)' = Theirs(k)
              \/ /\ \E l \in CountedFor(k)' : ContentOf(l, Object(k))' \/ Linked(l, Object(k))'
                 /\ Theirs(k).kind \in {"dir", "symlink", "special"} => PlaceOf(script[k]) \in raced
        <3>1. CASE Near(k)
            <4>1. a \in CountedFor(k)'
                BY <1>4, <3>1 DEF CountedFor, PlaceOf, Near
            <4>2. Theirs(k) = Theirs(a) /\ PlaceOf(script[k]) = PlaceOf(E)
                BY <1>4, <3>1 DEF Theirs, PlaceOf, Near
            <4>3. Object(k)' = o
                BY <3>1
            <4>4. (ContentOf(a, Object(k)) \/ Linked(a, Object(k)))'
                BY <1>1, <4>3 DEF ContentOf, Linked, EverPut, others
            <4>5. QED
                BY <4>1, <4>2, <4>3, <4>4
        <3>2. CASE ~Near(k)
            <4>1. CountedFor(k) \subseteq CountedFor(k)'
                BY DEF CountedFor
            <4>2. Object(k)' = Object(k)
                BY <3>2
            <4>3. \A l : ContentOf(l, Object(k)) \/ Linked(l, Object(k))
                          => (ContentOf(l, Object(k)) \/ Linked(l, Object(k)))'
                BY <1>1, <4>2 DEF ContentOf, Linked, EverPut, others
            <4>4. QED
                BY <1>2, <4>1, <4>2, <4>3 DEF ExistingKept
        <3>3. QED
            BY <3>1, <3>2
    <2>2. QED
        BY <1>1, <2>1 DEF ExistingKept, others
<1>14. NamesMade'
    <2>1. ASSUME NEW k, NEW q, MadeFor(k, q) PROVE MadeFor(k, q)'
        BY <1>1, <1>3, <2>1 DEF MadeFor
    <2>2. ASSUME meddled = 0 PROVE MadeFor(a, o)'
        <3>1. MadeBy(a, o) => a \in restored' \cap ({a} \cup SameKey(a)) /\ MadeBy(a, o)'
            BY <1>3
        <3>2. QED
            BY <1>1, <2>1, <2>2, <3>1 DEF MadeFor
    <2>3. ASSUME meddled = 0, NEW k \in Files, Near(k) PROVE MadeFor(k, o)'
        <3>1. {a} \cup SameKey(a) \subseteq {k} \cup SameKey(k)
            BY <1>2, <1>5, <2>3, KinFacts
        <3>2. QED
            BY <1>1, <2>2, <2>3, <3>1 DEF MadeFor
    <2>4. ASSUME meddled = 0, NEW k \in restored' \cap Files PROVE MadeFor(k, Object(k))'
        <3>1. CASE Near(k)
            <4>1. MadeFor(k, o)' /\ Object(k)' = o
                BY <2>3, <2>4, <3>1
            <4>2. QED
                BY <4>1 DEF MadeFor, MadeBy
        <3>2. CASE ~Near(k)
            <4>1. k \in restored /\ Object(k)' = Object(k)
                BY <1>6, <3>2
            <4>2. MadeFor(k, Object(k))
                BY <1>2, <2>4, <4>1 DEF NamesMade
            <4>3. \A q : q = Object(k) => MadeFor(k, q)'
                BY <2>1, <4>2
            <4>4. QED
                BY <4>1, <4>3 DEF MadeFor, MadeBy
        <3>3. QED
            BY <3>1, <3>2
    <2>5. QED
        BY <1>1, <2>4 DEF NamesMade, others
<1>15. AsFirst'
    <2>1. ASSUME meddled = 0, hardLinks, NEW k \in restored' \cap Files, NEW key, key = script[k].key, key # 0
          PROVE  key \in DOMAIN first' /\ Object(k)' = FirstOf(key)'
        <3>1. CASE Near(k)
            <4>1. key = mine
                BY <1>4, <1>5, <2>1, <3>1
            <4>2. CASE first' = FirstWithEntry
                BY <1>9, <2>1, <3>1, <4>1, <4>2
            <4>3. CASE first' = first /\ mine \in DOMAIN first /\ o = FirstOf(mine)
                BY <1>8, <2>1, <3>1, <4>1, <4>3
            <4>4. QED
                BY <2>1, <4>1, <4>2, <4>3
        <3>2. CASE ~Near(k)
            <4>1. k \in restored /\ Object(k)' = Object(k)
                BY <1>6, <3>2
            <4>2. key \in DOMAIN first /\ Object(k) = FirstOf(key)
                BY <1>2, <2>1, <4>1 DEF AsFirst
            <4>3. key # mine \/ first' = first
                BY <2>1, <4>2
            <4>4. PICK l \in restored \cap Files :
                    /\ FirstOf(key) = Object(l) /\ FirstOf(key)' = IF Near(l) THEN o ELSE Object(l)
                    /\ Near(l) => key = mine
                BY <1>8, <4>2, <4>3
            <4>5. CASE Near(l)
                <5>1. mine # 0 /\ first' = first /\ o = FirstOf(mine)
                    BY <2>1, <4>2, <4>3, <4>4, <4>5
                <5>2. QED
                    BY <4>1, <4>2, <4>4, <4>5, <5>1
            <4>6. QED
                BY <1>8, <4>1, <4>2, <4>3, <4>4, <4>5
        <3>3. QED
            BY <3>1, <3>2
    <2>2. QED
        BY <1>1, <2>1 DEF AsFirst, others
<1>16. QED
    BY <1>10, <1>12, <1>13, <1>14, <1>15 DEF NamesInv

-----------------------------------------------------------------------------
(* What a step needs.                                                      *)

StepInv == StepFits /\ TempKept /\ Fresh /\ Looked /\ TempMade /\ LinkPath

\* Between two entries nothing is under way (restore_node).
LEMMA Aside == ASSUME pc' \in {"open", "start", "killed"} PROVE StepInv'
BY DEF StepInv, StepFits, TempKept, Fresh, Looked, TempMade, LinkPath

\* The parts of the invariant (restore).
LEMMA InvParts ==
    /\ IInv => TypeOK /\ StepInv /\ NamesInv /\ SuidOwned /\ HandleIsD
    /\ TypeOK' /\ StepInv' /\ NamesInv' /\ SuidOwned' /\ HandleIsD' => IInv'
BY DEF IInv, SafetyInv, QuietInv, StepInv, NamesInv

\* The handle of a directory stays open (DirHandle).
LEMMA SameEntry ==
    ASSUME UNCHANGED <<script, at, handle>>
    PROVE  E' = E /\ EntryDir' = EntryDir /\ (dirs' = dirs => Dest' = Dest)
<1>1. E' = E
    BY DEF E
<1>2. EntryDir' = EntryDir
    BY <1>1 DEF EntryDir
<1>3. QED
    BY <1>1, <1>2 DEF Dest

\* The types of the directories after a step of the restore (DirHandle).
LEMMA DirsKept ==
    ASSUME TypeOK, UNCHANGED <<theirs, put>>, dirs' \in [Dirs -> [Names -> Objects]],
           dirs'["O"] = dirs["O"],
           \A d \in Dirs, n \in Names : Sane(dirs[d][n])'
    PROVE  DirsType'
BY DEF TypeOK, DirsType

\* One name changes.
LEMMA PutKeeps ==
    ASSUME TypeOK, UNCHANGED <<theirs, put>>, NEW d \in {"T", "D"}, NEW n \in Names, NEW o,
           Sane(o), Put(d, n, o), inodes' = inodes
    PROVE  /\ DirsType' /\ dirs' \in [Dirs -> [Names -> Objects]] /\ dirs'[d][n] = o
           /\ \A e \in Dirs, m \in Names : e # d \/ m # n => dirs'[e][m] = dirs[e][m]
<1>1. d \in Dirs /\ d # "O" /\ "O" \in Dirs
    BY DEF Dirs
<1>2. o \in Objects /\ dirs \in [Dirs -> [Names -> Objects]]
    BY DEF Sane, TypeOK, DirsType
<1>3. dirs' = [dirs EXCEPT ![d][n] = o]
    BY DEF Put
<1>4. /\ dirs' \in [Dirs -> [Names -> Objects]] /\ dirs'[d][n] = o
      /\ \A e \in Dirs, m \in Names : e # d \/ m # n => dirs'[e][m] = dirs[e][m]
      /\ \A e \in Dirs : e # d => dirs'[e] = dirs[e]
    BY <1>1, <1>2, <1>3, PutEffect
<1>5. ASSUME NEW e \in Dirs, NEW m \in Names PROVE Sane(dirs[e][m])'
    <2>1. Sane(dirs[e][m])
        BY DEF TypeOK, DirsType
    <2>2. dirs'[e][m] = o \/ dirs'[e][m] = dirs[e][m]
        BY <1>4
    <2>3. QED
        BY <2>1, <2>2 DEF Sane
<1>6. DirsType'
    BY <1>1, <1>4, <1>5, DirsKept
<1>7. QED
    BY <1>4, <1>6

\* The next step of the same entry.
LEMMA ContinueKeeps ==
    ASSUME TypeOK, UNCHANGED <<script, at, handle, restored, meddled>>, temp' \in Temps,
           pc \notin {"open", "killed"}, pc' \in Steps
    PROVE  ProgressType'
<1>1. E' = E
    BY SameEntry
<1>2. at <= Len(script) /\ (E.dir = "D" => handle = "D")
    BY DEF TypeOK, ProgressType
<1>3. QED
    BY <1>1, <1>2 DEF TypeOK, ProgressType

\* The next entry.
LEMMA NextKeeps ==
    ASSUME TypeOK, UNCHANGED <<script, handle, meddled>>, temp' \in Temps,
           pc \notin {"open", "killed"}, pc' = "open", at' = at + 1,
           restored' \subseteq restored \cup {at}
    PROVE  ProgressType'
<1>1. at \in 1 .. Len(script) /\ Len(script) \in Nat
    BY EntryFacts, ScriptFacts DEF TypeOK
<1>2. script[at].dir = "D" => handle = "D"
    BY DEF TypeOK, ProgressType, E
<1>3. /\ handle \in {"none", "D"} /\ meddled \in Nat
      /\ \A k \in restored : k \in 1 .. (at - 1) /\ (script[k].dir = "D" => handle = "D")
    BY DEF TypeOK, ProgressType
<1>4. at' \in 1 .. Len(script) + 1
    BY <1>1
<1>5. restored' \subseteq 1 .. (at' - 1)
    BY <1>1, <1>3
<1>6. \A k \in restored' : script[k].dir = "D" => handle = "D"
    BY <1>2, <1>3
<1>7. QED
    BY <1>3, <1>4, <1>5, <1>6 DEF ProgressType, Steps

\* What a link to the first name of the file goes to (open_rel, link_to_first).
LEMMA FirstObjFacts ==
    ASSUME IInv, pc \notin {"open", "killed"}, E.kind = "file", E.key \in DOMAIN first
    PROVE  /\ at \in Files /\ E.key # 0
           /\ FirstObj = Nothing \/ (FirstObj = FirstOf(E.key) /\ FirstObj.kind \notin {"none", "dir"})
           /\ FirstObj # Nothing =>
                /\ Sane(FirstObj) /\ (ContentOf(at, FirstObj) \/ Linked(at, FirstObj))
                /\ meddled = 0 => MadeFor(at, FirstObj)
           /\ meddled = 0 => FirstObj = FirstOf(E.key) /\ FirstObj.kind \notin {"none", "dir"}
<1>1. TypeOK /\ FirstNamed /\ FirstKept /\ NamesMade /\ HandleIsD
    BY DEF IInv, SafetyInv, QuietInv
<1>2. at \in Files /\ E = script[at]
    BY <1>1, EntryFacts DEF Files, E
<1>3. PICK l \in restored \cap Files :
         /\ script[l].key = E.key /\ FirstOf(E.key) = Object(l)
         /\ first[E.key].dir = script[l].dir /\ first[E.key].name = script[l].name
    BY <1>1, FirstFacts
<1>4. E.key # 0
    BY <1>1, FirstFacts
<1>5. l \in SameKey(at)
    BY <1>2, <1>3, <1>4 DEF SameKey, OneFile
<1>6. ContentOf(at, Object(l)) \/ Linked(at, Object(l))
    BY <1>1, <1>2, <1>3 DEF FirstKept
<1>7. Object(l).kind \notin {"none", "dir"}
    <2>1. ASSUME NEW m \in SameKey(at), Object(l) \in EverPut(m)
          PROVE  Object(l) \in {ToOutside, Special, Regular(1)}
        <3>1. script[m].dir \in Dirs /\ script[m].name \in Names
            BY <1>1, <2>1, FileFacts DEF SameKey
        <3>2. QED
            BY <1>1, <2>1, <3>1 DEF EverPut, TypeOK, DirsType
    <2>2. Linked(at, Object(l)) => Object(l) \in {ToOutside, Special, Regular(1)}
        BY <2>1 DEF Linked
    <2>3. QED
        BY <1>6, <2>2 DEF ContentOf, ToOutside, Special, Regular, Obj
<1>8. Sane(Object(l)) /\ script[l].dir \in {"T", "D"}
    BY <1>1, <1>3, FileFacts
<1>9. meddled = 0 => MadeFor(at, Object(l))
    <2>1. ASSUME meddled = 0 PROVE MadeFor(l, Object(l))
        BY <1>1, <1>3, <2>1 DEF NamesMade
    <2>2. {l} \cup SameKey(l) \subseteq {at} \cup SameKey(at)
        BY <1>1, <1>2, <1>5, KinFacts
    <2>3. QED
        BY <2>1, <2>2 DEF MadeFor
<1>10. FirstDir \in {"none", script[l].dir}
    <2>1. Sane(dirs["T"]["d"])
        BY <1>1 DEF TypeOK, DirsType, Dirs, Names
    <2>2. OpenChild(dirs["T"]["d"]) \in {"none", "D"}
        BY <2>1 DEF OpenChild, Sane
    <2>3. QED
        BY <1>3, <1>8, <2>2 DEF FirstDir
<1>11. script[l].dir # "none"
    BY <1>8
<1>12. FirstObj = IF FirstDir = "none" THEN Nothing ELSE Object(l)
    BY <1>3, <1>10 DEF FirstObj, Object
<1>13. meddled = 0 => FirstDir = script[l].dir
    <2>1. script[l].dir = "D" => handle = "D"
        BY <1>1, <1>3 DEF TypeOK, ProgressType
    <2>2. QED
        BY <1>1, <1>3, <1>8, <2>1 DEF HandleIsD, FirstDir
<1>14. QED
    BY <1>2, <1>3, <1>4, <1>6, <1>7, <1>8, <1>9, <1>11, <1>12, <1>13

-----------------------------------------------------------------------------
(* The steps that lead to a copy or a link.                                *)

\* A step that changes neither a name of a file nor a file.
LEMMA ApartNames ==
    ASSUME IInv, UNCHANGED <<script, asRoot, hardLinks, first, inodes, restored>>, UNCHANGED others,
           failed \subseteq failed',
           \A d \in {"T", "D"}, n \in FileNames : dirs'[d][n] = dirs[d][n]
    PROVE  NamesInv'
<1>1. TypeOK
    BY InvParts
<1>2. \A k \in Files : Object(k)' = Object(k)
    BY <1>1, FileFacts DEF Object
<1>3. QED
    BY <1>2, AsideNames

\* The directory of the entry is opened, or cannot be (PendingDir::open).
LEMMA OpenKeeps ==
    ASSUME IInv, Open
    PROVE  IInv'
<1>1. TypeOK /\ SuidOwned /\ HandleIsD
    BY InvParts
<1>2. /\ pc = "open" /\ at <= Len(script) /\ at \in 1 .. Len(script) /\ Len(script) \in Nat
      /\ UNCHANGED <<script, asRoot, hardLinks, inodes, temp, first>> /\ UNCHANGED others
      /\ UNCHANGED <<theirs, put, raced, meddled>>
    BY <1>1, ScriptFacts DEF Open, rigidEntry, others, TypeOK, ProgressType
<1>3. ASSUME E.dir # "D" \/ handle # "none", Continue("start"), UNCHANGED <<dirs, handle>>
      PROVE  IInv'
    <2>1. at' = at /\ restored' = restored /\ failed' = failed /\ pc' = "start"
        BY <1>3 DEF Continue
    <2>2. E' = E
        BY <1>2, <1>3, <2>1, SameEntry
    <2>3. ProgressType'
        BY <1>1, <1>2, <1>3, <2>1, <2>2 DEF TypeOK, ProgressType, Steps
    <2>4. TypeOK'
        BY <1>1, <1>2, <1>3, <2>3 DEF TypeOK, ScriptType, DirsType, InodesType, Sane
    <2>5. NamesInv'
        BY <1>2, <1>3, <2>1, ApartNames
    <2>6. StepInv'
        BY <2>1, Aside
    <2>7. SuidOwned' /\ HandleIsD'
        BY <1>1, <1>2, <1>3 DEF SuidOwned, HandleIsD
    <2>8. QED
        BY <2>4, <2>5, <2>6, <2>7, InvParts
<1>4. ASSUME NEW found, found = (IF dirs["T"]["d"] = Nothing THEN DirD ELSE dirs["T"]["d"]),
             E.dir = "D", handle = "none", handle' = OpenChild(found), Put("T", "d", found),
             IF OpenChild(found) = "none" THEN NextEntryIs(FALSE, TRUE) ELSE Continue("start")
      PROVE  IInv'
    <2>1. Sane(found)
        <3>1. Sane(dirs["T"]["d"])
            BY <1>1 DEF TypeOK, DirsType, Dirs, Names
        <3>2. Sane(DirD)
            BY TheObjects DEF Sane, DirD, Obj
        <3>3. QED
            BY <1>4, <3>1, <3>2
    <2>2. OpenChild(found) \in {"none", "D"}
        BY <2>1 DEF OpenChild, Sane
    <2>3. /\ DirsType' /\ dirs'["T"]["d"] = found
          /\ \A e \in Dirs, m \in Names : e # "T" \/ m # "d" => dirs'[e][m] = dirs[e][m]
        BY <1>1, <1>2, <1>4, <2>1, PutKeeps DEF Names
    <2>4. \A d \in {"T", "D"}, n \in FileNames : dirs'[d][n] = dirs[d][n]
        BY <2>3 DEF Dirs, Names, FileNames
    <2>5. restored' = restored /\ failed \subseteq failed' /\ pc' \in {"open", "start"}
        BY <1>4 DEF NextEntryIs, Continue
    <2>6. NamesInv'
        BY <1>2, <2>4, <2>5, ApartNames
    <2>7. ProgressType'
        <3>1. \A k \in restored : script[k].dir # "D"
            BY <1>1, <1>4 DEF TypeOK, ProgressType
        <3>2. CASE OpenChild(found) = "none"
            <4>1. at' = at + 1 /\ pc' = "open"
                BY <1>4, <3>2 DEF NextEntryIs
            <4>2. at' \in 1 .. Len(script) + 1 /\ restored \subseteq 1 .. (at' - 1)
                BY <1>1, <1>2, <4>1 DEF TypeOK, ProgressType
            <4>3. QED
                BY <1>1, <1>2, <1>4, <2>2, <2>5, <3>1, <4>1, <4>2 DEF TypeOK, ProgressType, Steps
        <3>3. CASE OpenChild(found) = "D"
            <4>1. at' = at /\ pc' = "start"
                BY <1>4, <3>3 DEF Continue
            <4>2. E' = E
                BY <1>2, <4>1 DEF E
            <4>3. QED
                BY <1>1, <1>2, <1>4, <2>5, <3>1, <3>3, <4>1, <4>2 DEF TypeOK, ProgressType, Steps
        <3>4. QED
            BY <2>2, <3>2, <3>3
    <2>8. TypeOK'
        BY <1>1, <1>2, <2>3, <2>7 DEF TypeOK, ScriptType, InodesType
    <2>9. StepInv'
        BY <2>5, Aside
    <2>10. SuidOwned' /\ HandleIsD'
        BY <1>1, <1>2, <1>4, <2>3 DEF SuidOwned, HandleIsD, OpenChild
    <2>11. QED
        BY <2>6, <2>8, <2>9, <2>10, InvParts
<1>5. QED
    BY <1>3, <1>4 DEF Open

\* A step of the entry that changes no name and no file (restore_file_entry).
LEMMA StillKeeps ==
    ASSUME IInv, pc \notin {"open", "killed"}, UNCHANGED rigidEntry, UNCHANGED others,
           UNCHANGED <<dirs, inodes, handle, first>>, temp' = temp,
           failed \subseteq failed', restored' = restored, pc' \in Steps,
           at' = at \/ (at' = at + 1 /\ pc' = "open"),
           StepInv'
    PROVE  IInv'
<1>1. TypeOK /\ SuidOwned /\ HandleIsD
    BY InvParts
<1>2. temp \in Temps
    BY <1>1 DEF TypeOK, ProgressType
<1>3. ProgressType'
    BY <1>1, <1>2, ContinueKeeps, NextKeeps DEF rigidEntry, others
<1>4. TypeOK'
    BY <1>1, <1>3 DEF TypeOK, ScriptType, DirsType, InodesType, Sane, rigidEntry, others
<1>5. NamesInv'
    BY ApartNames DEF rigidEntry
<1>6. SuidOwned' /\ HandleIsD'
    BY <1>1 DEF SuidOwned, HandleIsD, rigidEntry, others
<1>7. QED
    BY <1>4, <1>5, <1>6, InvParts

\* What the entry is decides what is done with it (restore_node).
LEMMA DispatchKeeps ==
    ASSUME IInv, Dispatch
    PROVE  IInv'
<1>1. /\ pc = "start" /\ UNCHANGED rigidEntry /\ UNCHANGED others
      /\ UNCHANGED <<dirs, inodes, handle, temp, first, at, restored, failed>>
      /\ pc' = IF E.kind = "symlink" THEN "clear" ELSE IF E.key \in DOMAIN first THEN "link" ELSE "look"
    BY DEF Dispatch, Continue
<1>2. TypeOK /\ FirstNamed /\ E.kind \in {"file", "symlink"}
    BY <1>1, InvParts, EntryFacts DEF ScriptEntries, NamesInv
<1>3. E' = E /\ EntryDir' = EntryDir /\ Dest' = Dest
    BY <1>1, SameEntry DEF rigidEntry
<1>4. StepInv'
    BY <1>1, <1>2, <1>3
       DEF StepInv, StepFits, TempKept, Fresh, Looked, TempMade, LinkPath, FirstNamed
<1>5. QED
    BY <1>1, <1>4, StillKeeps DEF Steps

\* A link to the first name, when there is nothing yet (link_to_first).
LEMMA LinkFirstKeeps ==
    ASSUME IInv, LinkFirst
    PROVE  IInv'
<1>1. /\ pc = "link" /\ UNCHANGED rigidEntry /\ UNCHANGED others
      /\ UNCHANGED <<inodes, handle, temp, first>>
    BY DEF LinkFirst
<1>2. /\ TypeOK /\ SuidOwned /\ HandleIsD /\ StepFits /\ ExistingKept
      /\ E.kind = "file" /\ E.key \in DOMAIN first
    BY <1>1, InvParts DEF StepInv, NamesInv, StepFits
<1>3. /\ at \in Files /\ at \in DOMAIN script /\ E = script[at] /\ EntryDir = E.dir
      /\ E.dir \in {"T", "D"} /\ E.name \in FileNames /\ E.name \in Names /\ Dest = Object(at)
    BY <1>1, <1>2, EntryFacts DEF Files, E
<1>4. CASE Linkable /\ Dest = Nothing
    <2>1. Put(EntryDir, E.name, FirstObj) /\ NextEntryIs(TRUE, FALSE)
        BY <1>4 DEF LinkFirst
    <2>2. FirstObj # Nothing /\ hardLinks
        BY <1>4 DEF Linkable, Nothing, Obj
    <2>3. /\ Sane(FirstObj) /\ (ContentOf(at, FirstObj) \/ Linked(at, FirstObj))
          /\ meddled = 0 => MadeFor(at, FirstObj)
          /\ FirstObj = FirstOf(E.key)
        BY <1>1, <1>2, <2>2, FirstObjFacts
    <2>4. /\ DirsType' /\ dirs'[E.dir][E.name] = FirstObj
          /\ \A e \in Dirs, m \in Names : e # E.dir \/ m # E.name => dirs'[e][m] = dirs[e][m]
        BY <1>1, <1>2, <1>3, <2>1, <2>3, PutKeeps DEF others
    <2>5. at' = at + 1 /\ pc' = "open" /\ restored' = restored \cup {at} /\ failed' = failed
        BY <2>1 DEF NextEntryIs
    <2>6. ProgressType'
        BY <1>1, <1>2, <2>5, NextKeeps DEF rigidEntry, others, TypeOK, ProgressType
    <2>7. TypeOK'
        BY <1>1, <1>2, <2>4, <2>6 DEF TypeOK, ScriptType, InodesType, rigidEntry
    <2>8. \A k \in Files : Object(k)' = IF Near(k) THEN FirstObj ELSE Object(k)
        BY <1>1, <1>2, <2>4, FileFacts DEF Object, Near, rigidEntry
    <2>9. Theirs(at).kind \in {"dir", "symlink", "special"} => PlaceOf(E) \in raced
        <3>1. Object(at) = Theirs(at) => Theirs(at) = Nothing /\ Nothing.kind = "none"
            BY <1>3, <1>4 DEF Nothing, Obj
        <3>2. QED
            BY <1>2, <1>3, <3>1 DEF ExistingKept
    <2>10. NamesInv'
        <3> DEFINE o == FirstObj
                   mine == E.key
                   a == at
        <3>1. /\ a \in Files /\ a = at /\ mine = E.key
              /\ UNCHANGED <<script, asRoot, hardLinks, inodes>> /\ UNCHANGED others
              /\ restored' = restored \cup {a} /\ failed' = failed
              /\ \A k \in Files : Object(k)' = IF Near(k) THEN o ELSE Object(k)
              /\ (ContentOf(a, o) \/ Linked(a, o))
              /\ Theirs(a).kind \in {"dir", "symlink", "special"} => PlaceOf(E) \in raced
              /\ meddled = 0 => MadeBy(a, o) \/ MadeFor(a, o)
              /\ first' = first /\ mine \in DOMAIN first /\ o = FirstOf(mine)
            BY <1>1, <1>2, <1>3, <2>3, <2>5, <2>8, <2>9 DEF rigidEntry
        <3> HIDE DEF o, mine, a
        <3>2. QED
            BY <3>1, GainNames
    <2>11. StepInv'
        BY <2>5, Aside
    <2>12. SuidOwned' /\ HandleIsD'
        <3>1. dirs'["T"]["d"] = dirs["T"]["d"]
            BY <1>3, <2>4 DEF Dirs, Names, FileNames
        <3>2. QED
            BY <1>1, <1>2, <3>1 DEF SuidOwned, HandleIsD, rigidEntry, others, OpenChild
    <2>13. QED
        BY <2>7, <2>10, <2>11, <2>12, InvParts
<1>5. CASE ~(Linkable /\ Dest = Nothing)
    <2>1. Continue(AfterLink) /\ UNCHANGED dirs
        BY <1>5 DEF LinkFirst
    <2>2. at' = at /\ restored' = restored /\ failed' = failed /\ pc' = (IF Linkable THEN "linkOver" ELSE "look")
        BY <2>1 DEF Continue, AfterLink
    <2>3. E' = E /\ EntryDir' = EntryDir /\ Dest' = Dest
        BY <1>1, <2>1, <2>2, SameEntry DEF rigidEntry
    <2>4. meddled = 0 /\ hardLinks => Linkable
        BY <1>1, <1>2, FirstObjFacts DEF Linkable
    <2>5. StepInv'
        BY <1>1, <1>2, <1>5, <2>1, <2>2, <2>3, <2>4
           DEF StepInv, StepFits, TempKept, Fresh, Looked, TempMade, LinkPath, rigidEntry, others
    <2>6. QED
        BY <1>1, <2>1, <2>2, <2>5, StillKeeps DEF Steps
<1>6. QED
    BY <1>4, <1>5

\* A link under a temporary name, when the name is taken (link_over).
LEMMA LinkOverKeeps ==
    ASSUME IInv, LinkOver
    PROVE  IInv'
<1>1. /\ pc = "linkOver" /\ UNCHANGED rigidEntry /\ UNCHANGED others
      /\ UNCHANGED <<inodes, handle, first>> /\ UNCHANGED <<script, theirs, put, meddled>>
    BY DEF LinkOver, rigidEntry, others
<1>2. /\ TypeOK /\ SuidOwned /\ HandleIsD /\ StepFits /\ ExistingKept
      /\ E.kind = "file" /\ E.key \in DOMAIN first /\ E.key # 0 /\ Dest # Nothing
    BY <1>1, InvParts DEF StepInv, NamesInv, StepFits
<1>3. /\ at \in Files /\ at \in DOMAIN script /\ E = script[at] /\ EntryDir = E.dir
      /\ E.dir \in {"T", "D"} /\ E.name \in FileNames /\ Dest = Object(at) /\ temp \in Temps
    BY <1>1, <1>2, EntryFacts DEF Files, E, TypeOK, ProgressType
<1>4. CASE SameFile
    <2>1. NextEntryIs(TRUE, FALSE) /\ UNCHANGED <<dirs, temp>> /\ FirstObj = Dest
        BY <1>4 DEF LinkOver, SameFile
    <2>2. /\ (ContentOf(at, FirstObj) \/ Linked(at, FirstObj))
          /\ meddled = 0 => MadeFor(at, FirstObj)
          /\ FirstObj = FirstOf(E.key)
        BY <1>1, <1>2, <2>1, FirstObjFacts
    <2>3. at' = at + 1 /\ pc' = "open" /\ restored' = restored \cup {at} /\ failed' = failed
        BY <2>1 DEF NextEntryIs
    <2>4. ProgressType'
        BY <1>1, <1>2, <1>3, <2>1, <2>3, NextKeeps
    <2>5. TypeOK'
        BY <1>1, <1>2, <2>1, <2>4 DEF TypeOK, ScriptType, DirsType, InodesType, Sane, rigidEntry
    <2>6. \A k \in Files : Object(k)' = IF Near(k) THEN FirstObj ELSE Object(k)
        BY <1>1, <1>3, <2>1 DEF Object, Near
    <2>7. FirstObj = Theirs(at) \/ (Theirs(at).kind \in {"dir", "symlink", "special"} => PlaceOf(E) \in raced)
        BY <1>2, <1>3, <2>1 DEF ExistingKept
    <2>8. NamesInv'
        <3> DEFINE o == FirstObj
                   mine == E.key
                   a == at
        <3>1. /\ a \in Files /\ a = at /\ mine = E.key
              /\ UNCHANGED <<script, asRoot, hardLinks, inodes>> /\ UNCHANGED others
              /\ restored' = restored \cup {a} /\ failed' = failed
              /\ \A k \in Files : Object(k)' = IF Near(k) THEN o ELSE Object(k)
              /\ (ContentOf(a, o) \/ Linked(a, o))
              /\ (o = Theirs(a) \/ (Theirs(a).kind \in {"dir", "symlink", "special"} => PlaceOf(E) \in raced))
              /\ meddled = 0 => MadeBy(a, o) \/ MadeFor(a, o)
              /\ first' = first /\ mine \in DOMAIN first /\ o = FirstOf(mine)
            BY <1>1, <1>2, <1>3, <2>2, <2>3, <2>6, <2>7 DEF rigidEntry
        <3> HIDE DEF o, mine, a
        <3>2. QED
            BY <3>1, GainNames
    <2>9. StepInv'
        BY <2>3, Aside
    <2>10. SuidOwned' /\ HandleIsD'
        BY <1>1, <1>2, <2>1 DEF SuidOwned, HandleIsD, rigidEntry
    <2>11. QED
        BY <2>5, <2>8, <2>9, <2>10, InvParts
<1>5. CASE ~SameFile /\ Linkable
    <2>1. /\ Put(EntryDir, "tmp", FirstObj) /\ Continue("commit")
          /\ temp' = [is |-> TRUE, dir |-> EntryDir, link |-> TRUE]
        BY <1>5 DEF LinkOver
    <2>2. FirstObj # Nothing
        BY <1>5 DEF Linkable, Nothing, Obj
    <2>3. /\ Sane(FirstObj) /\ (ContentOf(at, FirstObj) \/ Linked(at, FirstObj))
          /\ meddled = 0 => MadeFor(at, FirstObj)
          /\ FirstObj = FirstOf(E.key)
        BY <1>1, <1>2, <2>2, FirstObjFacts
    <2>4. /\ DirsType' /\ dirs'[E.dir]["tmp"] = FirstObj
          /\ \A e \in Dirs, m \in Names : e # E.dir \/ m # "tmp" => dirs'[e][m] = dirs[e][m]
        BY <1>1, <1>2, <1>3, <2>1, <2>3, PutKeeps DEF Names
    <2>5. at' = at /\ pc' = "commit" /\ restored' = restored /\ failed' = failed
        BY <2>1 DEF Continue
    <2>6. E' = E /\ EntryDir' = EntryDir
        BY <1>1, <2>5, SameEntry
    <2>7. temp' \in Temps
        BY <1>3, <2>1 DEF Temps
    <2>8. ProgressType'
        BY <1>1, <1>2, <2>5, <2>7, ContinueKeeps DEF Steps
    <2>9. TypeOK'
        BY <1>1, <1>2, <2>4, <2>8 DEF TypeOK, ScriptType, InodesType, rigidEntry
    <2>10. \A d \in {"T", "D"}, n \in FileNames : dirs'[d][n] = dirs[d][n]
        BY <2>4 DEF Dirs, Names, FileNames
    <2>11. NamesInv'
        BY <1>1, <2>5, <2>10, ApartNames DEF rigidEntry
    <2>12. StepFits' /\ Fresh' /\ Looked'
        BY <1>2, <2>5, <2>6 DEF StepFits, Fresh, Looked
    <2>13. TempKept'
        <3>1. \A o : o = FirstObj => ContentOf(at, o)' \/ Linked(at, o)'
            BY <1>1, <2>3, <2>5 DEF ContentOf, Linked, SameKey, Files, OneFile, EverPut
        <3>2. (dirs[EntryDir]["tmp"])' = FirstObj
            BY <1>3, <2>4, <2>6
        <3>3. (ContentOf(at, dirs[EntryDir]["tmp"]) \/ Linked(at, dirs[EntryDir]["tmp"]))'
            BY <3>1, <3>2 DEF ContentOf, Linked
        <3>4. temp'.link /\ temp'.is /\ temp'.dir = EntryDir
            BY <2>1
        <3>5. QED
            BY <1>1, <1>2, <2>5, <2>6, <3>3, <3>4 DEF TempKept
    <2>14. TempMade'
        <3>1. ASSUME meddled = 0, NEW o, o = FirstObj PROVE MadeFor(at, o)'
            BY <1>1, <2>3, <2>5, <3>1
               DEF MadeFor, MadeBy, Settled, SameKey, Files, OneFile, rigidEntry
        <3>2. (dirs[EntryDir]["tmp"])' = FirstObj
            BY <1>3, <2>4, <2>6
        <3>3. ASSUME meddled = 0 PROVE MadeFor(at, dirs[EntryDir]["tmp"])'
            BY <3>1, <3>2, <3>3 DEF MadeFor, MadeBy
        <3>4. QED
            BY <1>1, <2>1, <3>3 DEF TempMade
    <2>15. LinkPath'
        <3>1. \A key \in DOMAIN first : key = E.key => FirstOf(key)' = FirstOf(key)
            <4>1. PICK l \in restored \cap Files :
                    first[E.key].dir = script[l].dir /\ first[E.key].name = script[l].name
                BY <1>2, InvParts, FirstFacts DEF NamesInv
            <4>2. QED
                BY <1>1, <1>2, <2>10, <4>1, FileFacts DEF FirstOf
        <3>2. (dirs[EntryDir]["tmp"])' = FirstObj
            BY <1>3, <2>4, <2>6
        <3>3. (dirs[EntryDir]["tmp"])' = FirstOf(E.key)'
            BY <1>2, <2>3, <2>6, <3>1, <3>2 DEF FirstOf
        <3>4. QED
            BY <1>1, <1>2, <2>1, <2>5, <2>6, <3>3 DEF LinkPath
    <2>16. StepInv'
        BY <2>12, <2>13, <2>14, <2>15 DEF StepInv
    <2>17. SuidOwned' /\ HandleIsD'
        <3>1. dirs'["T"]["d"] = dirs["T"]["d"]
            BY <1>3, <2>4 DEF Dirs, Names
        <3>2. QED
            BY <1>1, <1>2, <3>1 DEF SuidOwned, HandleIsD, rigidEntry, OpenChild
    <2>18. QED
        BY <2>9, <2>11, <2>16, <2>17, InvParts
<1>6. CASE ~SameFile /\ ~Linkable
    <2>1. Continue("look") /\ UNCHANGED <<dirs, temp>>
        BY <1>6 DEF LinkOver
    <2>2. at' = at /\ restored' = restored /\ failed' = failed /\ pc' = "look"
        BY <2>1 DEF Continue
    <2>3. E' = E /\ EntryDir' = EntryDir /\ Dest' = Dest
        BY <1>1, <2>1, <2>2, SameEntry
    <2>4. meddled = 0 /\ hardLinks => Linkable
        BY <1>1, <1>2, FirstObjFacts DEF Linkable
    <2>5. StepInv'
        BY <1>1, <1>2, <1>6, <2>1, <2>2, <2>3, <2>4
           DEF StepInv, StepFits, TempKept, Fresh, Looked, TempMade, LinkPath, rigidEntry, others
    <2>6. QED
        BY <1>1, <2>1, <2>2, <2>5, StillKeeps DEF Steps
<1>7. QED
    BY <1>4, <1>5, <1>6

\* What is in the way ends it before anything is read (restore_file).
LEMMA LookKeeps ==
    ASSUME IInv, Look
    PROVE  IInv'
<1>1. /\ pc = "look" /\ UNCHANGED rigidEntry /\ UNCHANGED others
      /\ UNCHANGED <<dirs, inodes, handle, temp, first>>
    BY DEF Look
<1>2. TypeOK /\ StepFits /\ LinkPath
    BY InvParts DEF StepInv
<1>3. CASE InTheWay(Dest)
    <2>1. at' = at + 1 /\ pc' = "open" /\ restored' = restored /\ failed' = failed \cup {at}
        BY <1>3 DEF Look, NextEntryIs
    <2>2. StepInv'
        BY <2>1, Aside
    <2>3. QED
        BY <1>1, <2>1, <2>2, StillKeeps DEF Steps
<1>4. CASE ~InTheWay(Dest)
    <2>1. at' = at /\ pc' = "create" /\ restored' = restored /\ failed' = failed
        BY <1>4 DEF Look, Continue
    <2>2. E' = E /\ EntryDir' = EntryDir
        BY <1>1, <2>1, SameEntry DEF rigidEntry
    <2>3. StepInv'
        BY <1>1, <1>2, <1>4, <2>1, <2>2
           DEF StepInv, StepFits, TempKept, Fresh, Looked, TempMade, LinkPath, rigidEntry, others
    <2>4. QED
        BY <1>1, <2>1, <2>3, StillKeeps DEF Steps
<1>5. QED
    BY <1>3, <1>4

-----------------------------------------------------------------------------
(* The steps of a copy.                                                    *)

\* One name changes, and there may be a file more.
LEMMA PutGrows ==
    ASSUME TypeOK, UNCHANGED <<theirs, put>>, NEW d \in {"T", "D"}, NEW n \in Names, NEW o \in Objects,
           o.kind = "dir" => o.dir = "D", o.kind = "file" => o.file \in 1 .. Len(inodes'),
           Put(d, n, o), InodesType', Len(inodes) <= Len(inodes')
    PROVE  /\ DirsType' /\ dirs' \in [Dirs -> [Names -> Objects]] /\ dirs'[d][n] = o
           /\ \A e \in Dirs, m \in Names : e # d \/ m # n => dirs'[e][m] = dirs[e][m]
<1>1. d \in Dirs /\ d # "O" /\ "O" \in Dirs
    BY DEF Dirs
<1>2. dirs \in [Dirs -> [Names -> Objects]]
    BY DEF TypeOK, DirsType
<1>3. dirs' = [dirs EXCEPT ![d][n] = o]
    BY DEF Put
<1>4. /\ dirs' \in [Dirs -> [Names -> Objects]] /\ dirs'[d][n] = o
      /\ \A e \in Dirs, m \in Names : e # d \/ m # n => dirs'[e][m] = dirs[e][m]
      /\ \A e \in Dirs : e # d => dirs'[e] = dirs[e]
    BY <1>1, <1>2, <1>3, PutEffect
<1>5. Len(inodes) \in Nat /\ Len(inodes') \in Nat
    BY DEF TypeOK, InodesType
<1>6. ASSUME NEW e \in Dirs, NEW m \in Names PROVE Sane(dirs[e][m])'
    <2>1. Sane(dirs[e][m])
        BY DEF TypeOK, DirsType
    <2>2. dirs'[e][m] = o \/ dirs'[e][m] = dirs[e][m]
        BY <1>4
    <2>3. \A f \in 1 .. Len(inodes) : f \in 1 .. Len(inodes')
        BY <1>5
    <2>4. QED
        BY <2>1, <2>2, <2>3 DEF Sane
<1>7. DirsType'
    BY <1>1, <1>4, <1>6, DirsKept
<1>8. QED
    BY <1>4, <1>7

\* A temporary file is made (TempFile::create_in).
LEMMA CreateKeeps ==
    ASSUME IInv, Create
    PROVE  IInv'
<1>1. /\ pc = "create" /\ UNCHANGED rigidEntry /\ UNCHANGED others
      /\ UNCHANGED <<handle, first>> /\ UNCHANGED <<script, asRoot, theirs, put, meddled>>
      /\ inodes' = Append(inodes, Inode("part", FALSE, FALSE))
      /\ Put(EntryDir, "tmp", Regular(Len(inodes) + 1))
      /\ temp' = [is |-> TRUE, dir |-> EntryDir, link |-> FALSE]
      /\ at' = at /\ pc' = "write" /\ restored' = restored /\ failed' = failed
    BY DEF Create, Continue, rigidEntry, others
<1>2. TypeOK /\ SuidOwned /\ HandleIsD /\ StepFits /\ LinkPath
    BY InvParts DEF StepInv
<1>3. /\ EntryDir = E.dir /\ E.dir \in {"T", "D"} /\ E.name \in FileNames
      /\ E' = E /\ EntryDir' = EntryDir
    BY <1>1, <1>2, EntryFacts, SameEntry
<1>4. inodes \in Seq(Inodes) /\ Len(inodes) \in Nat /\ Len(inodes) >= 2
    BY <1>2 DEF TypeOK, InodesType
<1>5. Inode("part", FALSE, FALSE) \in Inodes /\ ~Inode("part", FALSE, FALSE).suid
    BY DEF Inode, Inodes
<1>6. /\ inodes' \in Seq(Inodes) /\ Len(inodes') = Len(inodes) + 1
      /\ inodes'[Len(inodes) + 1] = Inode("part", FALSE, FALSE)
      /\ \A f \in 1 .. Len(inodes) : inodes'[f] = inodes[f]
    <2> DEFINE file == Inode("part", FALSE, FALSE)
    <2> HIDE DEF file
    <2>1. file \in Inodes /\ inodes' = Append(inodes, file)
        BY <1>1, <1>5 DEF file
    <2>2. inodes' \in Seq(Inodes) /\ Len(inodes') = Len(inodes) + 1 /\ inodes'[Len(inodes) + 1] = file
        BY <1>4, <2>1
    <2>3. \A f \in 1 .. Len(inodes) : inodes'[f] = inodes[f]
        BY <1>4, <2>1
    <2>4. QED
        BY <2>2, <2>3 DEF file
<1>7. InodesType'
    <2>1. 1 \in 1 .. Len(inodes) /\ 2 \in 1 .. Len(inodes)
        BY <1>4
    <2>2. inodes[1] = User /\ inodes[2] = User
        BY <1>2 DEF TypeOK, InodesType
    <2>3. inodes'[1] = User /\ inodes'[2] = User
        BY <1>6, <2>1, <2>2
    <2>4. Len(inodes') >= 2
        BY <1>4, <1>6
    <2>5. QED
        BY <1>6, <2>3, <2>4 DEF InodesType
<1>8. Regular(Len(inodes) + 1) \in Objects /\ Regular(Len(inodes) + 1).kind = "file"
      /\ Regular(Len(inodes) + 1).file = Len(inodes) + 1
    BY <1>4, TheObjects DEF Regular, Obj
<1>9. /\ DirsType' /\ dirs'[E.dir]["tmp"] = Regular(Len(inodes) + 1)
      /\ \A e \in Dirs, m \in Names : e # E.dir \/ m # "tmp" => dirs'[e][m] = dirs[e][m]
    <2>1. Len(inodes) + 1 \in 1 .. Len(inodes') /\ Len(inodes) <= Len(inodes')
        BY <1>4, <1>6
    <2>2. "tmp" \in Names
        BY DEF Names
    <2>3. QED
        BY <1>1, <1>2, <1>3, <1>7, <1>8, <2>1, <2>2, PutGrows
<1>10. temp' \in Temps
    BY <1>1, <1>3 DEF Temps
<1>11. ProgressType'
    BY <1>1, <1>2, <1>10, ContinueKeeps DEF Steps
<1>12. TypeOK'
    BY <1>1, <1>2, <1>7, <1>9, <1>11 DEF TypeOK, ScriptType, rigidEntry
<1>13. NamesInv'
    <2>1. ASSUME NEW k \in Files
          PROVE  /\ Object(k)' = Object(k)
                 /\ Object(k).kind = "file" =>
                      /\ inodes'[Object(k).file].data = inodes[Object(k).file].data
                      /\ inodes'[Object(k).file].suid = inodes[Object(k).file].suid
        <3>1. Sane(Object(k)) /\ script[k].dir \in Dirs /\ script[k].name \in Names /\ script[k].name # "tmp"
            BY <1>2, FileFacts DEF FileNames
        <3>2. Object(k)' = Object(k)
            BY <1>1, <1>9, <3>1 DEF Object
        <3>3. QED
            BY <1>6, <3>1, <3>2 DEF Sane
    <2>2. QED
        BY <1>1, <2>1, AsideNames DEF rigidEntry
<1>14. StepFits' /\ Looked' /\ TempMade'
    BY <1>1, <1>2, <1>3 DEF StepFits, Looked, TempMade
<1>15. TempKept'
    <2>1. (dirs[EntryDir]["tmp"] = Regular(Len(inodes)))'
        BY <1>3, <1>6, <1>9
    <2>2. temp'.is /\ temp'.dir = EntryDir' /\ ~temp'.link
        BY <1>1, <1>3
    <2>3. Len(inodes') >= 3
        BY <1>4, <1>6
    <2>4. QED
        BY <1>1, <2>1, <2>2, <2>3 DEF TempKept
<1>16. Fresh'
    <2>1. ASSUME NEW d \in Dirs, NEW n \in Names \ {"tmp"}, dirs'[d][n].kind = "file"
          PROVE  dirs'[d][n].file < Len(inodes')
        <3>1. dirs'[d][n] = dirs[d][n] /\ Sane(dirs[d][n])
            BY <1>2, <1>9 DEF TypeOK, DirsType
        <3>2. dirs[d][n].file \in 1 .. Len(inodes)
            BY <2>1, <3>1 DEF Sane
        <3>3. QED
            BY <1>4, <1>6, <3>1, <3>2
    <2>2. QED
        BY <2>1 DEF Fresh
<1>17. LinkPath'
    BY <1>1, <1>2, <1>3 DEF LinkPath, rigidEntry
<1>18. SuidOwned'
    <2>1. ASSUME NEW f \in 1 .. Len(inodes'), inodes'[f].suid, asRoot PROVE inodes'[f].owned
        <3>1. CASE f \in 1 .. Len(inodes)
            BY <1>2, <1>6, <2>1, <3>1 DEF SuidOwned
        <3>2. CASE f = Len(inodes) + 1
            BY <1>5, <1>6, <2>1, <3>2
        <3>3. QED
            BY <1>4, <1>6, <3>1, <3>2
    <2>2. QED
        BY <1>1, <2>1 DEF SuidOwned
<1>19. HandleIsD'
    <2>1. dirs'["T"]["d"] = dirs["T"]["d"]
        BY <1>9 DEF Dirs, Names
    <2>2. QED
        BY <1>1, <1>2, <2>1 DEF HandleIsD, OpenChild
<1>20. QED
    BY <1>12, <1>13, <1>14, <1>15, <1>16, <1>17, <1>18, <1>19, InvParts DEF StepInv

\* The temporary name is dropped, and the entry fails or is copied
\* (TempPath::drop, link_over).
LEMMA DropKeeps ==
    ASSUME IInv, pc \in {"write", "commit", "rename"}, Drop, UNCHANGED rigidEntry, UNCHANGED others,
           UNCHANGED <<inodes, handle, first>>,
           NextEntryIs(FALSE, TRUE) \/ (Continue("look") /\ InTheWay(Dest))
    PROVE  IInv'
<1>1. /\ UNCHANGED <<script, asRoot, theirs, put, meddled>>
      /\ restored' = restored /\ failed \subseteq failed'
      /\ (at' = at + 1 /\ pc' = "open") \/ (at' = at /\ pc' = "look" /\ InTheWay(Dest))
    BY DEF NextEntryIs, Continue, rigidEntry, others
<1>2. TypeOK /\ SuidOwned /\ HandleIsD /\ StepFits /\ TempKept
    BY InvParts DEF StepInv
<1>3. /\ EntryDir = E.dir /\ E.dir \in {"T", "D"} /\ E.name \in FileNames
    BY <1>2, EntryFacts
<1>4. Put(E.dir, "tmp", Nothing) /\ temp' = NoTemp
    BY <1>2, <1>3 DEF Drop, TempKept
<1>5. Sane(Nothing)
    BY TheObjects DEF Sane, Nothing, Obj
<1>6. /\ DirsType'
      /\ \A e \in Dirs, m \in Names : e # E.dir \/ m # "tmp" => dirs'[e][m] = dirs[e][m]
    BY <1>1, <1>2, <1>3, <1>4, <1>5, PutKeeps DEF Names
<1>7. \A d \in {"T", "D"}, n \in FileNames : dirs'[d][n] = dirs[d][n]
    BY <1>6 DEF Dirs, Names, FileNames
<1>8. NamesInv'
    BY <1>1, <1>7, ApartNames DEF rigidEntry
<1>9. temp' \in Temps
    BY <1>4 DEF NoTemp, Temps
<1>10. ProgressType'
    BY <1>1, <1>2, <1>9, ContinueKeeps, NextKeeps DEF Steps
<1>11. TypeOK'
    BY <1>1, <1>2, <1>6, <1>10 DEF TypeOK, ScriptType, InodesType, rigidEntry
<1>12. StepInv'
    <2>1. CASE pc' = "open"
        BY <2>1, Aside
    <2>2. CASE at' = at /\ pc' = "look" /\ InTheWay(Dest)
        <3>1. E' = E /\ EntryDir' = EntryDir
            BY <1>1, <2>2, SameEntry
        <3>2. Dest' = Dest
            BY <1>3, <1>7, <3>1 DEF Dest
        <3>3. QED
            BY <1>2, <2>2, <3>1, <3>2
               DEF StepInv, StepFits, TempKept, Fresh, Looked, TempMade, LinkPath, InTheWay
    <2>3. QED
        BY <1>1, <2>1, <2>2
<1>13. SuidOwned' /\ HandleIsD'
    <2>1. dirs'["T"]["d"] = dirs["T"]["d"]
        BY <1>6 DEF Dirs, Names
    <2>2. QED
        BY <1>1, <1>2, <2>1 DEF SuidOwned, HandleIsD, OpenChild
<1>14. QED
    BY <1>8, <1>11, <1>12, <1>13, InvParts

\* The content goes into the temporary file (restore_file).
LEMMA WriteKeeps ==
    ASSUME IInv, Write
    PROVE  IInv'
<1>1. /\ pc = "write" /\ UNCHANGED rigidEntry /\ UNCHANGED others /\ UNCHANGED <<handle, first>>
      /\ UNCHANGED <<script, asRoot, theirs, put, meddled>>
    BY DEF Write, rigidEntry, others
<1>2. TypeOK /\ SuidOwned /\ HandleIsD /\ StepFits /\ TempKept /\ Fresh /\ LinkPath
    BY InvParts DEF StepInv
<1>3. CASE /\ inodes' = [inodes EXCEPT ![Len(inodes)].data = E.data]
           /\ Continue("meta") /\ UNCHANGED <<dirs, temp>>
    <2>1. /\ at' = at /\ pc' = "meta" /\ restored' = restored /\ failed' = failed
          /\ temp' = temp /\ dirs' = dirs
        BY <1>3 DEF Continue
    <2>2. E' = E /\ EntryDir' = EntryDir /\ E.data \in Data
        BY <1>1, <1>2, <2>1, EntryFacts, SameEntry DEF ScriptEntries
    <2>3. /\ inodes \in Seq(Inodes) /\ Len(inodes) \in Nat /\ Len(inodes) >= 3
          /\ ~temp.link /\ dirs[EntryDir]["tmp"] = Regular(Len(inodes))
        BY <1>1, <1>2 DEF TypeOK, InodesType, TempKept
    <2>4. /\ inodes' \in Seq(Inodes) /\ Len(inodes') = Len(inodes)
          /\ inodes'[Len(inodes)].data = E.data
          /\ inodes'[Len(inodes)].suid = inodes[Len(inodes)].suid
          /\ inodes'[Len(inodes)].owned = inodes[Len(inodes)].owned
          /\ \A f \in 1 .. Len(inodes) : f # Len(inodes) => inodes'[f] = inodes[f]
        <3> DEFINE n == Len(inodes)
                   file == [inodes[n] EXCEPT !.data = E.data]
        <3> HIDE DEF n
        <3>1. n \in 1 .. n /\ n = Len(inodes) /\ inodes[n] \in Inodes
            BY <2>3 DEF n
        <3>2. /\ file \in Inodes /\ file.data = E.data /\ file.suid = inodes[n].suid
              /\ file.owned = inodes[n].owned
            BY <2>2, <3>1 DEF Inodes
        <3>3. inodes' = [inodes EXCEPT ![n] = file]
            BY <1>3 DEF n
        <3> HIDE DEF file
        <3>4. QED
            BY <2>3, <3>1, <3>2, <3>3
    <2>5. InodesType'
        <3>1. inodes[1] = User /\ inodes[2] = User
            BY <1>2 DEF TypeOK, InodesType
        <3>2. 1 \in 1 .. Len(inodes) /\ 2 \in 1 .. Len(inodes) /\ 1 # Len(inodes) /\ 2 # Len(inodes)
            BY <2>3 DEF Regular
        <3>3. inodes'[1] = User /\ inodes'[2] = User
            BY <2>4, <3>1, <3>2
        <3>4. Len(inodes') >= 2
            BY <2>3, <2>4
        <3>5. QED
            BY <2>4, <3>3, <3>4 DEF InodesType
    <2>6. ProgressType'
        BY <1>1, <1>2, <2>1, ContinueKeeps DEF Steps, TypeOK, ProgressType
    <2>7. TypeOK'
        BY <1>1, <1>2, <2>1, <2>4, <2>5, <2>6 DEF TypeOK, ScriptType, DirsType, Sane, rigidEntry
    <2>8. NamesInv'
        <3>1. ASSUME NEW k \in Files
              PROVE  /\ Object(k)' = Object(k)
                     /\ Object(k).kind = "file" => inodes'[Object(k).file] = inodes[Object(k).file]
            <4>1. Sane(Object(k)) /\ script[k].dir \in Dirs /\ script[k].name \in Names \ {"tmp"}
                BY <1>2, FileFacts DEF FileNames
            <4>2. Object(k)' = Object(k)
                BY <1>1, <2>1 DEF Object
            <4>3. Object(k).kind = "file" => Object(k).file < Len(inodes) /\ Object(k).file \in 1 .. Len(inodes)
                BY <1>1, <1>2, <4>1 DEF Fresh, Object, Sane
            <4>4. QED
                BY <2>3, <2>4, <4>2, <4>3
        <3>2. QED
            BY <1>1, <2>1, <3>1, AsideNames DEF rigidEntry
    <2>9. StepFits' /\ Looked' /\ TempMade'
        BY <1>1, <1>2, <2>1, <2>2 DEF StepFits, Looked, TempMade
    <2>10. TempKept' /\ Fresh' /\ LinkPath'
        BY <1>1, <1>2, <2>1, <2>2, <2>3, <2>4 DEF TempKept, Fresh, LinkPath, rigidEntry
    <2>11. SuidOwned'
        BY <1>1, <1>2, <2>3, <2>4 DEF SuidOwned
    <2>12. HandleIsD'
        BY <1>1, <1>2, <2>1 DEF HandleIsD, OpenChild
    <2>13. QED
        BY <2>7, <2>8, <2>9, <2>10, <2>11, <2>12, InvParts DEF StepInv
<1>4. CASE Faults /\ Drop /\ NextEntryIs(FALSE, TRUE) /\ UNCHANGED inodes
    BY <1>1, <1>4, DropKeeps
<1>5. QED
    BY <1>3, <1>4 DEF Write

\* What apply_meta makes of a file.
LEMMA DressedFacts ==
    ASSUME NEW inode \in Inodes, NEW entry \in ScriptEntries, NEW root \in BOOLEAN, NEW owner \in BOOLEAN,
           NEW putOn \in BOOLEAN, inode.suid /\ root => inode.owned, owner => putOn /\ root
    PROVE  LET f == Dressed(inode, entry, root, owner, putOn)
           IN /\ f \in Inodes /\ f.data = inode.data
              /\ f.suid /\ root => f.owned
              /\ putOn /\ (root => owner) => f.suid = entry.suid
<1> DEFINE chowned == IF owner THEN [inode EXCEPT !.owned = TRUE, !.suid = FALSE] ELSE inode
           f == Dressed(inode, entry, root, owner, putOn)
<1>1. /\ chowned \in Inodes /\ chowned.data = inode.data
      /\ owner => chowned.owned
      /\ ~owner => chowned = inode
    BY DEF Inodes
<1>2. entry.suid \in BOOLEAN /\ (entry.suid /\ (owner \/ ~root)) \in BOOLEAN
    BY DEF ScriptEntries
<1>3. f = IF putOn THEN [chowned EXCEPT !.suid = entry.suid /\ (owner \/ ~root)] ELSE chowned
    BY DEF Dressed
<1> HIDE DEF chowned, f
<1>4. CASE putOn
    <2>1. /\ f \in Inodes /\ f.data = chowned.data /\ f.owned = chowned.owned
          /\ f.suid = (entry.suid /\ (owner \/ ~root))
        BY <1>1, <1>2, <1>3, <1>4 DEF Inodes
    <2>2. f.suid /\ root => f.owned
        BY <1>1, <2>1
    <2>3. (root => owner) => f.suid = entry.suid
        BY <1>2, <2>1
    <2>4. f \in Inodes /\ f.data = inode.data
        BY <1>1, <2>1
    <2>5. QED
        BY <2>2, <2>3, <2>4 DEF f
<1>5. CASE ~putOn
    <2>1. f = inode
        BY <1>1, <1>3, <1>5
    <2>2. QED
        BY <1>5, <2>1 DEF f
<1>6. QED
    BY <1>4, <1>5

\* The metadata goes onto the temporary file (apply_meta).
LEMMA MetaKeeps ==
    ASSUME IInv, Meta
    PROVE  IInv'
<1>1. /\ pc = "meta" /\ UNCHANGED rigidEntry /\ UNCHANGED others /\ UNCHANGED <<handle, first>>
      /\ UNCHANGED <<script, asRoot, theirs, put, meddled>>
      /\ at' = at /\ pc' = "commit" /\ restored' = restored /\ temp' = temp /\ dirs' = dirs
    BY DEF Meta, rigidEntry, others
<1>2. /\ TypeOK /\ SuidOwned /\ HandleIsD /\ StepFits /\ TempKept /\ Fresh /\ LinkPath
    BY InvParts DEF StepInv
<1>3. E' = E /\ EntryDir' = EntryDir /\ E \in ScriptEntries /\ at \in DOMAIN script /\ E = script[at]
    BY <1>1, <1>2, EntryFacts, SameEntry DEF E
<1>4. /\ inodes \in Seq(Inodes) /\ Len(inodes) \in Nat /\ Len(inodes) >= 3 /\ inodes[Len(inodes)] \in Inodes
      /\ ~temp.link /\ dirs[EntryDir]["tmp"] = Regular(Len(inodes)) /\ inodes[Len(inodes)].data = E.data
      /\ asRoot \in BOOLEAN
    BY <1>1, <1>2 DEF TypeOK, ScriptType, InodesType, TempKept
<1>5. PICK xattrs \in BOOLEAN, chown \in BOOLEAN :
         LET owner == xattrs /\ asRoot /\ E.owner /\ chown
         IN /\ inodes' = [inodes EXCEPT ![Len(inodes)] = Dressed(@, E, asRoot, owner, xattrs)]
            /\ failed' = IF xattrs /\ (asRoot /\ E.owner => owner) THEN failed ELSE failed \cup {at}
    <2>1. (IF Faults THEN BOOLEAN ELSE {TRUE}) \subseteq BOOLEAN
        OBVIOUS
    <2>2. QED
        BY <2>1 DEF Meta
<1> DEFINE owner == xattrs /\ asRoot /\ E.owner /\ chown
           file == Dressed(inodes[Len(inodes)], E, asRoot, owner, xattrs)
<1>6. owner \in BOOLEAN /\ xattrs \in BOOLEAN /\ (owner => xattrs /\ asRoot)
    BY <1>3, <1>4, <1>5 DEF ScriptEntries
<1>7. failed \subseteq failed' /\ (at \notin failed' => xattrs /\ (asRoot /\ E.owner => owner))
    BY <1>5
<1>8. inodes' = [inodes EXCEPT ![Len(inodes)] = file]
    BY <1>5
<1>9. /\ file \in Inodes /\ file.data = E.data
      /\ file.suid /\ asRoot => file.owned
      /\ xattrs /\ (asRoot => owner) => file.suid = E.suid
    <2>1. inodes[Len(inodes)].suid /\ asRoot => inodes[Len(inodes)].owned
        BY <1>2, <1>4 DEF SuidOwned
    <2> HIDE DEF owner
    <2>2. QED
        BY <1>3, <1>4, <1>6, <2>1, DressedFacts
<1> HIDE DEF file
<1>10. /\ inodes' \in Seq(Inodes) /\ Len(inodes') = Len(inodes) /\ inodes'[Len(inodes)] = file
       /\ \A f \in 1 .. Len(inodes) : f # Len(inodes) => inodes'[f] = inodes[f]
    <2> DEFINE n == Len(inodes)
    <2> HIDE DEF n
    <2>1. n \in 1 .. n /\ n = Len(inodes)
        BY <1>4 DEF n
    <2>2. inodes' = [inodes EXCEPT ![n] = file]
        BY <1>8 DEF n
    <2>3. QED
        BY <1>4, <1>9, <2>1, <2>2
<1>11. InodesType'
    <2>1. inodes[1] = User /\ inodes[2] = User
        BY <1>2 DEF TypeOK, InodesType
    <2>2. 1 \in 1 .. Len(inodes) /\ 2 \in 1 .. Len(inodes) /\ 1 # Len(inodes) /\ 2 # Len(inodes)
        BY <1>4
    <2>3. inodes'[1] = User /\ inodes'[2] = User
        BY <1>10, <2>1, <2>2
    <2>4. Len(inodes') >= 2
        BY <1>4, <1>10
    <2>5. QED
        BY <1>10, <2>3, <2>4 DEF InodesType
<1>12. ProgressType'
    BY <1>1, <1>2, ContinueKeeps DEF Steps, TypeOK, ProgressType
<1>13. TypeOK'
    BY <1>1, <1>2, <1>10, <1>11, <1>12 DEF TypeOK, ScriptType, DirsType, Sane, rigidEntry
<1>14. NamesInv'
    <2>1. ASSUME NEW k \in Files
          PROVE  /\ Object(k)' = Object(k)
                 /\ Object(k).kind = "file" => inodes'[Object(k).file] = inodes[Object(k).file]
        <3>1. Sane(Object(k)) /\ script[k].dir \in Dirs /\ script[k].name \in Names \ {"tmp"}
            BY <1>2, FileFacts DEF FileNames
        <3>2. Object(k)' = Object(k)
            BY <1>1 DEF Object
        <3>3. Object(k).kind = "file" => Object(k).file < Len(inodes) /\ Object(k).file \in 1 .. Len(inodes)
            BY <1>1, <1>2, <3>1 DEF Fresh, Object, Sane
        <3>4. QED
            BY <1>4, <1>10, <3>2, <3>3
    <2>2. QED
        BY <1>1, <1>7, <2>1, AsideNames DEF rigidEntry
<1>15. StepFits' /\ Looked' /\ Fresh'
    BY <1>1, <1>2, <1>3 DEF StepFits, Looked, Fresh
<1>16. TempKept' /\ LinkPath'
    BY <1>1, <1>2, <1>3, <1>4, <1>9, <1>10 DEF TempKept, LinkPath, rigidEntry
<1>17. TempMade'
    <2>1. ASSUME at \notin failed', asRoot => E.owner PROVE file.suid = E.suid
        BY <1>7, <1>9, <2>1
    <2>2. Regular(Len(inodes)).kind = "file" /\ Regular(Len(inodes)).file = Len(inodes)
        BY DEF Regular, Obj
    <2>3. MadeBy(at, dirs[EntryDir]["tmp"])'
        BY <1>1, <1>3, <1>4, <1>10, <2>1, <2>2 DEF MadeBy, Settled
    <2>4. QED
        BY <1>1, <1>4, <2>3 DEF TempMade
<1>18. SuidOwned'
    BY <1>1, <1>2, <1>9, <1>10 DEF SuidOwned
<1>19. HandleIsD'
    BY <1>1, <1>2 DEF HandleIsD, OpenChild
<1>20. QED
    BY <1>13, <1>14, <1>15, <1>16, <1>17, <1>18, <1>19, InvParts DEF StepInv

\* The last look before the rename (TempPath::commit).
LEMMA CommitKeeps ==
    ASSUME IInv, Commit
    PROVE  IInv'
<1>1. /\ pc = "commit" /\ UNCHANGED rigidEntry /\ UNCHANGED others
      /\ UNCHANGED <<inodes, handle, first>> /\ UNCHANGED <<script, asRoot, hardLinks, theirs, put, raced, meddled>>
    BY DEF Commit, rigidEntry, others
<1>2. TypeOK /\ StepFits /\ TempKept /\ Fresh /\ TempMade /\ LinkPath /\ ExistingKept
    BY InvParts DEF StepInv, NamesInv
<1>3. CASE InTheWay(Dest)
    <2>1. Drop /\ GiveUp
        BY <1>3 DEF Commit
    <2>2. NextEntryIs(FALSE, TRUE) \/ (Continue("look") /\ InTheWay(Dest))
        BY <1>3, <2>1 DEF GiveUp
    <2>3. QED
        BY <1>1, <2>1, <2>2, DropKeeps
<1>4. CASE ~InTheWay(Dest)
    <2>1. /\ at' = at /\ pc' = "rename" /\ restored' = restored /\ failed' = failed
          /\ dirs' = dirs /\ temp' = temp
        BY <1>4 DEF Commit, Continue
    <2>2. E' = E /\ EntryDir' = EntryDir /\ Dest' = Dest
        BY <1>1, <2>1, SameEntry
    <2>3. Looked'
        <3>1. at \in Files /\ E = script[at] /\ EntryDir = E.dir /\ Dest = Object(at)
            BY <1>1, <1>2, EntryFacts DEF Files, E, StepFits
        <3>2. Dest.kind \in {"none", "file"}
            BY <1>4 DEF InTheWay
        <3>3. Theirs(at).kind \in {"dir", "symlink", "special"} => PlaceOf(E) \in raced
            BY <1>2, <3>1, <3>2 DEF ExistingKept
        <3>4. QED
            BY <1>1, <2>2, <3>1, <3>3 DEF Looked, Theirs
    <2>4. StepFits' /\ Fresh'
        BY <1>1, <1>2, <2>1, <2>2 DEF StepFits, Fresh
    <2>5. TempKept'
        <3>1. \A o : (ContentOf(at, o) => ContentOf(at, o)') /\ (Linked(at, o) => Linked(at, o)')
            BY <1>1, <2>1 DEF ContentOf, Linked, SameKey, Files, OneFile, EverPut
        <3>2. (dirs[EntryDir]["tmp"])' = dirs[EntryDir]["tmp"]
            BY <2>1, <2>2
        <3>3. temp.link => (ContentOf(at, dirs[EntryDir]["tmp"]) \/ Linked(at, dirs[EntryDir]["tmp"]))'
            BY <1>1, <1>2, <2>1, <2>2 DEF TempKept, ContentOf, Linked, SameKey, Files, OneFile, EverPut
        <3>4. QED
            BY <1>1, <1>2, <2>1, <2>2, <3>3 DEF TempKept
    <2>6. TempMade'
        BY <1>1, <1>2, <2>1, <2>2
           DEF TempMade, MadeFor, MadeBy, Settled, SameKey, Files, OneFile
    <2>7. LinkPath'
        BY <1>1, <1>2, <1>4, <2>1, <2>2 DEF LinkPath, FirstOf, InTheWay
    <2>8. StepInv'
        BY <2>3, <2>4, <2>5, <2>6, <2>7 DEF StepInv
    <2>9. QED
        BY <1>1, <2>1, <2>8, StillKeeps DEF Steps
<1>5. QED
    BY <1>3, <1>4

\* The temporary name becomes the name (TempPath::commit).
LEMMA RenameKeeps ==
    ASSUME IInv, Rename
    PROVE  IInv'
<1> DEFINE new == dirs[EntryDir]["tmp"]
<1>1. /\ pc = "rename" /\ UNCHANGED rigidEntry /\ UNCHANGED others
      /\ UNCHANGED <<inodes, handle>> /\ UNCHANGED <<script, asRoot, hardLinks, theirs, put, raced, meddled>>
    BY DEF Rename, rigidEntry, others
<1>2. /\ TypeOK /\ SuidOwned /\ HandleIsD /\ StepFits /\ TempKept /\ Looked /\ TempMade /\ LinkPath
      /\ FirstNamed
    BY InvParts DEF StepInv, NamesInv
<1>3. /\ at \in Files /\ E = script[at] /\ EntryDir = E.dir /\ Dest = Object(at) /\ E.dir \in {"T", "D"}
      /\ E.dir \in Dirs /\ E.name \in Names /\ E.name \in FileNames /\ E.name # "tmp"
    BY <1>1, <1>2, EntryFacts DEF Files, E, StepFits
<1>4. CASE Dest.kind = "dir"
    <2>1. Drop /\ GiveUp /\ UNCHANGED first
        BY <1>4 DEF Rename
    <2>2. NextEntryIs(FALSE, TRUE) \/ (Continue("look") /\ InTheWay(Dest))
        BY <1>4, <2>1 DEF GiveUp, InTheWay
    <2>3. QED
        BY <1>1, <2>1, <2>2, DropKeeps
<1>5. CASE Dest.kind # "dir"
    <2>1. /\ dirs' = IF new = Dest THEN dirs
                     ELSE [dirs EXCEPT ![E.dir][E.name] = new, ![E.dir]["tmp"] = Nothing]
          /\ temp' = NoTemp
          /\ first' = IF temp.link \/ E.key = 0 THEN first ELSE FirstWithEntry
          /\ at' = at + 1 /\ pc' = "open" /\ restored' = restored \cup {at} /\ failed' = failed
        BY <1>3, <1>5 DEF Rename, NextEntryIs, FirstWithEntry
    <2>2. new \in Objects /\ Sane(new) /\ dirs \in [Dirs -> [Names -> Objects]] /\ Sane(Nothing)
        <3>1. Nothing \in Objects /\ Nothing.kind = "none"
            BY TheObjects DEF Nothing, Obj
        <3>2. QED
            BY <1>2, <1>3, <3>1 DEF TypeOK, DirsType, Sane, Names
    <2> HIDE DEF new
    <2>3. /\ dirs' \in [Dirs -> [Names -> Objects]]
          /\ dirs'[E.dir][E.name] = new
          /\ dirs'[E.dir]["tmp"] \in {Nothing, dirs[E.dir]["tmp"]}
          /\ \A d \in Dirs, n \in Names :
                d # E.dir \/ n \notin {E.name, "tmp"} => dirs'[d][n] = dirs[d][n]
          /\ dirs'["O"] = dirs["O"]
        <3>1. CASE new = Dest
            BY <1>2, <1>3, <2>1, <2>2, <3>1 DEF Dest
        <3>2. CASE new # Dest
            <4> DEFINE mid == [dirs EXCEPT ![E.dir][E.name] = new]
            <4>1. dirs' = [mid EXCEPT ![E.dir]["tmp"] = Nothing]
                BY <2>1, <3>2
            <4>2. Nothing \in Objects /\ "tmp" \in Names /\ "O" \in Dirs /\ E.dir # "O"
                BY <1>3, TheObjects DEF Names, Dirs
            <4>3. /\ mid \in [Dirs -> [Names -> Objects]] /\ mid[E.dir][E.name] = new
                  /\ \A d \in Dirs, n \in Names : d # E.dir \/ n # E.name => mid[d][n] = dirs[d][n]
                  /\ \A d \in Dirs : d # E.dir => mid[d] = dirs[d]
                BY <1>3, <2>2, PutEffect
            <4> HIDE DEF mid
            <4>4. /\ dirs' \in [Dirs -> [Names -> Objects]] /\ dirs'[E.dir]["tmp"] = Nothing
                  /\ \A d \in Dirs, n \in Names : d # E.dir \/ n # "tmp" => dirs'[d][n] = mid[d][n]
                  /\ \A d \in Dirs : d # E.dir => dirs'[d] = mid[d]
                BY <1>3, <4>1, <4>2, <4>3, PutEffect
            <4>5. QED
                BY <1>3, <4>2, <4>3, <4>4
        <3>3. QED
            BY <3>1, <3>2
    <2>4. DirsType'
        <3>1. ASSUME NEW d \in Dirs, NEW n \in Names PROVE Sane(dirs[d][n])'
            <4>1. Sane(dirs[d][n])
                BY <1>2 DEF TypeOK, DirsType
            <4>2. dirs'[d][n] \in {new, Nothing, dirs[d][n]}
                BY <2>3
            <4>3. QED
                BY <1>1, <2>2, <4>1, <4>2 DEF Sane
        <3>2. QED
            BY <1>1, <1>2, <2>3, <3>1, DirsKept
    <2>5. temp' \in Temps
        BY <2>1 DEF NoTemp, Temps
    <2>6. ProgressType'
        BY <1>1, <1>2, <2>1, <2>5, NextKeeps
    <2>7. TypeOK'
        BY <1>1, <1>2, <2>4, <2>6 DEF TypeOK, ScriptType, InodesType, rigidEntry
    <2>8. \A k \in Files : Object(k)' = IF Near(k) THEN new ELSE Object(k)
        <3>1. ASSUME NEW k \in Files PROVE Object(k)' = IF Near(k) THEN new ELSE Object(k)
            <4>1. /\ script[k].dir \in Dirs /\ script[k].name \in Names /\ script[k].name # "tmp"
                  /\ Object(k)' = dirs'[script[k].dir][script[k].name]
                BY <1>1, <1>2, FileFacts DEF FileNames, Object
            <4>2. QED
                BY <2>3, <4>1 DEF Near, Object
        <3>2. QED
            BY <3>1
    <2>9. ContentOf(at, new) \/ Linked(at, new)
        <3>1. CASE temp.link
            BY <1>1, <1>2, <3>1 DEF TempKept, new
        <3>2. CASE ~temp.link
            <4>1. new = Regular(Len(inodes)) /\ inodes[Len(inodes)].data = E.data
                BY <1>1, <1>2, <3>2 DEF TempKept, new
            <4>2. QED
                BY <1>3, <4>1 DEF ContentOf, Regular, Obj
        <3>3. QED
            BY <3>1, <3>2
    <2>10. Theirs(at).kind \in {"dir", "symlink", "special"} => PlaceOf(E) \in raced
        BY <1>1, <1>2, <1>3 DEF Looked, Theirs
    <2>11. meddled = 0 => MadeBy(at, new) \/ MadeFor(at, new)
        BY <1>1, <1>2 DEF TempMade, new
    <2>12. \/ /\ first' = first
              /\ meddled = 0 /\ hardLinks /\ E.key # 0 => E.key \in DOMAIN first /\ new = FirstOf(E.key)
           \/ /\ first' = FirstWithEntry /\ E.key # 0
              /\ meddled = 0 /\ hardLinks => E.key \notin DOMAIN first
        BY <1>1, <1>2, <2>1 DEF LinkPath, new
    <2>13. NamesInv'
        <3> DEFINE o == new
                   mine == E.key
                   a == at
        <3>1. /\ a \in Files /\ a = at /\ mine = E.key
              /\ UNCHANGED <<script, asRoot, hardLinks, inodes>> /\ UNCHANGED others
              /\ restored' = restored \cup {a} /\ failed' = failed
              /\ \A k \in Files : Object(k)' = IF Near(k) THEN o ELSE Object(k)
              /\ (ContentOf(a, o) \/ Linked(a, o))
              /\ Theirs(a).kind \in {"dir", "symlink", "special"} => PlaceOf(E) \in raced
              /\ meddled = 0 => MadeBy(a, o) \/ MadeFor(a, o)
              /\ \/ /\ first' = first
                    /\ meddled = 0 /\ hardLinks /\ mine # 0 => mine \in DOMAIN first /\ o = FirstOf(mine)
                 \/ /\ first' = FirstWithEntry /\ mine # 0
                    /\ meddled = 0 /\ hardLinks => mine \notin DOMAIN first
            BY <1>1, <1>3, <2>1, <2>8, <2>9, <2>10, <2>11, <2>12
        <3> HIDE DEF o, mine, a
        <3>2. QED
            BY <3>1, GainNames
    <2>14. StepInv'
        BY <2>1, Aside
    <2>15. SuidOwned' /\ HandleIsD'
        <3>1. dirs'["T"]["d"] = dirs["T"]["d"]
            BY <1>3, <2>3 DEF Dirs, Names, FileNames
        <3>2. QED
            BY <1>1, <1>2, <3>1 DEF SuidOwned, HandleIsD, OpenChild
    <2>16. QED
        BY <2>7, <2>13, <2>14, <2>15, InvParts
<1>6. QED
    BY <1>4, <1>5

-----------------------------------------------------------------------------
(* Symlinks, and the end.                                                  *)

\* The name of a symlink changes, which is no name of a file
\* (replace_with_symlink).
LEMMA SymlinkNameKeeps ==
    ASSUME IInv, pc \in {"clear", "symlink"}, NEW o, Sane(o), Put(EntryDir, E.name, o),
           UNCHANGED rigidEntry, UNCHANGED others, UNCHANGED <<inodes, handle, temp, first>>,
           failed \subseteq failed',
           \/ at' = at /\ pc' = "symlink" /\ restored' = restored
           \/ at' = at + 1 /\ pc' = "open" /\ restored' = restored \cup {at}
    PROVE  IInv'
<1>1. TypeOK /\ SuidOwned /\ HandleIsD /\ StepFits
    BY InvParts DEF StepInv
<1>2. /\ at \in DOMAIN script /\ E = script[at] /\ EntryDir = E.dir /\ E.dir \in {"T", "D"}
      /\ E.name \in FileNames /\ E.name \in Names /\ E.kind = "symlink" /\ temp \in Temps
    BY <1>1, EntryFacts DEF E, StepFits, TypeOK, ProgressType
<1>3. UNCHANGED <<script, asRoot, hardLinks, theirs, put, meddled>>
    BY DEF rigidEntry, others
<1>4. at \notin Files
    BY <1>2 DEF Files
<1>5. /\ DirsType'
      /\ \A e \in Dirs, m \in Names : e # E.dir \/ m # E.name => dirs'[e][m] = dirs[e][m]
    BY <1>1, <1>2, <1>3, PutKeeps
<1>6. ProgressType'
    BY <1>1, <1>2, <1>3, ContinueKeeps, NextKeeps DEF Steps
<1>7. TypeOK'
    BY <1>1, <1>3, <1>5, <1>6 DEF TypeOK, ScriptType, InodesType
<1>8. NamesInv'
    <2>1. ASSUME NEW k \in Files PROVE Object(k)' = Object(k)
        <3>1. script[k].dir # E.dir \/ script[k].name # E.name
            BY <1>1, <1>2, <1>4, SamePlace
        <3>2. QED
            BY <1>1, <1>3, <1>5, <3>1, FileFacts DEF Object
    <2>2. restored \subseteq restored' /\ restored' \cap Files = restored \cap Files
        BY <1>4
    <2>3. QED
        BY <1>3, <2>1, <2>2, AsideNames
<1>9. StepInv'
    <2>1. CASE pc' = "open"
        BY <2>1, Aside
    <2>2. CASE at' = at /\ pc' = "symlink"
        <3>1. E' = E
            BY <1>3, <2>2, SameEntry
        <3>2. QED
            BY <1>2, <2>2, <3>1 DEF StepInv, StepFits, TempKept, Fresh, Looked, TempMade, LinkPath
    <2>3. QED
        BY <2>1, <2>2
<1>10. SuidOwned' /\ HandleIsD'
    <2>1. dirs'["T"]["d"] = dirs["T"]["d"]
        BY <1>2, <1>5 DEF Dirs, Names, FileNames
    <2>2. QED
        BY <1>1, <1>3, <2>1 DEF SuidOwned, HandleIsD, OpenChild
<1>11. QED
    BY <1>7, <1>8, <1>9, <1>10, InvParts

\* What is there is removed first (replace_with_symlink).
LEMMA ClearNameKeeps ==
    ASSUME IInv, ClearName
    PROVE  IInv'
<1>1. /\ pc = "clear" /\ UNCHANGED rigidEntry /\ UNCHANGED others
      /\ UNCHANGED <<inodes, handle, temp, first>>
    BY DEF ClearName
<1>2. CASE Put(EntryDir, E.name, Nothing) /\ Continue("symlink")
    <2>1. Sane(Nothing)
        BY TheObjects DEF Sane, Nothing, Obj
    <2>2. QED
        BY <1>1, <1>2, <2>1, SymlinkNameKeeps DEF Continue
<1>3. CASE NextEntryIs(FALSE, TRUE) /\ UNCHANGED dirs
    <2>1. at' = at + 1 /\ pc' = "open" /\ restored' = restored /\ failed' = failed \cup {at}
        BY <1>3 DEF NextEntryIs
    <2>2. StepInv'
        BY <2>1, Aside
    <2>3. QED
        BY <1>1, <1>3, <2>1, <2>2, StillKeeps DEF Steps
<1>4. QED
    BY <1>2, <1>3 DEF ClearName

\* The symlink is made (restore_symlink).
LEMMA SymlinkKeeps ==
    ASSUME IInv, Symlink
    PROVE  IInv'
<1>1. /\ pc = "symlink" /\ UNCHANGED rigidEntry /\ UNCHANGED others
      /\ UNCHANGED <<inodes, handle, temp, first>>
    BY DEF Symlink
<1>2. CASE /\ Put(EntryDir, E.name, Obj("symlink", E.data, 0))
           /\ \E metaFails \in BOOLEAN : NextEntryIs(TRUE, metaFails)
    <2>1. E.data \in Data
        BY <1>1, EntryFacts, InvParts DEF ScriptEntries
    <2>2. Sane(Obj("symlink", E.data, 0))
        <3>1. Obj("symlink", E.data, 0) \in Objects
            BY <2>1, TheObjects
        <3>2. QED
            BY <3>1 DEF Sane, Obj
    <2>3. at' = at + 1 /\ pc' = "open" /\ restored' = restored \cup {at} /\ failed \subseteq failed'
        BY <1>2 DEF NextEntryIs
    <2>4. QED
        BY <1>1, <1>2, <2>2, <2>3, SymlinkNameKeeps
<1>3. CASE NextEntryIs(FALSE, TRUE) /\ UNCHANGED dirs
    <2>1. at' = at + 1 /\ pc' = "open" /\ restored' = restored /\ failed' = failed \cup {at}
        BY <1>3 DEF NextEntryIs
    <2>2. StepInv'
        BY <2>1, Aside
    <2>3. QED
        BY <1>1, <1>3, <2>1, <2>2, StillKeeps DEF Steps
<1>4. QED
    <2>1. (IF Faults THEN BOOLEAN ELSE {FALSE}) \subseteq BOOLEAN
        OBVIOUS
    <2>2. QED
        BY <1>2, <1>3, <2>1 DEF Symlink

\* The restore is killed and runs no destructor.
LEMMA KillKeeps ==
    ASSUME IInv, Kill
    PROVE  IInv'
<1>1. /\ UNCHANGED <<script, asRoot, hardLinks, dirs, inodes, at, handle, temp, first, restored, failed>>
      /\ UNCHANGED others /\ UNCHANGED <<theirs, put, meddled>> /\ pc' = "killed"
    BY DEF Kill, rigidEntry, others
<1>2. TypeOK /\ SuidOwned /\ HandleIsD
    BY InvParts
<1>3. ProgressType'
    BY <1>1, <1>2 DEF TypeOK, ProgressType, Steps
<1>4. TypeOK'
    BY <1>1, <1>2, <1>3 DEF TypeOK, ScriptType, DirsType, InodesType, Sane
<1>5. NamesInv'
    BY <1>1, ApartNames
<1>6. StepInv'
    BY <1>1, Aside
<1>7. SuidOwned' /\ HandleIsD'
    BY <1>1, <1>2 DEF SuidOwned, HandleIsD, OpenChild
<1>8. QED
    BY <1>4, <1>5, <1>6, <1>7, InvParts

-----------------------------------------------------------------------------
(* The other process.                                                      *)

\* What another process does to a name of the target.
LEMMA MeddleKeeps ==
    ASSUME IInv, NEW d \in {"T", "D"}, NEW n \in FileNames \cup {"d"},
           NEW o \in {ToOutside, Special, Regular(1)}, Meddle(d, n, o)
    PROVE  IInv'
<1>1. /\ UNCHANGED <<script, asRoot, hardLinks, inodes, at, pc, handle, temp, first, restored, failed>>
      /\ Put(d, n, o) /\ meddled' = meddled + 1
      /\ theirs' = [theirs EXCEPT ![d][n] = o] /\ put' = [put EXCEPT ![d][n] = @ \cup {o}]
      /\ raced' = IF pc = "rename" /\ d = EntryDir /\ n = E.name THEN raced \cup {<<d, n>>} ELSE raced
    BY DEF Meddle, rigidEntry
<1>2. /\ TypeOK /\ SuidOwned /\ FirstNamed /\ FirstKept /\ ExistingKept
      /\ StepFits /\ TempKept /\ Fresh /\ Looked
    BY InvParts DEF NamesInv, StepInv
<1>3. /\ d \in Dirs /\ d # "O" /\ "O" \in Dirs /\ n \in Names /\ n # "tmp" /\ o \in Objects
      /\ Len(inodes) \in Nat /\ Len(inodes) >= 2
    BY <1>2, TheObjects DEF Dirs, Names, FileNames, TypeOK, InodesType
<1>4. /\ o.kind \in {"symlink", "special", "file"}
      /\ o.kind = "file" => o.file = 1
      /\ o # Nothing
    BY DEF ToOutside, Special, Regular, Nothing, Obj
<1>5. Sane(o)
    BY <1>3, <1>4 DEF Sane
<1>6. meddled' # 0 /\ meddled' \in Nat
    BY <1>1, <1>2 DEF TypeOK, ProgressType
<1>7. E' = E /\ EntryDir' = EntryDir
    BY <1>1, SameEntry
<1>8. /\ dirs' \in [Dirs -> [Names -> Objects]] /\ dirs'[d][n] = o
      /\ \A e \in Dirs, m \in Names : e # d \/ m # n => dirs'[e][m] = dirs[e][m]
      /\ \A e \in Dirs : e # d => dirs'[e] = dirs[e]
    BY <1>1, <1>2, <1>3, PutEffect DEF Put, TypeOK, DirsType
<1>9. /\ theirs' \in [Dirs -> [Names -> Objects]] /\ theirs'[d][n] = o
      /\ \A e \in Dirs, m \in Names : e # d \/ m # n => theirs'[e][m] = theirs[e][m]
      /\ \A e \in Dirs : e # d => theirs'[e] = theirs[e]
    BY <1>1, <1>2, <1>3, PutEffect DEF TypeOK, DirsType
<1>10. /\ put' \in [Dirs -> [Names -> SUBSET Objects]] /\ put'[d][n] = put[d][n] \cup {o}
       /\ \A e \in Dirs, m \in Names : e # d \/ m # n => put'[e][m] = put[e][m]
    <2>1. put \in [Dirs -> [Names -> SUBSET Objects]]
        BY <1>2 DEF TypeOK, DirsType
    <2>2. QED
        BY <1>1, <1>3, <2>1
<1>11. DirsType'
    <2>1. ASSUME NEW e \in Dirs, NEW m \in Names
          PROVE  Sane(dirs[e][m])' /\ \A q \in put'[e][m] : q \in {ToOutside, Special, Regular(1)}
        <3>1. Sane(dirs[e][m]) /\ \A q \in put[e][m] : q \in {ToOutside, Special, Regular(1)}
            BY <1>2 DEF TypeOK, DirsType
        <3>2. dirs'[e][m] \in {o, dirs[e][m]} /\ put'[e][m] \subseteq put[e][m] \cup {o}
            BY <1>8, <1>10
        <3>3. QED
            BY <1>1, <1>5, <3>1, <3>2 DEF Sane
    <2>2. dirs'["O"] = theirs'["O"]
        BY <1>2, <1>3, <1>8, <1>9 DEF TypeOK, DirsType
    <2>3. QED
        BY <1>8, <1>9, <1>10, <2>1, <2>2 DEF DirsType
<1>12. TypeOK'
    BY <1>1, <1>2, <1>6, <1>7, <1>11 DEF TypeOK, ScriptType, InodesType, ProgressType
<1>13. Files' = Files /\ \A k : SameKey(k)' = SameKey(k)
    BY <1>1, Steady
<1>14. \A k \in Files : EverPut(k) \subseteq EverPut(k)'
    <2>1. ASSUME NEW k \in Files PROVE EverPut(k) \subseteq EverPut(k)'
        <3>1. script[k].dir \in Dirs /\ script[k].name \in Names
            BY <1>2, FileFacts
        <3>2. QED
            BY <1>1, <1>10, <3>1 DEF EverPut
    <2>2. QED
        BY <2>1
<1>15. \A k, q : /\ Linked(k, q) => Linked(k, q)'
                 /\ ContentOf(k, q)' <=> ContentOf(k, q)
    BY <1>1, <1>13, <1>14 DEF Linked, ContentOf, SameKey
<1>16. FirstNamed'
    BY <1>1, <1>2, <1>13 DEF FirstNamed
<1>17. FirstKept'
    <2>1. ASSUME NEW k \in Files, NEW key \in DOMAIN first, key = script[k].key
          PROVE  ContentOf(k, FirstOf(key))' \/ Linked(k, FirstOf(key))'
        <3>1. PICK l \in restored \cap Files :
                /\ key # 0 /\ script[l].key = key
                /\ first[key].dir = script[l].dir /\ first[key].name = script[l].name
            BY <1>2, FirstFacts
        <3>2. l \in SameKey(k) /\ script[l].dir \in Dirs /\ script[l].name \in Names
            BY <1>2, <2>1, <3>1, FileFacts DEF SameKey, OneFile
        <3>3. CASE script[l].dir = d /\ script[l].name = n
            <4>1. FirstOf(key)' = o /\ o \in EverPut(l)'
                BY <1>1, <1>8, <1>10, <3>1, <3>3 DEF FirstOf, EverPut
            <4>2. QED
                BY <1>13, <3>2, <4>1 DEF Linked
        <3>4. CASE script[l].dir # d \/ script[l].name # n
            <4>1. FirstOf(key)' = FirstOf(key)
                BY <1>1, <1>8, <3>1, <3>2, <3>4 DEF FirstOf
            <4>2. ContentOf(k, FirstOf(key)) \/ Linked(k, FirstOf(key))
                BY <1>2, <2>1 DEF FirstKept
            <4>3. \A q : q = FirstOf(key) => ContentOf(k, q)' \/ Linked(k, q)'
                BY <1>15, <4>2
            <4>4. QED
                BY <4>1, <4>3 DEF ContentOf, Linked
        <3>5. QED
            BY <3>3, <3>4
    <2>2. QED
        BY <1>1, <1>13, <2>1 DEF FirstKept
<1>18. ExistingKept'
    <2>1. ASSUME NEW k \in Files PROVE
              \/ Object(k)' = Theirs(k)'
              \/ /\ \E l \in CountedFor(k)' : ContentOf(l, Object(k))' \/ Linked(l, Object(k))'
                 /\ Theirs(k)'.kind \in {"dir", "symlink", "special"} => PlaceOf(script[k]) \in raced'
        <3>1. script[k].dir \in Dirs /\ script[k].name \in Names
            BY <1>2, FileFacts
        <3>2. CASE script[k].dir = d /\ script[k].name = n
            BY <1>1, <1>8, <1>9, <3>2 DEF Object, Theirs
        <3>3. CASE script[k].dir # d \/ script[k].name # n
            <4>1. Object(k)' = Object(k) /\ Theirs(k)' = Theirs(k)
                BY <1>1, <1>8, <1>9, <3>1, <3>3 DEF Object, Theirs
            <4>2. CountedFor(k)' = CountedFor(k) /\ raced \subseteq raced'
                BY <1>1 DEF CountedFor
            <4>3. \A l, q : q = Object(k) /\ (ContentOf(l, q) \/ Linked(l, q))
                              => (ContentOf(l, Object(k)) \/ Linked(l, Object(k)))'
                <5>1. \A l, q : ContentOf(l, q) \/ Linked(l, q) => ContentOf(l, q)' \/ Linked(l, q)'
                    BY <1>15
                <5>2. QED
                    BY <4>1, <5>1 DEF ContentOf, Linked
            <4>4. QED
                BY <1>2, <4>1, <4>2, <4>3 DEF ExistingKept
        <3>4. QED
            BY <3>2, <3>3
    <2>2. QED
        BY <1>1, <1>13, <2>1 DEF ExistingKept
<1>19. NamesInv'
    BY <1>6, <1>16, <1>17, <1>18 DEF NamesInv, NamesMade, AsFirst
<1>20. StepFits'
    <2>1. ASSUME pc = "linkOver" PROVE Dest' # Nothing
        <3>1. E.dir \in Dirs /\ EntryDir = E.dir /\ E.name \in Names
            BY <1>2, <2>1, EntryFacts
        <3>2. Dest' \in {o, Dest}
            BY <1>7, <1>8, <3>1 DEF Dest
        <3>3. QED
            BY <1>2, <1>4, <2>1, <3>2 DEF StepFits
    <2>2. QED
        BY <1>1, <1>2, <1>7, <2>1 DEF StepFits
<1>21. TempKept'
    <2>1. ASSUME pc \in {"write", "meta", "commit", "rename"}
          PROVE  (dirs[EntryDir]["tmp"])' = dirs[EntryDir]["tmp"]
        <3>1. EntryDir \in Dirs /\ "tmp" \in Names
            BY <1>2, <2>1, EntryFacts DEF Names
        <3>2. QED
            BY <1>3, <1>7, <1>8, <3>1
    <2>2. ASSUME pc \in {"commit", "rename"}, temp.link
          PROVE  (ContentOf(at, dirs[EntryDir]["tmp"]) \/ Linked(at, dirs[EntryDir]["tmp"]))'
        <3>1. ContentOf(at, dirs[EntryDir]["tmp"]) \/ Linked(at, dirs[EntryDir]["tmp"])
            BY <1>2, <2>2 DEF TempKept
        <3>2. \A k, q : k = at /\ q = dirs[EntryDir]["tmp"] => ContentOf(k, q)' \/ Linked(k, q)'
            BY <1>15, <3>1
        <3>3. QED
            BY <1>1, <2>1, <2>2, <3>2 DEF ContentOf, Linked
    <2>3. QED
        BY <1>1, <1>2, <1>7, <2>1, <2>2 DEF TempKept
<1>22. Fresh'
    <2>1. ASSUME pc \in {"write", "meta"}, NEW e \in Dirs, NEW m \in Names \ {"tmp"}, dirs'[e][m].kind = "file"
          PROVE  dirs'[e][m].file < Len(inodes)
        <3>1. Len(inodes) >= 3
            BY <1>2, <2>1 DEF TempKept
        <3>2. dirs'[e][m] \in {o, dirs[e][m]}
            BY <1>8
        <3>3. QED
            BY <1>2, <1>3, <1>4, <2>1, <3>1, <3>2 DEF Fresh
    <2>2. QED
        BY <1>1, <2>1 DEF Fresh
<1>23. Looked'
    <2>1. ASSUME pc = "rename", theirs'[EntryDir][E.name].kind \in {"dir", "symlink", "special"}
          PROVE  PlaceOf(E) \in raced'
        <3>1. EntryDir = E.dir /\ EntryDir \in Dirs /\ E.name \in Names
            BY <1>2, <2>1, EntryFacts
        <3>2. CASE d = EntryDir /\ n = E.name
            BY <1>1, <2>1, <3>1, <3>2 DEF PlaceOf
        <3>3. CASE d # EntryDir \/ n # E.name
            BY <1>1, <1>2, <1>9, <2>1, <3>1, <3>3 DEF Looked
        <3>4. QED
            BY <3>2, <3>3
    <2>2. QED
        BY <1>1, <1>7, <2>1 DEF Looked
<1>24. TempMade' /\ LinkPath' /\ HandleIsD'
    BY <1>6 DEF TempMade, LinkPath, HandleIsD
<1>25. SuidOwned'
    BY <1>1, <1>2 DEF SuidOwned
<1>26. QED
    BY <1>12, <1>19, <1>20, <1>21, <1>22, <1>23, <1>24, <1>25, InvParts DEF StepInv

-----------------------------------------------------------------------------
(* Every state.                                                            *)

\* A step of the restore or of the others keeps the invariant.
LEMMA NextHolds == IInv /\ [EntryNext]_entryVars => IInv'
<1> SUFFICES ASSUME IInv, [EntryNext]_entryVars PROVE IInv'
    OBVIOUS
<1>1. CASE Open
    BY <1>1, OpenKeeps
<1>2. CASE Dispatch
    BY <1>2, DispatchKeeps
<1>3. CASE LinkFirst
    BY <1>3, LinkFirstKeeps
<1>4. CASE LinkOver
    BY <1>4, LinkOverKeeps
<1>5. CASE Look
    BY <1>5, LookKeeps
<1>6. CASE Create
    BY <1>6, CreateKeeps
<1>7. CASE Write
    BY <1>7, WriteKeeps
<1>8. CASE Meta
    BY <1>8, MetaKeeps
<1>9. CASE Commit
    BY <1>9, CommitKeeps
<1>10. CASE Rename
    BY <1>10, RenameKeeps
<1>11. CASE ClearName
    BY <1>11, ClearNameKeeps
<1>12. CASE Symlink
    BY <1>12, SymlinkKeeps
<1>13. CASE Kill
    BY <1>13, KillKeeps
<1>14. CASE SwapDir
    BY <1>14, MeddleKeeps DEF SwapDir
<1>15. CASE Plant
    <2>1. PICK k \in DOMAIN script, o \in {ToOutside, Special, Regular(1)} :
            Meddle(script[k].dir, script[k].name, o)
        BY <1>15 DEF Plant
    <2>2. script[k].dir \in {"T", "D"} /\ script[k].name \in FileNames
        BY ScriptFacts, InvParts DEF TypeOK, ScriptEntries, FileNames
    <2>3. QED
        BY <2>1, <2>2, MeddleKeeps
<1>16. CASE UNCHANGED entryVars
    <2>1. UNCHANGED <<script, asRoot, hardLinks, dirs, inodes, at, pc, handle, temp, first, restored, failed,
                      theirs, put, raced, meddled>>
        BY <1>16 DEF entryVars
    <2>2. E' = E /\ EntryDir' = EntryDir /\ Dest' = Dest
        BY <2>1, SameEntry
    <2>3. Files' = Files /\ (\A k : SameKey(k)' = SameKey(k)) /\ (\A k : Object(k)' = Object(k))
          /\ (\A k : Theirs(k)' = Theirs(k)) /\ (\A k, q : Linked(k, q)' <=> Linked(k, q))
        BY <2>1, Steady DEF Object
    <2>4. NamesInv'
        BY <2>1, ApartNames DEF others
    <2>5. TypeOK' /\ SuidOwned' /\ HandleIsD'
        BY <2>1, <2>2, InvParts DEF TypeOK, ScriptType, DirsType, InodesType, ProgressType, Sane,
           SuidOwned, HandleIsD, OpenChild
    <2>6. StepFits' /\ Fresh' /\ Looked' /\ LinkPath'
        BY <2>1, <2>2, InvParts DEF StepInv, StepFits, Fresh, Looked, LinkPath, FirstOf, InTheWay
    <2>7. TempKept' /\ TempMade'
        BY <2>1, <2>2, InvParts DEF StepInv, TempKept, TempMade, ContentOf, Linked, EverPut, MadeFor, MadeBy,
           Settled, SameKey, Files, OneFile
    <2>8. QED
        BY <2>4, <2>5, <2>6, <2>7, InvParts DEF StepInv
<1>17. QED
    BY <1>1, <1>2, <1>3, <1>4, <1>5, <1>6, <1>7, <1>8, <1>9, <1>10, <1>11, <1>12, <1>13, <1>14, <1>15,
       <1>16 DEF EntryNext

\* What holds in every state of a restore, whatever the others do and
\* whichever calls fail (Repository::restore).
THEOREM EntryInvariance == EntrySpec => []IInv
<1>1. EntryInit => IInv
    BY InitHolds
<1>2. IInv /\ [EntryNext]_entryVars => IInv'
    BY NextHolds
<1>3. QED
    BY <1>1, <1>2, PTL DEF EntrySpec

\* Nothing outside of the target changes (DirHandle, O_NOFOLLOW).
THEOREM OutsideStays == EntrySpec => []OutsideUntouched
<1>1. IInv => OutsideUntouched
    BY DEF IInv, SafetyInv, TypeOK, DirsType, InodesType, OutsideUntouched
<1>2. QED
    BY <1>1, EntryInvariance, PTL

\* A name has what the others put there or a whole file, and what is not a
\* regular file stays (TempPath::commit, refuse_in_the_way).
THEOREM NeverHalf == EntrySpec => []ExistingKept
<1>1. IInv => ExistingKept
    BY DEF IInv, SafetyInv
<1>2. QED
    BY <1>1, EntryInvariance, PTL

\* Setuid comes with the owner (apply_meta).
THEOREM SetuidSafe == EntrySpec => []SetuidWithOwner
<1>1. ASSUME IInv PROVE SetuidWithOwner
    <2>1. TypeOK /\ SuidOwned /\ NamesMade
        BY <1>1 DEF IInv, SafetyInv, QuietInv
    <2>2. ASSUME NEW k \in restored \cap Files, Object(k).kind = "file"
          PROVE  /\ inodes[Object(k).file].suid /\ asRoot => inodes[Object(k).file].owned
                 /\ SameKey(k) \cup {k} \subseteq restored \ failed /\ meddled = 0
                    /\ (asRoot => script[k].owner)
                       => inodes[Object(k).file].suid = script[k].suid
        <3>1. Object(k).file \in 1 .. Len(inodes)
            BY <2>1, <2>2, FileFacts DEF Sane
        <3>2. inodes[Object(k).file].suid /\ asRoot => inodes[Object(k).file].owned
            BY <2>1, <3>1 DEF SuidOwned
        <3>3. ASSUME SameKey(k) \cup {k} \subseteq restored \ failed, meddled = 0,
                     asRoot => script[k].owner
              PROVE  inodes[Object(k).file].suid = script[k].suid
            <4>1. PICK l \in restored \cap ({k} \cup SameKey(k)) : MadeBy(l, Object(k))
                BY <2>1, <2>2, <3>3 DEF NamesMade, MadeFor
            <4>2. script[l].suid = script[k].suid /\ script[l].owner = script[k].owner /\ l \notin failed
                BY <2>1, <3>3, <4>1, KinFacts
            <4>3. QED
                BY <3>3, <4>1, <4>2 DEF MadeBy, Settled
        <3>4. QED
            BY <3>2, <3>3
    <2>3. QED
        BY <2>2 DEF SetuidWithOwner
<1>2. QED
    BY <1>1, EntryInvariance, PTL

\* Names that were one file are one file again (link_to_first, link_over).
THEOREM LinksRestored == EntrySpec => []LinkedTogether
<1>1. IInv => LinkedTogether
    BY DEF IInv, QuietInv, AsFirst, LinkedTogether, OneFile
<1>2. QED
    BY <1>1, EntryInvariance, PTL
-----------------------------------------------------------------------------
(* Induction over an interval of natural numbers, on a set. *)
LEMMA UpTo ==
    ASSUME NEW n \in Nat, NEW P, 0 \in P, \A i \in 0 .. n - 1 : i \in P => i + 1 \in P
    PROVE  \A i \in 0 .. n : i \in P
<1> DEFINE Bad == {i \in 0 .. n : i \notin P}
<1> SUFFICES ASSUME Bad # {} PROVE FALSE
  OBVIOUS
<1>1. PICK x \in Bad : \A y \in Bad : ~ (<<y, x>> \in OpToRel(<, Nat))
  <2>1. Bad \subseteq Nat
    OBVIOUS
  <2>2. IsWellFoundedOn(OpToRel(<, Nat), Nat)
    BY NatLessThanWellFounded
  <2> HIDE DEF Bad
  <2> QED
    BY <2>1, <2>2, WFMin
<1>2. x \in 0 .. n /\ x # 0 /\ x \notin P
  OBVIOUS
<1>3. x - 1 \notin Bad
  <2>1. x \in Nat /\ x - 1 \in Nat /\ x - 1 < x
    BY <1>2
  <2>2. <<x - 1, x>> \in Nat \X Nat
    BY <2>1
  <2>3. <<x - 1, x>> \in OpToRel(<, Nat)
    BY <2>1, <2>2 DEF OpToRel
  <2> HIDE DEF Bad
  <2> QED
    BY <1>1, <2>3
<1>4. x - 1 \in P /\ x - 1 \in 0 .. n - 1
  BY <1>2, <1>3
<1> QED
  BY <1>2, <1>4

(* A recursive function over 0 .. n. *)

(* A recursive function over 0 .. n. *)
Recursion(g, St, n, base, step) ==
    /\ g \in [0 .. n -> St]
    /\ \A i \in 0 .. n : g[i] = IF i = 0 THEN base ELSE step[<<g[i - 1], i>>]

(* There is one. *)
LEMMA RecursionExists ==
    ASSUME NEW St, NEW n \in Nat, NEW base \in St, NEW step \in [St \X (1 .. n) -> St]
    PROVE  \E g : Recursion(g, St, n, base, step)
<1> DEFINE Obeys(g, m) ==
              /\ g \in [0 .. m -> St]
              /\ \A i \in 0 .. m : g[i] = IF i = 0 THEN base ELSE step[<<g[i - 1], i>>]
           P == {m \in 0 .. n : \E g : Obeys(g, m)}
<1>1. 0 \in P
  <2>1. Obeys([i \in 0 .. 0 |-> base], 0)
    OBVIOUS
  <2> HIDE DEF Obeys
  <2> QED
    BY <2>1
<1>2. ASSUME NEW m \in 0 .. n - 1, m \in P PROVE m + 1 \in P
  <2>1. PICK g : Obeys(g, m)
    BY <1>2
  <2> DEFINE h == [i \in 0 .. m + 1 |-> IF i = m + 1 THEN step[<<g[m], i>>] ELSE g[i]]
  <2>2. ASSUME NEW i \in 0 .. m PROVE h[i] = g[i]
    OBVIOUS
  <2>3. h \in [0 .. m + 1 -> St]
    BY <2>1
  <2>4. \A i \in 0 .. m + 1 : h[i] = IF i = 0 THEN base ELSE step[<<h[i - 1], i>>]
    <3> SUFFICES ASSUME NEW i \in 0 .. m + 1
                 PROVE  h[i] = IF i = 0 THEN base ELSE step[<<h[i - 1], i>>]
      OBVIOUS
    <3>1. CASE i = 0
      <4>0. 0 \in 0 .. m
        OBVIOUS
      <4>1. g[0] = base
        BY <2>1, <4>0
      <4> HIDE DEF h
      <4> QED
        BY <2>2, <3>1, <4>0, <4>1
    <3>2. CASE i # 0
      <4>1. h[i - 1] = g[i - 1]
        <5>1. i - 1 \in 0 .. m
          BY <3>2
        <5> HIDE DEF h
        <5> QED
          BY <2>2, <5>1
      <4> QED
        BY <2>1, <3>2, <4>1
    <3> QED
      BY <3>1, <3>2
  <2>5. Obeys(h, m + 1)
    BY <2>3, <2>4
  <2> HIDE DEF Obeys, h
  <2> QED
    BY <2>5
<1>3. n \in P
  <2> HIDE DEF P
  <2> QED
    BY <1>1, <1>2, UpTo
<1>4. PICK g : Obeys(g, n)
  BY <1>3
<1> QED
  BY <1>4 DEF Recursion

-----------------------------------------------------------------------------

(* What a list is made of. *)
LEMMA ListFacts ==
    ASSUME NEW s, IsList(s)
    PROVE  /\ Len(s) \in Nat /\ DOMAIN s = 1 .. Len(s)
           /\ \A k \in DOMAIN s : s[k] \in ToSet(s)
           /\ \A x \in ToSet(s) : \E k \in DOMAIN s : x = s[k]
<1>1. s \in Seq(ToSet(s))
  BY DEF IsList
<1>2. Len(s) \in Nat /\ DOMAIN s = 1 .. Len(s)
  BY <1>1
<1> QED
  BY <1>2 DEF ToSet

(* A sequence of any set is a list. *)
LEMMA SeqIsList ==
    ASSUME NEW S, NEW s \in Seq(S)
    PROVE  IsList(s)
<1>1. s \in [1 .. Len(s) -> ToSet(s)] /\ Len(s) \in Nat
  BY DEF ToSet
<1> QED
  BY <1>1, SeqDef DEF IsList

(* Appending to a list. *)
LEMMA ListAppend ==
    ASSUME NEW s, NEW x, IsList(s)
    PROVE  /\ IsList(Append(s, x)) /\ Len(Append(s, x)) = Len(s) + 1
           /\ \A k \in 1 .. Len(s) : Append(s, x)[k] = s[k]
           /\ Append(s, x)[Len(s) + 1] = x
<1>1. s \in Seq(ToSet(s))
  BY DEF IsList
<1>2. s \in Seq(ToSet(s) \cup {x})
  BY <1>1, SeqMonotonic
<1>3. Append(s, x) \in Seq(ToSet(s) \cup {x})
  BY <1>2
<1>4. IsList(Append(s, x))
  BY <1>3, SeqIsList
<1> QED
  BY <1>2, <1>4

(* All but the last of a list. *)
LEMMA ListFront ==
    ASSUME NEW s, IsList(s), s # <<>>
    PROVE  /\ IsList(Front(s)) /\ Len(Front(s)) = Len(s) - 1
           /\ \A k \in 1 .. Len(s) - 1 : Front(s)[k] = s[k]
<1>1. s \in Seq(ToSet(s))
  BY DEF IsList
<1>2. Front(s) = SubSeq(s, 1, Len(s) - 1)
  BY DEF Front
<1>3. Len(s) >= 1
  BY <1>1
<1>4. /\ Front(s) \in Seq(ToSet(s)) /\ Len(Front(s)) = Len(s) - 1
      /\ \A k \in 1 .. Len(s) - 1 : Front(s)[k] = s[k]
  <2>1. 1 \in Int /\ Len(s) - 1 \in Int /\ \A i \in 1 .. Len(s) - 1 : s[i] \in ToSet(s)
    BY <1>1, <1>3
  <2>2. /\ SubSeq(s, 1, Len(s) - 1) \in Seq(ToSet(s))
        /\ Len(SubSeq(s, 1, Len(s) - 1)) = IF 1 <= Len(s) - 1 THEN Len(s) - 1 - 1 + 1 ELSE 0
        /\ \A i \in 1 .. Len(s) - 1 - 1 + 1 : SubSeq(s, 1, Len(s) - 1)[i] = s[1 + i - 1]
    BY <2>1, SubSeqProperties
  <2> QED
    <3>1. Len(s) \in Nat /\ Len(s) - 1 - 1 + 1 = Len(s) - 1 /\ \A i \in Nat : 1 + i - 1 = i
      BY <1>1
    <3> QED
      BY <1>2, <1>3, <2>2, <3>1
<1>5. IsList(Front(s))
  BY <1>4, SeqIsList
<1> QED
  BY <1>4, <1>5

(* All but the first of a list. *)
LEMMA ListTail ==
    ASSUME NEW s, IsList(s), s # <<>>
    PROVE  /\ IsList(Tail(s)) /\ ToSet(Tail(s)) \subseteq ToSet(s)
           /\ Head(s) \in ToSet(s)
<1>1. s \in Seq(ToSet(s))
  BY DEF IsList
<1>2. Tail(s) \in Seq(ToSet(s)) /\ Head(s) \in ToSet(s)
  BY <1>1
<1>3. IsList(Tail(s))
  BY <1>2, SeqIsList
<1>4. \A k \in DOMAIN Tail(s) : Tail(s)[k] \in ToSet(s)
  BY <1>2
<1> QED
  BY <1>2, <1>3, <1>4 DEF ToSet

(* Another value in the place of one. *)
LEMMA ListExcept ==
    ASSUME NEW s, NEW i, NEW x, IsList(s)
    PROVE  IsList([s EXCEPT ![i] = x])
<1>1. s \in Seq(ToSet(s))
  BY DEF IsList
<1>2. s \in [1 .. Len(s) -> ToSet(s) \cup {x}] /\ Len(s) \in Nat
  BY <1>1
<1>3. [s EXCEPT ![i] = x] \in [1 .. Len(s) -> ToSet(s) \cup {x}]
  BY <1>2
<1>4. [s EXCEPT ![i] = x] \in Seq(ToSet(s) \cup {x})
  BY <1>2, <1>3, SeqDef
<1> QED
  BY <1>4, SeqIsList
-----------------------------------------------------------------------------
Recorded == {"none", "open", "readonly"}

(* Entries that a walk may be given. *)
GoodEntries(es) ==
    /\ IsList(es)
    /\ \A e \in ToSet(es) : e.mode \in Recorded /\ (e.kind = "dir" => e.sub \in DOMAIN snapshot.trees)

(* The level l with this of what ensuring changes. *)
LevelWith(l, h, p, u, c) ==
    [path |-> l.path, todo |-> l.todo, pos |-> l.pos, isDir |-> l.isDir, recorded |-> l.recorded,
     handle |-> h, prepared |-> p, loosened |-> u, createFailed |-> c]

(* A level of the restore: only one that is made, and whose mode will be   *)
(* put on it, has been loosened.                                           *)
IsLevel(l) ==
    /\ l = LevelWith(l, l.handle, l.prepared, l.loosened, l.createFailed)
    /\ l.recorded \in Recorded
    /\ l.handle \in BOOLEAN /\ l.prepared \in BOOLEAN /\ l.loosened \in BOOLEAN
    /\ l.loosened => l.handle /\ l.recorded # "none"
    /\ l.recorded # "none" => l.isDir

Levels(levels) ==
    /\ IsList(levels)
    /\ \A k \in DOMAIN levels : IsLevel(levels[k]) /\ GoodEntries(levels[k].todo) /\ IsList(levels[k].path)

(* A level that is made has all above it made and prepared. *)
Chained(levels) ==
    \A j, k \in DOMAIN levels : j < k /\ levels[k].handle => levels[j].handle /\ levels[j].prepared

(* What is loosened is a level that knows of it. *)
Held(levels, modes) ==
    \A p \in DOMAIN modes : modes[p] = "loosened" =>
        \E k \in DOMAIN levels : levels[k].path = p /\ levels[k].loosened

(* What ensuring does not change of the levels. *)
SameLevels(levels, next) ==
    /\ DOMAIN next = DOMAIN levels
    /\ \A k \in DOMAIN levels :
          /\ next[k].path = levels[k].path /\ next[k].recorded = levels[k].recorded
          /\ next[k].todo = levels[k].todo /\ next[k].isDir = levels[k].isDir
          /\ next[k].pos = levels[k].pos
          /\ levels[k].loosened => next[k].loosened
          /\ levels[k].prepared => next[k].loosened = levels[k].loosened

(* Where an attempt is after the levels 1 .. k. *)
After(levels, a, k) ==
    /\ Levels(a.levels) /\ Chained(a.levels) /\ Held(a.levels, a.modes)
    /\ SameLevels(levels, a.levels)
    /\ \A j \in DOMAIN levels : j > k => a.levels[j] = levels[j]
    /\ a.ok \in BOOLEAN
    /\ a.ok => \A j \in 1 .. k : a.levels[j].handle /\ (j < Len(levels) => a.levels[j].prepared)
    /\ ~a.ok => \E j \in 1 .. k : ~levels[j].handle /\ ~a.levels[j].handle
    /\ a = Attempt(a.levels, a.modes, a.ok)

(* A level with another createFailed. *)
LEMMA ExceptFailed ==
    ASSUME NEW l, IsLevel(l), NEW c1
    PROVE  [l EXCEPT !.createFailed = c1] = LevelWith(l, l.handle, l.prepared, l.loosened, c1)
<1>0. PICK p, t, o, i, r, h, f, u, c : l = [path |-> p, todo |-> t, pos |-> o, isDir |-> i, recorded |-> r, handle |-> h,
              prepared |-> f, loosened |-> u, createFailed |-> c]
  <2>1. l = LevelWith(l, l.handle, l.prepared, l.loosened, l.createFailed)
    BY DEF IsLevel
  <2> QED
    BY <2>1 DEF LevelWith
<1>2. /\ l.path = p /\ l.todo = t /\ l.pos = o /\ l.isDir = i /\ l.recorded = r /\ l.handle = h
      /\ l.prepared = f /\ l.loosened = u /\ l.createFailed = c
  BY <1>0
<1>1. [l EXCEPT !.createFailed = c1]
      = [path |-> p, todo |-> t, pos |-> o, isDir |-> i, recorded |-> r, handle |-> h,
              prepared |-> f, loosened |-> u, createFailed |-> c1]
  BY <1>0
<1> QED
  BY <1>2, <1>1 DEF LevelWith

(* A level with another handle. *)
LEMMA ExceptHandle ==
    ASSUME NEW l, IsLevel(l), NEW h1, NEW c1
    PROVE  [l EXCEPT !.handle = h1, !.createFailed = c1]
               = LevelWith(l, h1, l.prepared, l.loosened, c1)
<1>0. PICK p, t, o, i, r, h, f, u, c : l = [path |-> p, todo |-> t, pos |-> o, isDir |-> i, recorded |-> r, handle |-> h,
              prepared |-> f, loosened |-> u, createFailed |-> c]
  <2>1. l = LevelWith(l, l.handle, l.prepared, l.loosened, l.createFailed)
    BY DEF IsLevel
  <2> QED
    BY <2>1 DEF LevelWith
<1>4. /\ l.path = p /\ l.todo = t /\ l.pos = o /\ l.isDir = i /\ l.recorded = r /\ l.handle = h
      /\ l.prepared = f /\ l.loosened = u /\ l.createFailed = c
  BY <1>0
<1>1. [l EXCEPT !.handle = h1, !.createFailed = c1]
      = [[l EXCEPT !.handle = h1] EXCEPT !.createFailed = c1]
  OBVIOUS
<1>2. [l EXCEPT !.handle = h1]
      = [path |-> p, todo |-> t, pos |-> o, isDir |-> i, recorded |-> r, handle |-> h1,
              prepared |-> f, loosened |-> u, createFailed |-> c]
  BY <1>0
<1>3. [[path |-> p, todo |-> t, pos |-> o, isDir |-> i, recorded |-> r, handle |-> h1,
              prepared |-> f, loosened |-> u, createFailed |-> c] EXCEPT !.createFailed = c1]
      = [path |-> p, todo |-> t, pos |-> o, isDir |-> i, recorded |-> r, handle |-> h1,
              prepared |-> f, loosened |-> u, createFailed |-> c1]
  BY <1>0
<1> QED
  BY <1>4, <1>1, <1>2, <1>3 DEF LevelWith

(* A level that has been prepared. *)
LEMMA ExceptPrepared ==
    ASSUME NEW l, IsLevel(l), NEW h1, NEW c1, NEW f1, NEW u1
    PROVE  [l EXCEPT !.handle = h1, !.createFailed = c1, !.prepared = f1, !.loosened = u1]
               = LevelWith(l, h1, f1, u1, c1)
<1>0. PICK p, t, o, i, r, h, f, u, c : l = [path |-> p, todo |-> t, pos |-> o, isDir |-> i, recorded |-> r, handle |-> h,
              prepared |-> f, loosened |-> u, createFailed |-> c]
  <2>1. l = LevelWith(l, l.handle, l.prepared, l.loosened, l.createFailed)
    BY DEF IsLevel
  <2> QED
    BY <2>1 DEF LevelWith
<1>6. /\ l.path = p /\ l.todo = t /\ l.pos = o /\ l.isDir = i /\ l.recorded = r /\ l.handle = h
      /\ l.prepared = f /\ l.loosened = u /\ l.createFailed = c
  BY <1>0
<1>1. [l EXCEPT !.handle = h1, !.createFailed = c1, !.prepared = f1, !.loosened = u1]
      = [[[[l EXCEPT !.handle = h1] EXCEPT !.createFailed = c1] EXCEPT !.prepared = f1] EXCEPT !.loosened = u1]
  OBVIOUS
<1>2. [l EXCEPT !.handle = h1]
      = [path |-> p, todo |-> t, pos |-> o, isDir |-> i, recorded |-> r, handle |-> h1,
              prepared |-> f, loosened |-> u, createFailed |-> c]
  BY <1>0
<1>3. [[path |-> p, todo |-> t, pos |-> o, isDir |-> i, recorded |-> r, handle |-> h1,
              prepared |-> f, loosened |-> u, createFailed |-> c] EXCEPT !.createFailed = c1]
      = [path |-> p, todo |-> t, pos |-> o, isDir |-> i, recorded |-> r, handle |-> h1,
              prepared |-> f, loosened |-> u, createFailed |-> c1]
  BY <1>0
<1>4. [[path |-> p, todo |-> t, pos |-> o, isDir |-> i, recorded |-> r, handle |-> h1,
              prepared |-> f, loosened |-> u, createFailed |-> c1] EXCEPT !.prepared = f1]
      = [path |-> p, todo |-> t, pos |-> o, isDir |-> i, recorded |-> r, handle |-> h1,
              prepared |-> f1, loosened |-> u, createFailed |-> c1]
  BY <1>0
<1>5. [[path |-> p, todo |-> t, pos |-> o, isDir |-> i, recorded |-> r, handle |-> h1,
              prepared |-> f1, loosened |-> u, createFailed |-> c1] EXCEPT !.loosened = u1]
      = [path |-> p, todo |-> t, pos |-> o, isDir |-> i, recorded |-> r, handle |-> h1,
              prepared |-> f1, loosened |-> u1, createFailed |-> c1]
  BY <1>0
<1>7. [l EXCEPT !.handle = h1, !.createFailed = c1, !.prepared = f1, !.loosened = u1]
      = [path |-> p, todo |-> t, pos |-> o, isDir |-> i, recorded |-> r, handle |-> h1,
              prepared |-> f1, loosened |-> u1, createFailed |-> c1]
  BY <1>1, <1>2, <1>3, <1>4, <1>5
<1> QED
  BY <1>6, <1>7 DEF LevelWith

(* A level with other entries. *)
LEMMA ExceptTodo ==
    ASSUME NEW l, IsLevel(l), NEW y
    PROVE  [l EXCEPT !.todo = y]
               = [path |-> l.path, todo |-> y, pos |-> l.pos, isDir |-> l.isDir,
                  recorded |-> l.recorded, handle |-> l.handle, prepared |-> l.prepared,
                  loosened |-> l.loosened, createFailed |-> l.createFailed]
<1>0. PICK p, t, o, i, r, h, f, u, c : l = [path |-> p, todo |-> t, pos |-> o, isDir |-> i, recorded |-> r, handle |-> h,
              prepared |-> f, loosened |-> u, createFailed |-> c]
  <2>1. l = LevelWith(l, l.handle, l.prepared, l.loosened, l.createFailed)
    BY DEF IsLevel
  <2> QED
    BY <2>1 DEF LevelWith
<1>2. /\ l.path = p /\ l.todo = t /\ l.pos = o /\ l.isDir = i /\ l.recorded = r /\ l.handle = h
      /\ l.prepared = f /\ l.loosened = u /\ l.createFailed = c
  BY <1>0
<1>1. [l EXCEPT !.todo = y]
      = [path |-> p, todo |-> y, pos |-> o, isDir |-> i, recorded |-> r, handle |-> h,
              prepared |-> f, loosened |-> u, createFailed |-> c]
  BY <1>0
<1> QED
  BY <1>2, <1>1 DEF LevelWith

(* What ensuring one more level comes to. *)
LEMMA EnsureLevelHolds ==
    ASSUME NEW levels, NEW a, NEW k \in DOMAIN levels, NEW w \in BOOLEAN,
           Levels(levels), Chained(levels), After(levels, a, k - 1), k < Len(levels) => w
    PROVE  LET b == EnsureLevel(a, k, w)
           IN /\ After(levels, b, k)
              /\ ~w => b.levels[k].loosened = levels[k].loosened
<1> DEFINE level == a.levels[k]
           made == [p \in DOMAIN a.modes \cup (Prefixes(level.path) \ {<<>>}) |->
                       IF p \in DOMAIN a.modes THEN a.modes[p] ELSE "open"]
           prepared == [level EXCEPT !.handle = TRUE, !.createFailed = FALSE, !.prepared = TRUE,
                                     !.loosened = @ \/ Loosens(level, made)]
           loose == IF Loosens(level, made) THEN [made EXCEPT ![level.path] = "loosened"] ELSE made
           held == [level EXCEPT !.handle = TRUE, !.createFailed = FALSE]
           refused == [level EXCEPT !.createFailed = TRUE]
<1>1. /\ DOMAIN levels = 1 .. Len(levels) /\ Len(levels) \in Nat
      /\ DOMAIN a.levels = 1 .. Len(levels) /\ IsList(a.levels)
      /\ k \in 1 .. Len(levels) /\ k \in DOMAIN a.levels
      /\ level = levels[k] /\ IsLevel(level) /\ GoodEntries(level.todo) /\ IsList(level.path)
  <2>1. /\ IsList(levels) /\ IsList(a.levels) /\ DOMAIN a.levels = DOMAIN levels
        /\ a.levels[k] = levels[k]
        /\ IsLevel(levels[k]) /\ GoodEntries(levels[k].todo) /\ IsList(levels[k].path)
    <3>1. DOMAIN levels = 1 .. Len(levels) /\ Len(levels) \in Nat
      BY ListFacts DEF Levels
    <3>2. k > k - 1
      BY <3>1
    <3> QED
      BY <3>2 DEF After, SameLevels, Levels
  <2>2. DOMAIN levels = 1 .. Len(levels) /\ Len(levels) \in Nat
    BY <2>1, ListFacts
  <2> QED
    BY <2>1, <2>2
<1>2. /\ \A p \in DOMAIN made : made[p] = "loosened" => p \in DOMAIN a.modes /\ a.modes[p] = "loosened"
      /\ Held(a.levels, made)
  BY DEF After, Held
<1>3. CASE ~a.ok
  <2>1. EnsureLevel(a, k, w) = a
    BY <1>3 DEF EnsureLevel
  <2>2. After(levels, a, k)
    BY <1>1, <1>3 DEF After
  <2> QED
    BY <1>1, <2>1, <2>2
<1>4. CASE a.ok /\ ~level.handle /\ ~CanCreate(level, a.modes)
  <2> DEFINE ls == [a.levels EXCEPT ![k] = refused]
             b == Attempt(ls, a.modes, FALSE)
  <2>1. EnsureLevel(a, k, w) = b
    BY <1>4 DEF EnsureLevel
  <2>20. refused = LevelWith(level, level.handle, level.prepared, level.loosened, TRUE)
    BY <1>1, ExceptFailed, Zenon
  <2>2. IsLevel(refused) /\ refused.path = level.path /\ refused.pos = level.pos /\ refused.recorded = level.recorded
        /\ refused.todo = level.todo /\ refused.isDir = level.isDir /\ refused.handle = level.handle
        /\ refused.loosened = level.loosened /\ refused.prepared = level.prepared
    BY <1>1, <2>20 DEF IsLevel, LevelWith
  <2>3. IsList(ls) /\ DOMAIN ls = DOMAIN a.levels /\ ls[k] = refused
        /\ \A j \in DOMAIN ls : j # k => ls[j] = a.levels[j]
    BY <1>1, ListExcept
  <2>4. b.levels = ls /\ b.modes = a.modes /\ b.ok = FALSE /\ b = Attempt(b.levels, b.modes, b.ok)
    BY DEF Attempt
  <2> HIDE DEF refused, ls, b, level
  <2>5. Levels(ls)
    BY <1>1, <2>2, <2>3 DEF Levels, After
  <2>6. Chained(ls)
    <3>1. Chained(a.levels)
      BY DEF After
    <3>2. \A j \in DOMAIN ls : /\ j \in DOMAIN a.levels /\ ls[j].handle = a.levels[j].handle
                              /\ ls[j].prepared = a.levels[j].prepared
      BY <1>1, <2>2, <2>3 DEF level
    <3> QED
      BY <3>1, <3>2 DEF Chained
  <2>7. Held(ls, a.modes)
    BY <1>1, <2>2, <2>3 DEF Held, After
  <2>8. SameLevels(levels, ls)
    BY <1>1, <2>2, <2>3 DEF SameLevels, After
  <2>9. \A j \in DOMAIN levels : j > k => ls[j] = levels[j]
    BY <1>1, <2>3 DEF After
  <2>10. \E j \in 1 .. k : ~levels[j].handle /\ ~ls[j].handle
    BY <1>1, <1>4, <2>2, <2>3 DEF level
  <2>11. After(levels, b, k)
    BY <2>4, <2>5, <2>6, <2>7, <2>8, <2>9, <2>10 DEF After
  <2> QED
    BY <1>1, <2>1, <2>2, <2>3, <2>4, <2>11
<1>5. CASE a.ok /\ (level.handle \/ CanCreate(level, a.modes)) /\ w /\ ~level.prepared
  <2> DEFINE ls == [a.levels EXCEPT ![k] = prepared]
             b == Attempt(ls, loose, TRUE)
  <2>1. EnsureLevel(a, k, w) = b
    BY <1>5 DEF EnsureLevel
  <2>20. prepared = LevelWith(level, TRUE, TRUE, level.loosened \/ Loosens(level, made), FALSE)
    <3> DEFINE lo == level.loosened \/ Loosens(level, made)
    <3>1. prepared = [level EXCEPT !.handle = TRUE, !.createFailed = FALSE, !.prepared = TRUE,
                                   !.loosened = lo]
      OBVIOUS
    <3>2. \A v1, v2, v3, v4 :
             [level EXCEPT !.handle = v1, !.createFailed = v2, !.prepared = v3, !.loosened = v4]
                 = LevelWith(level, v1, v3, v4, v2)
      <4>1. IsLevel(level)
        BY <1>1
      <4> HIDE DEF level, made, prepared, loose, held, refused, ls, b, lo
      <4> QED
        BY <4>1, ExceptPrepared
    <3>3. prepared = LevelWith(level, TRUE, TRUE, lo, FALSE)
      <4> HIDE DEF level, made, prepared, loose, held, refused, ls, b, lo
      <4>1. [level EXCEPT !.handle = TRUE, !.createFailed = FALSE, !.prepared = TRUE, !.loosened = lo]
              = LevelWith(level, TRUE, TRUE, lo, FALSE)
        BY <3>2, Zenon
      <4> QED
        BY <3>1, <4>1
    <3> QED
      BY <3>3
  <2>2. IsLevel(prepared) /\ prepared.path = level.path /\ prepared.pos = level.pos /\ prepared.recorded = level.recorded
        /\ prepared.todo = level.todo /\ prepared.isDir = level.isDir /\ prepared.handle = TRUE
        /\ prepared.prepared = TRUE /\ (level.loosened => prepared.loosened)
        /\ (level.loosened \/ Loosens(level, made) => prepared.loosened)
    BY <1>1, <2>20 DEF IsLevel, LevelWith, Loosens
  <2>3. IsList(ls) /\ DOMAIN ls = DOMAIN a.levels /\ ls[k] = prepared
        /\ \A j \in DOMAIN ls : j # k => ls[j] = a.levels[j]
    BY <1>1, ListExcept
  <2>4. b.levels = ls /\ b.modes = loose /\ b.ok = TRUE /\ b = Attempt(b.levels, b.modes, b.ok)
    BY DEF Attempt
  <2>5. \A p \in DOMAIN loose : loose[p] = "loosened" =>
            \/ p \in DOMAIN a.modes /\ a.modes[p] = "loosened"
            \/ p = level.path /\ Loosens(level, made)
    BY <1>2
  <2> HIDE DEF prepared, ls, b, level, loose, made
  <2>6. Levels(ls)
    BY <1>1, <2>2, <2>3 DEF Levels, After
  <2>7. Chained(ls)
    BY <1>1, <1>5, <2>2, <2>3 DEF Chained, After
  <2>8. Held(ls, loose)
    BY <1>1, <2>2, <2>3, <2>5 DEF Held, After, level
  <2>9. SameLevels(levels, ls)
    <3>1. SameLevels(levels, a.levels) /\ ~levels[k].prepared
      BY <1>1, <1>5 DEF After
    <3> QED
      BY <1>1, <2>2, <2>3, <3>1 DEF SameLevels
  <2>10. \A j \in DOMAIN levels : j > k => ls[j] = levels[j]
    BY <1>1, <2>3 DEF After
  <2>11. \A j \in 1 .. k : ls[j].handle /\ (j < Len(levels) => ls[j].prepared)
    <3>1. \A j \in 1 .. k - 1 : a.levels[j].handle /\ (j < Len(levels) => a.levels[j].prepared)
      BY <1>5 DEF After
    <3>2. \A j \in 1 .. k : j = k \/ (j \in 1 .. k - 1 /\ j # k /\ ls[j] = a.levels[j])
      BY <1>1, <2>3
    <3>3. ls[k].handle /\ ls[k].prepared
      BY <2>2, <2>3
    <3> QED
      BY <1>1, <2>3, <3>1, <3>2, <3>3
  <2>12. After(levels, b, k)
    BY <2>4, <2>6, <2>7, <2>8, <2>9, <2>10, <2>11 DEF After
  <2> QED
    BY <1>5, <2>1, <2>12
<1>6. CASE a.ok /\ (level.handle \/ CanCreate(level, a.modes)) /\ ~(w /\ ~level.prepared)
  <2> DEFINE ls == [a.levels EXCEPT ![k] = held]
             b == Attempt(ls, made, TRUE)
  <2>1. EnsureLevel(a, k, w) = b
    <3>1. EnsureLevel(a, k, w)
            = Attempt([a.levels EXCEPT ![k].handle = TRUE, ![k].createFailed = FALSE], made, TRUE)
      BY <1>6 DEF EnsureLevel
    <3>2. [a.levels EXCEPT ![k].handle = TRUE, ![k].createFailed = FALSE] = ls
      BY <1>1
    <3> QED
      BY <3>1, <3>2
  <2>20. held = LevelWith(level, TRUE, level.prepared, level.loosened, FALSE)
    BY <1>1, ExceptHandle, Zenon
  <2>2. IsLevel(held) /\ held.path = level.path /\ held.pos = level.pos /\ held.recorded = level.recorded
        /\ held.todo = level.todo /\ held.isDir = level.isDir /\ held.handle = TRUE
        /\ held.loosened = level.loosened /\ held.prepared = level.prepared
    BY <1>1, <2>20 DEF IsLevel, LevelWith
  <2>3. IsList(ls) /\ DOMAIN ls = DOMAIN a.levels /\ ls[k] = held
        /\ \A j \in DOMAIN ls : j # k => ls[j] = a.levels[j]
    BY <1>1, ListExcept
  <2>4. b.levels = ls /\ b.modes = made /\ b.ok = TRUE /\ b = Attempt(b.levels, b.modes, b.ok)
    BY DEF Attempt
  <2> HIDE DEF held, ls, b, level, made
  <2>6. Levels(ls)
    BY <1>1, <2>2, <2>3 DEF Levels, After
  <2>7. Chained(ls)
    BY <1>1, <1>6, <2>2, <2>3 DEF Chained, After
  <2>8. Held(ls, made)
    BY <1>1, <1>2, <2>2, <2>3 DEF Held, After, level
  <2>9. SameLevels(levels, ls)
    BY <1>1, <2>2, <2>3 DEF SameLevels, After
  <2>10. \A j \in DOMAIN levels : j > k => ls[j] = levels[j]
    BY <1>1, <2>3 DEF After
  <2>11. \A j \in 1 .. k : ls[j].handle /\ (j < Len(levels) => ls[j].prepared)
    BY <1>1, <1>6, <2>2, <2>3 DEF After, level
  <2>12. After(levels, b, k)
    BY <2>4, <2>6, <2>7, <2>8, <2>9, <2>10, <2>11 DEF After
  <2> QED
    BY <1>1, <2>1, <2>2, <2>3, <2>4, <2>12
<1> QED
  BY <1>3, <1>4, <1>5, <1>6 DEF After

(* The attempts after each of the levels 1 .. m, when there are n.         *)
Ensuring(g, levels, modes, w, m) ==
    g = [k \in 0 .. m |-> IF k = 0 THEN Attempt(levels, modes, TRUE)
                          ELSE EnsureLevel(g[k - 1], k, w \/ k < Len(levels))]

(* There are such. *)
LEMMA EnsuringExists ==
    ASSUME NEW levels, NEW modes, NEW w, NEW n \in Nat
    PROVE  \E g : Ensuring(g, levels, modes, w, n)
<1> DEFINE P == {m \in 0 .. n : \E g : Ensuring(g, levels, modes, w, m)}
           St(x, k) == EnsureLevel(x, k, w \/ k < Len(levels))
<1>1. 0 \in P
  <2> DEFINE g == [k \in 0 .. 0 |-> Attempt(levels, modes, TRUE)]
  <2>1. Ensuring(g, levels, modes, w, 0)
    BY DEF Ensuring
  <2> QED
    BY <2>1
<1>2. ASSUME NEW m \in 0 .. n - 1, m \in P PROVE m + 1 \in P
  <2>1. PICK g : Ensuring(g, levels, modes, w, m)
    BY <1>2
  <2> DEFINE h == [k \in 0 .. m + 1 |-> IF k <= m THEN g[k] ELSE St(g[m], k)]
  <2>2. \A k \in 0 .. m : g[k] = IF k = 0 THEN Attempt(levels, modes, TRUE) ELSE St(g[k - 1], k)
    BY <2>1 DEF Ensuring
  <2>20. /\ m \in Nat /\ 0 \in 0 .. m /\ m \in 0 .. m /\ DOMAIN h = 0 .. m + 1 /\ h = [k \in 0 .. m + 1 |-> h[k]]
         /\ \A k \in 0 .. m : h[k] = g[k]
         /\ h[m + 1] = St(g[m], m + 1)
    BY <1>2
  <2>3. \A k \in 0 .. m + 1 : h[k] = IF k = 0 THEN Attempt(levels, modes, TRUE) ELSE St(h[k - 1], k)
    <3> SUFFICES ASSUME NEW k \in 0 .. m + 1
                 PROVE  h[k] = IF k = 0 THEN Attempt(levels, modes, TRUE) ELSE St(h[k - 1], k)
      OBVIOUS
    <3> HIDE DEF h
    <3>1. CASE k = 0
      <4>1. h[0] = g[0] /\ g[0] = Attempt(levels, modes, TRUE)
        BY <2>2, <2>20
      <4> QED
        BY <3>1, <4>1
    <3>2. CASE k # 0 /\ k <= m
      <4>1. k \in 0 .. m /\ k - 1 \in 0 .. m
        BY <2>20, <3>2
      <4>2. h[k] = g[k] /\ h[k - 1] = g[k - 1]
        BY <2>20, <4>1
      <4>3. g[k] = St(g[k - 1], k)
        BY <2>2, <3>2, <4>1
      <4> HIDE DEF St
      <4> QED
        BY <3>2, <4>2, <4>3
    <3>3. CASE k = m + 1
      <4>1. k - 1 = m /\ k # 0
        BY <2>20, <3>3
      <4>2. h[m] = g[m]
        BY <2>20
      <4> HIDE DEF St
      <4> QED
        BY <2>20, <3>3, <4>1, <4>2
    <3>4. k = 0 \/ (k # 0 /\ k <= m) \/ k = m + 1
      BY <2>20
    <3> HIDE DEF St
    <3> QED
      BY <3>1, <3>2, <3>3, <3>4
  <2>4. h = [k \in 0 .. m + 1 |-> IF k = 0 THEN Attempt(levels, modes, TRUE) ELSE St(h[k - 1], k)]
    <3> HIDE DEF St, h
    <3> QED
      BY <2>3, <2>20
  <2>5. Ensuring(h, levels, modes, w, m + 1)
    BY <2>4 DEF Ensuring
  <2> QED
    BY <2>5
<1> HIDE DEF P
<1>3. \A i \in 0 .. n : i \in P
  BY <1>1, <1>2, UpTo
<1> QED
  BY <1>3 DEF P

(* What is there once more has been made: the levels and what is above them. *)
Made(levels, modes, next) ==
    \A p \in DOMAIN next : p \in DOMAIN modes \/ \E k \in DOMAIN levels : p \in Prefixes(levels[k].path)

LEMMA EnsureLevelMakes ==
    ASSUME NEW a, NEW k, NEW w
    PROVE  \A p \in DOMAIN EnsureLevel(a, k, w).modes :
              p \in DOMAIN a.modes \/ p \in Prefixes(a.levels[k].path)
<1> DEFINE level == a.levels[k]
           made == [p \in DOMAIN a.modes \cup (Prefixes(level.path) \ {<<>>}) |->
                       IF p \in DOMAIN a.modes THEN a.modes[p] ELSE "open"]
           loose == IF Loosens(level, made) THEN [made EXCEPT ![level.path] = "loosened"] ELSE made
           b == EnsureLevel(a, k, w)
<1>1. b.modes = a.modes \/ b.modes = loose \/ b.modes = made
  <2>1. b = a \/ \E x : (b = Attempt(x, a.modes, FALSE) \/ b = Attempt(x, loose, TRUE) \/ b = Attempt(x, made, TRUE))
    BY Zenon DEF EnsureLevel
  <2>2. \A ls, ms, ok : Attempt(ls, ms, ok).modes = ms
    BY DEF Attempt
  <2>3. PICK x : b = a \/ b = Attempt(x, a.modes, FALSE) \/ b = Attempt(x, loose, TRUE) \/ b = Attempt(x, made, TRUE)
    BY <2>1, Zenon
  <2> HIDE DEF b, loose, made
  <2>4. /\ Attempt(x, a.modes, FALSE).modes = a.modes /\ Attempt(x, loose, TRUE).modes = loose
        /\ Attempt(x, made, TRUE).modes = made
    BY <2>2, Zenon
  <2> QED
    BY <2>3, <2>4, Zenon
<1>2. DOMAIN made = DOMAIN a.modes \cup (Prefixes(level.path) \ {<<>>}) /\ DOMAIN loose = DOMAIN made
  OBVIOUS
<1> HIDE DEF b, loose, made
<1>3. \A p \in DOMAIN b.modes : p \in DOMAIN a.modes \/ p \in Prefixes(level.path)
  BY <1>1, <1>2
<1> QED
  BY <1>3 DEF b

(* What ensuring comes to. *)
LEMMA EnsureHolds ==
    ASSUME NEW levels, NEW modes, NEW w \in BOOLEAN,
           Levels(levels), Chained(levels), Held(levels, modes)
    PROVE  LET a == Ensure(levels, modes, w)
               n == Len(levels)
           IN /\ After(levels, a, n) /\ Made(levels, modes, a.modes)
              /\ ~w /\ n > 0 => a.levels[n].loosened = levels[n].loosened
              /\ ~a.ok /\ n > 0 => ~levels[n].handle /\ a.levels[n].loosened = levels[n].loosened
<1> DEFINE n == Len(levels)
           done == CHOOSE g : Ensuring(g, levels, modes, w, n)
<1>1. n \in Nat /\ DOMAIN levels = 1 .. n
  BY ListFacts DEF Levels
<1>2. Ensuring(done, levels, modes, w, n)
  <2>1. \E g : Ensuring(g, levels, modes, w, n)
    <3> HIDE DEF n
    <3> QED
      BY <1>1, EnsuringExists
  <2> QED
    BY <2>1, Zenon
<1>3. Ensure(levels, modes, w) = done[n]
  BY Zenon DEF Ensure, Ensuring
<1> HIDE DEF done
<1>4. done[0] = Attempt(levels, modes, TRUE)
  BY <1>1, <1>2 DEF Ensuring
<1>5. \A k \in 1 .. n : done[k] = EnsureLevel(done[k - 1], k, w \/ k < n)
  BY <1>1, <1>2 DEF Ensuring
<1> HIDE DEF n
<1> DEFINE P == {k \in 0 .. n : After(levels, done[k], k)}
<1>6. 0 \in P
  <2>1. /\ done[0].levels = levels /\ done[0].modes = modes /\ done[0].ok = TRUE
        /\ done[0] = Attempt(done[0].levels, done[0].modes, done[0].ok)
    BY <1>4 DEF Attempt
  <2>2. SameLevels(levels, levels)
    BY DEF SameLevels
  <2>3. After(levels, done[0], 0)
    <3>1. \A j \in DOMAIN levels : j > 0 => done[0].levels[j] = levels[j]
      BY <2>1
    <3>2. \A j \in 1 .. 0 : FALSE
      OBVIOUS
    <3> QED
      BY <2>1, <2>2, <3>1, <3>2 DEF After
  <2> QED
    BY <1>1, <2>3
<1>7. ASSUME NEW k \in 0 .. n - 1, k \in P PROVE k + 1 \in P
  <2>1. k + 1 \in DOMAIN levels /\ k + 1 - 1 = k /\ k + 1 \in 0 .. n /\ (w \/ k + 1 < n) \in BOOLEAN
    BY <1>1
  <2>2. After(levels, done[k], k + 1 - 1)
    BY <1>7, <2>1
  <2>3. After(levels, EnsureLevel(done[k], k + 1, w \/ k + 1 < n), k + 1)
    <3> DEFINE v == w \/ k + 1 < n
    <3>1. v \in BOOLEAN /\ (k + 1 < Len(levels) => v)
      BY <2>1 DEF n
    <3> HIDE DEF v
    <3>2. \A i \in DOMAIN levels, x \in BOOLEAN : \A b :
              After(levels, b, i - 1) /\ (i < Len(levels) => x) => After(levels, EnsureLevel(b, i, x), i)
      BY EnsureLevelHolds
    <3>3. After(levels, EnsureLevel(done[k], k + 1, v), k + 1)
      BY <2>1, <2>2, <3>1, <3>2
    <3> QED
      BY <3>3 DEF v
  <2> QED
    BY <1>5, <2>1, <2>3
<1> HIDE DEF P
<1>8. \A k \in 0 .. n : k \in P
  BY <1>1, <1>6, <1>7, UpTo
<1>9. \A k \in 0 .. n : After(levels, done[k], k)
  BY <1>8 DEF P
<1>10. ASSUME ~w, n > 0 PROVE done[n].levels[n].loosened = levels[n].loosened
  <2>1. n \in DOMAIN levels /\ After(levels, done[n - 1], n - 1) /\ ~(w \/ n < n)
        /\ done[n] = EnsureLevel(done[n - 1], n, w \/ n < n)
    BY <1>1, <1>5, <1>9, <1>10
  <2>2. done[n] = EnsureLevel(done[n - 1], n, FALSE)
    BY <2>1
  <2>3. ~(n < Len(levels))
    BY <1>1 DEF n
  <2> QED
    BY <2>1, <2>2, <2>3, EnsureLevelHolds
<1>11. ASSUME ~done[n].ok, n > 0
       PROVE  ~levels[n].handle /\ done[n].levels[n].loosened = levels[n].loosened
  <2>1. PICK j \in 1 .. n : ~levels[j].handle
    BY <1>1, <1>9, <1>11 DEF After
  <2>2. ~levels[n].handle
    BY <1>1, <1>11, <2>1 DEF Chained
  <2>3. n \in DOMAIN levels /\ IsLevel(levels[n]) /\ ~levels[n].loosened
    BY <1>1, <1>11, <2>2 DEF Levels, IsLevel
  <2>4. ~done[n].levels[n].loosened
    <3>1. /\ n \in 0 .. n /\ Chained(done[n].levels) /\ IsLevel(done[n].levels[n])
          /\ DOMAIN done[n].levels = 1 .. n
      BY <1>1, <1>9, <2>3 DEF After, Levels, SameLevels
    <3>2. PICK i \in 1 .. n : ~done[n].levels[i].handle
      BY <1>9, <1>11, <3>1 DEF After
    <3>3. ~done[n].levels[n].handle
      BY <1>1, <1>11, <3>1, <3>2 DEF Chained
    <3> QED
      BY <3>1, <3>3 DEF IsLevel
  <2> QED
    BY <1>1, <1>9, <2>2, <2>3, <2>4 DEF After, Levels, SameLevels, IsLevel
<1> DEFINE Q == {k \in 0 .. n : Made(levels, modes, done[k].modes)}
<1>12. 0 \in Q
  <2>1. done[0].modes = modes
    BY <1>4 DEF Attempt
  <2> QED
    BY <1>1, <2>1 DEF Made
<1>13. ASSUME NEW k \in 0 .. n - 1, k \in Q PROVE k + 1 \in Q
  <2>1. k + 1 \in 1 .. n /\ (k + 1) - 1 = k /\ k + 1 \in 0 .. n /\ k \in 0 .. n
    BY <1>1
  <2>2. done[k + 1] = EnsureLevel(done[k], k + 1, w \/ k + 1 < n)
    BY <1>5, <2>1
  <2>3. \A p \in DOMAIN done[k + 1].modes :
           p \in DOMAIN done[k].modes \/ p \in Prefixes(done[k].levels[k + 1].path)
    BY <2>2, EnsureLevelMakes
  <2>4. done[k].levels[k + 1].path = levels[k + 1].path /\ k + 1 \in DOMAIN levels
    BY <1>1, <1>9, <2>1 DEF After, SameLevels
  <2>5. Made(levels, modes, done[k].modes)
    BY <1>13
  <2>6. Made(levels, modes, done[k + 1].modes)
    BY <2>3, <2>4, <2>5 DEF Made
  <2> QED
    BY <2>1, <2>6
<1> HIDE DEF Q
<1>14. Made(levels, modes, done[n].modes)
  <2>1. \A k \in 0 .. n : k \in Q
    BY <1>1, <1>12, <1>13, UpTo
  <2> QED
    BY <1>1, <2>1 DEF Q
<1> QED
  BY <1>1, <1>3, <1>9, <1>10, <1>11, <1>14 DEF n

-----------------------------------------------------------------------------
(* What has been found on the way down to a placement. *)
Findings ==
    {f \in [kind : {"tree", "error", "elsewhere"}, tree : DOMAIN snapshot.trees \cup {""}] :
        f.kind = "tree" => f.tree \in DOMAIN snapshot.trees}

(* A step down finds a tree of the snapshot, or none. *)
LEMMA InsideFinds ==
    ASSUME snapshot \in Snapshots, NEW f \in Findings, NEW name
    PROVE  Inside(f, name) \in Findings
<1> DEFINE named == {e \in ToSet(Entries(f.tree)) : e.name = name}
           e == CHOOSE e \in named : TRUE
<1>1. /\ f.kind = "tree" => f.tree \in DOMAIN snapshot.trees
      /\ [kind |-> "error", tree |-> ""] \in Findings
      /\ [kind |-> "elsewhere", tree |-> ""] \in Findings
      /\ \A t \in DOMAIN snapshot.trees : [kind |-> "tree", tree |-> t] \in Findings
  BY DEF Findings
<1>2. ASSUME f.kind = "tree", named # {}, e.kind = "dir" PROVE e.sub \in DOMAIN snapshot.trees
  <2>1. e \in named
    BY <1>2, Zenon
  <2> HIDE DEF e
  <2>2. e \in ToSet(snapshot.trees[f.tree]) /\ f.tree \in DOMAIN snapshot.trees
    BY <1>1, <1>2, <2>1 DEF Entries
  <2> QED
    BY <1>2, <2>2, SnapshotsAssumption
<1> HIDE DEF named, e
<1> QED
  BY <1>1, <1>2 DEF Inside, named, e

Finding(g, tree, below) ==
    g = [k \in 0 .. Len(below) |->
            IF k = 0 THEN [kind |-> "tree", tree |-> tree] ELSE Inside(g[k - 1], below[k])]

(* The way down is one of findings. *)
LEMMA FindingExists ==
    ASSUME snapshot \in Snapshots, NEW below, Len(below) \in Nat, NEW tree \in DOMAIN snapshot.trees
    PROVE  LET found == CHOOSE g : Finding(g, tree, below)
           IN Finding(found, tree, below) /\ \A k \in 0 .. Len(below) : found[k] \in Findings
<1> DEFINE n == Len(below)
           base == [kind |-> "tree", tree |-> tree]
           step == [x \in Findings \X (1 .. n) |-> Inside(x[1], below[x[2]])]
           found == CHOOSE g : Finding(g, tree, below)
<1>1. base \in Findings
  BY DEF Findings
<1>2. step \in [Findings \X (1 .. n) -> Findings]
  <2>1. \A x \in Findings \X (1 .. n) : Inside(x[1], below[x[2]]) \in Findings
    BY InsideFinds
  <2> QED
    BY <2>1
<1>3. PICK g : Recursion(g, Findings, n, base, step)
  <2> HIDE DEF base, step
  <2> QED
    BY <1>1, <1>2, RecursionExists
<1>4. Finding(g, tree, below)
  <2>1. g = [k \in 0 .. n |-> g[k]]
    BY <1>3 DEF Recursion
  <2>2. \A k \in 0 .. n : g[k] = IF k = 0 THEN base ELSE Inside(g[k - 1], below[k])
    <3> SUFFICES ASSUME NEW k \in 0 .. n
                 PROVE  g[k] = IF k = 0 THEN base ELSE Inside(g[k - 1], below[k])
      OBVIOUS
    <3>1. g[k] = IF k = 0 THEN base ELSE step[<<g[k - 1], k>>]
      BY <1>3 DEF Recursion
    <3>2. k # 0 => <<g[k - 1], k>> \in Findings \X (1 .. n)
      BY <1>3 DEF Recursion
    <3> HIDE DEF base
    <3> QED
      BY <3>1, <3>2
  <2> QED
    BY <2>1, <2>2 DEF Finding
<1>5. Finding(found, tree, below)
  BY <1>4, Zenon
<1> HIDE DEF found, base
<1>6. found[0] = base /\ \A k \in 1 .. n : found[k] = Inside(found[k - 1], below[k])
  BY <1>5 DEF Finding, base
<1> DEFINE P == {k \in 0 .. n : found[k] \in Findings}
<1>7. 0 \in P
  BY <1>1, <1>6
<1>8. ASSUME NEW k \in 0 .. n - 1, k \in P PROVE k + 1 \in P
  <2>1. found[k + 1] = Inside(found[k], below[k + 1]) /\ found[k] \in Findings /\ k + 1 \in 0 .. n
    BY <1>6, <1>8
  <2> QED
    BY <2>1, InsideFinds
<1> HIDE DEF P
<1>9. \A k \in 0 .. n : k \in P
  BY <1>7, <1>8, UpTo
<1> QED
  BY <1>5, <1>9 DEF P, found

(* A placement inside of a root is where the way down has led to. *)
LEMMA InsideHere ==
    ASSUME snapshot \in Snapshots, request \in Requests,
           NEW root \in ToSet(snapshot.roots), PlaceInside(root).kind = "here"
    PROVE  \E t \in DOMAIN snapshot.trees :
              /\ PlaceInside(root) = Here(<<>>, WalkTo(request.subtree), NoPos, <<>>, t)
              /\ WorthWalking(WalkTo(request.subtree))
<1> DEFINE below == SubSeq(request.subtree, Len(root.at) + 1, Len(request.subtree))
           found == CHOOSE g : Finding(g, root.tree, below)
           to == found[Len(below)]
           pos == WalkTo(request.subtree)
<1>1. root.tree \in DOMAIN snapshot.trees /\ IsList(root.at) /\ IsList(request.subtree)
  BY SnapshotsAssumption, RequestsAssumption
<1>2. \A kind : Outcome(kind).kind = kind
  BY DEF Outcome
<1>3. Len(below) \in Nat
  <2>1. /\ Len(root.at) + 1 \in Int /\ Len(request.subtree) \in Int
        /\ \A k \in Len(root.at) + 1 .. Len(request.subtree) : request.subtree[k] \in ToSet(request.subtree)
    BY <1>1, ListFacts
  <2>2. below \in Seq(ToSet(request.subtree))
    BY <2>1, SubSeqProperties
  <2> QED
    BY <2>2
<1>4. to \in Findings
  <2>1. \A k \in 0 .. Len(below) : found[k] \in Findings
    <3> HIDE DEF below
    <3> QED
      BY <1>1, <1>3, FindingExists
  <2>2. Len(below) \in 0 .. Len(below)
    BY <1>3
  <2> HIDE DEF found, below
  <2> QED
    BY <2>1, <2>2
<1>5. PlaceInside(root)
        = IF ~Readable(root.tree) \/ (root.at # <<>> /\ IsFileRoot(Last(root.at), Entries(root.tree)))
          THEN Outcome("error")
          ELSE IF to.kind # "tree" THEN Outcome(to.kind)
          ELSE IF ~WorthWalking(pos) THEN Outcome("pruned")
          ELSE Here(<<>>, pos, NoPos, <<>>, to.tree)
  BY Zenon DEF PlaceInside, Finding
<1> HIDE DEF to, pos
<1>6. /\ to.kind \in {"tree", "error", "elsewhere"}
      /\ to.kind = "tree" => to.tree \in DOMAIN snapshot.trees
  BY <1>4 DEF Findings
<1>7. PlaceInside(root) = Here(<<>>, pos, NoPos, <<>>, to.tree) /\ WorthWalking(pos) /\ to.kind = "tree"
  BY <1>2, <1>5, <1>6
<1> QED
  BY <1>6, <1>7 DEF pos

(* A placement has a tree of the snapshot. *)
LEMMA PlacedTree ==
    ASSUME snapshot \in Snapshots, request \in Requests,
           NEW root \in ToSet(snapshot.roots), PlaceRoot(root).kind = "here"
    PROVE  PlaceRoot(root).tree \in DOMAIN snapshot.trees /\ IsList(PlaceRoot(root).rel)
<1>1. root.tree \in DOMAIN snapshot.trees /\ IsList(root.at) /\ IsList(request.subtree)
  BY SnapshotsAssumption, RequestsAssumption
<1>2. \A rel, pos, above, last, tree :
        Here(rel, pos, above, last, tree).tree = tree /\ Here(rel, pos, above, last, tree).rel = rel
  BY DEF Here
<1>3. \A kind : Outcome(kind).kind = kind
  BY DEF Outcome
<1>4. ASSUME PlaceInside(root).kind = "here" PROVE PlaceInside(root).tree \in DOMAIN snapshot.trees /\ PlaceInside(root).rel = <<>>
  BY <1>2, <1>4, InsideHere
<1>5. \/ PlaceRoot(root) = Outcome("elsewhere") \/ PlaceRoot(root) = Outcome("pruned")
      \/ PlaceRoot(root) = PlaceInside(root)
      \/ /\ Len(request.subtree) < Len(root.at)
         /\ \E pos, above, last :
               PlaceRoot(root) = Here(SubSeq(root.at, Len(request.subtree) + 1, Len(root.at)),
                                      pos, above, last, root.tree)
  <2>1. Len(request.subtree) \in Nat /\ Len(root.at) \in Nat
    BY <1>1, ListFacts
  <2>2. Len(request.subtree) < Len(root.at) \/ Len(request.subtree) >= Len(root.at)
    BY <2>1
  <2> QED
    BY <2>2, Zenon DEF PlaceRoot
<1>6. IsList(<<>>)
  <2>1. <<>> \in Seq({})
    OBVIOUS
  <2> QED
    BY <2>1, SeqIsList
<1>7. ASSUME Len(request.subtree) < Len(root.at)
      PROVE  IsList(SubSeq(root.at, Len(request.subtree) + 1, Len(root.at)))
  <2>1. /\ Len(request.subtree) + 1 \in Int /\ Len(root.at) \in Int
        /\ \A k \in Len(request.subtree) + 1 .. Len(root.at) : root.at[k] \in ToSet(root.at)
    BY <1>1, ListFacts
  <2>2. SubSeq(root.at, Len(request.subtree) + 1, Len(root.at)) \in Seq(ToSet(root.at))
    BY <2>1, SubSeqProperties
  <2> QED
    BY <2>2, SeqIsList
<1> QED
  BY <1>1, <1>2, <1>3, <1>4, <1>5, <1>6, <1>7

Placements ==
    {o \in {PlaceRoot(root) : root \in ToSet(snapshot.roots)} : o.kind = "here"}

Placing(g, outcomes, n) ==
    g = [r \in 0 .. n |->
            IF r = 0 THEN <<>>
            ELSE IF outcomes[r].kind = "here" THEN Append(g[r - 1], outcomes[r])
            ELSE g[r - 1]]

(* The placements are those of the roots. *)
LEMMA PlacedAre ==
    ASSUME snapshot \in Snapshots
    PROVE  Placed \in Seq(Placements)
<1> DEFINE n == Len(snapshot.roots)
           outs == Outcomes
           step == [x \in Seq(Placements) \X (1 .. n) |->
                       IF outs[x[2]].kind = "here" THEN Append(x[1], outs[x[2]]) ELSE x[1]]
           upTo == CHOOSE g : Placing(g, outs, n)
<1>1. IsList(snapshot.roots) /\ n \in Nat /\ DOMAIN snapshot.roots = 1 .. n
  BY SnapshotsAssumption, ListFacts
<1>2. ASSUME NEW r \in 1 .. n, outs[r].kind = "here" PROVE outs[r] \in Placements
  <2>1. outs[r] = PlaceRoot(snapshot.roots[r]) /\ snapshot.roots[r] \in ToSet(snapshot.roots)
    BY <1>1 DEF Outcomes, ToSet
  <2> QED
    BY <1>2, <2>1 DEF Placements
<1> HIDE DEF outs
<1>3. step \in [Seq(Placements) \X (1 .. n) -> Seq(Placements)]
  <2>1. ASSUME NEW x \in Seq(Placements) \X (1 .. n)
        PROVE  (IF outs[x[2]].kind = "here" THEN Append(x[1], outs[x[2]]) ELSE x[1]) \in Seq(Placements)
    BY <1>2
  <2> QED
    BY <2>1
<1>4. <<>> \in Seq(Placements)
  OBVIOUS
<1>5. PICK g : Recursion(g, Seq(Placements), n, <<>>, step)
  <2> HIDE DEF step, n
  <2> QED
    BY <1>1, <1>3, <1>4, RecursionExists
<1>6. Placing(g, outs, n)
  <2>1. g = [k \in 0 .. n |-> g[k]]
    BY <1>5 DEF Recursion
  <2>2. \A r \in 0 .. n : g[r] = IF r = 0 THEN <<>>
                                 ELSE IF outs[r].kind = "here" THEN Append(g[r - 1], outs[r])
                                 ELSE g[r - 1]
    <3> SUFFICES ASSUME NEW r \in 0 .. n
                 PROVE  g[r] = IF r = 0 THEN <<>>
                               ELSE IF outs[r].kind = "here" THEN Append(g[r - 1], outs[r])
                               ELSE g[r - 1]
      OBVIOUS
    <3>1. g[r] = IF r = 0 THEN <<>> ELSE step[<<g[r - 1], r>>]
      BY <1>5 DEF Recursion
    <3>2. r # 0 => <<g[r - 1], r>> \in Seq(Placements) \X (1 .. n)
      BY <1>1, <1>5 DEF Recursion
    <3>3. r # 0 => step[<<g[r - 1], r>>]
                     = IF outs[r].kind = "here" THEN Append(g[r - 1], outs[r]) ELSE g[r - 1]
      BY <3>2
    <3> HIDE DEF step
    <3> QED
      BY <3>1, <3>3
  <2> QED
    BY <2>1, <2>2 DEF Placing
<1>7. Placing(upTo, outs, n)
  BY <1>6, Zenon
<1>8. Placed = upTo[n]
  BY Zenon DEF Placed, PlacedAmong, Placing, outs
<1> HIDE DEF upTo, n
<1> DEFINE NextOf(f, r) == IF outs[r].kind = "here" THEN Append(f[r - 1], outs[r]) ELSE f[r - 1]
<1>90. \A r \in 0 .. n : upTo[r] = IF r = 0 THEN <<>> ELSE NextOf(upTo, r)
  BY <1>7 DEF Placing
<1>9. /\ upTo[0] = <<>>
      /\ \A r \in 1 .. n : upTo[r] = IF outs[r].kind = "here" THEN Append(upTo[r - 1], outs[r])
                                     ELSE upTo[r - 1]
  <2>1. 0 \in 0 .. n /\ \A r \in 1 .. n : r \in 0 .. n /\ r # 0
    BY <1>1
  <2>2. upTo[0] = <<>>
    <3> HIDE DEF NextOf
    <3> QED
      BY <1>90, <2>1
  <2>3. \A r \in 1 .. n : upTo[r] = NextOf(upTo, r)
    <3> HIDE DEF NextOf
    <3> QED
      BY <1>90, <2>1
  <2> QED
    BY <2>2, <2>3
<1> DEFINE P == {k \in 0 .. n : upTo[k] \in Seq(Placements)}
<1>10. 0 \in P
  <2>1. 0 \in 0 .. n
    BY <1>1
  <2> QED
    BY <1>4, <1>9, <2>1
<1>11. ASSUME NEW k \in 0 .. n - 1, k \in P PROVE k + 1 \in P
  <2>1. /\ k + 1 \in 1 .. n /\ upTo[k] \in Seq(Placements) /\ k + 1 - 1 = k
    BY <1>1, <1>11
  <2>2. upTo[k + 1] = IF outs[k + 1].kind = "here" THEN Append(upTo[k], outs[k + 1]) ELSE upTo[k]
    BY <1>9, <2>1
  <2>3. upTo[k + 1] \in Seq(Placements)
    <3>1. CASE outs[k + 1].kind = "here"
      BY <1>2, <2>1, <2>2, <3>1
    <3>2. CASE outs[k + 1].kind # "here"
      BY <2>1, <2>2, <3>2
    <3> QED
      BY <3>1, <3>2
  <2>4. k + 1 \in 0 .. n
    BY <2>1
  <2> QED
    BY <2>3, <2>4
<1> HIDE DEF P
<1>12. \A k \in 0 .. n : k \in P
  BY <1>1, <1>10, <1>11, UpTo
<1> QED
  BY <1>1, <1>8, <1>12 DEF P

-----------------------------------------------------------------------------
(* The placements of a restore. *)
GoodPlaces(ps) ==
    /\ IsList(ps)
    /\ \A o \in ToSet(ps) : o.tree \in DOMAIN snapshot.trees /\ IsList(o.rel)

(* What a step of the restore leaves of the levels it works in: their      *)
(* number, what each has, and nothing loosened that is not known.          *)
Left(levels, a) ==
    /\ Levels(a.levels) /\ Chained(a.levels) /\ Held(a.levels, a.modes)
    /\ DOMAIN a.levels = DOMAIN levels /\ Len(a.levels) = Len(levels)
    /\ \A k \in DOMAIN levels : a.levels[k].recorded = levels[k].recorded
    /\ ~a.ok => ~a.levels[Len(levels)].loosened

(* The levels above one that is taken away, which is not loosened. *)
LEMMA FrontHeld ==
    ASSUME NEW levels, NEW modes, Levels(levels), Chained(levels), Held(levels, modes), levels # <<>>,
           ~levels[Len(levels)].loosened
    PROVE  /\ Levels(Front(levels)) /\ Chained(Front(levels)) /\ Held(Front(levels), modes)
           /\ Front(levels) # <<>> => Front(levels)[1] = levels[1]
<1>1. /\ Len(levels) \in Nat /\ DOMAIN levels = 1 .. Len(levels)
      /\ IsList(Front(levels)) /\ Len(Front(levels)) = Len(levels) - 1
      /\ \A k \in 1 .. Len(levels) - 1 : Front(levels)[k] = levels[k]
  BY ListFacts, ListFront DEF Levels
<1>2. DOMAIN Front(levels) = 1 .. Len(levels) - 1
  BY <1>1, ListFacts
<1>3. Levels(Front(levels))
  BY <1>1, <1>2 DEF Levels
<1>4. Chained(Front(levels))
  BY <1>1, <1>2 DEF Chained
<1>5. Held(Front(levels), modes)
  BY <1>1, <1>2 DEF Held
<1>6. Front(levels) # <<>> => 1 \in DOMAIN Front(levels)
  <2>1. Front(levels) \in Seq(ToSet(Front(levels)))
    BY <1>1 DEF IsList
  <2> QED
    BY <2>1
<1> QED
  BY <1>1, <1>2, <1>3, <1>4, <1>5, <1>6

(* The levels when the next entry is taken. *)
LEMMA AdvancedHeld ==
    ASSUME Levels(stack), Chained(stack), Held(stack, mode), stack # <<>>, Top.todo # <<>>
    PROVE  /\ Levels(Advanced) /\ Chained(Advanced) /\ Held(Advanced, mode)
           /\ DOMAIN Advanced = DOMAIN stack /\ Len(Advanced) = Len(stack) /\ Len(stack) \in Nat \ {0}
           /\ \A k \in DOMAIN stack : Advanced[k].recorded = stack[k].recorded
           /\ NextEntry.mode \in Recorded
           /\ NextEntry.kind = "dir" => NextEntry.sub \in DOMAIN snapshot.trees
           /\ IsList(Top.path)
<1> DEFINE n == Len(stack)
           next == [stack[n] EXCEPT !.todo = Tail(stack[n].todo)]
<1>1. n \in Nat \ {0} /\ DOMAIN stack = 1 .. n
  <2>1. stack \in Seq(ToSet(stack))
    BY DEF Levels, IsList
  <2> QED
    BY <2>1
<1>2. IsLevel(stack[n]) /\ GoodEntries(stack[n].todo) /\ IsList(stack[n].path)
  BY <1>1 DEF Levels
<1>3. /\ IsList(Tail(stack[n].todo)) /\ ToSet(Tail(stack[n].todo)) \subseteq ToSet(stack[n].todo)
      /\ NextEntry \in ToSet(stack[n].todo)
  BY <1>2, ListTail DEF GoodEntries, Top, NextEntry
<1>4. GoodEntries(Tail(stack[n].todo))
  BY <1>2, <1>3 DEF GoodEntries
<1>5. next = [path |-> stack[n].path, todo |-> Tail(stack[n].todo), pos |-> stack[n].pos,
              isDir |-> stack[n].isDir, recorded |-> stack[n].recorded, handle |-> stack[n].handle,
              prepared |-> stack[n].prepared, loosened |-> stack[n].loosened,
              createFailed |-> stack[n].createFailed]
  BY <1>2, ExceptTodo, Zenon
<1>6. /\ next.path = stack[n].path /\ next.todo = Tail(stack[n].todo)
      /\ next.recorded = stack[n].recorded /\ next.handle = stack[n].handle
      /\ next.prepared = stack[n].prepared /\ next.loosened = stack[n].loosened
      /\ next.isDir = stack[n].isDir /\ next.pos = stack[n].pos
      /\ next.createFailed = stack[n].createFailed
  <2> HIDE DEF next
  <2> QED
    BY <1>5
<1>7. IsLevel(next)
  <2>1. next = LevelWith(next, next.handle, next.prepared, next.loosened, next.createFailed)
    <3> HIDE DEF next
    <3> QED
      BY <1>5, <1>6 DEF LevelWith
  <2> HIDE DEF next
  <2> QED
    BY <1>2, <1>6, <2>1 DEF IsLevel
<1>8. Advanced = [stack EXCEPT ![n] = next]
  BY DEF Advanced
<1> HIDE DEF next
<1>9. /\ IsList(Advanced) /\ DOMAIN Advanced = DOMAIN stack /\ Advanced[n] = next
      /\ \A k \in DOMAIN stack : k # n => Advanced[k] = stack[k]
  <2>1. IsList(stack)
    BY DEF Levels
  <2>2. IsList([stack EXCEPT ![n] = next])
    BY <2>1, ListExcept
  <2> QED
    BY <1>1, <1>8, <2>2
<1>10. Len(Advanced) = n
  <2>1. Len(Advanced) \in Nat /\ DOMAIN Advanced = 1 .. Len(Advanced)
    BY <1>9, ListFacts
  <2> QED
    BY <1>1, <1>9, <2>1
<1>11. Levels(Advanced)
  BY <1>2, <1>4, <1>6, <1>7, <1>9 DEF Levels
<1>12. Chained(Advanced)
  BY <1>1, <1>6, <1>9 DEF Chained
<1>13. Held(Advanced, mode)
  BY <1>1, <1>6, <1>9 DEF Held
<1> QED
  BY <1>1, <1>2, <1>3, <1>6, <1>9, <1>10, <1>11, <1>12, <1>13 DEF GoodEntries, Top

(* What Ensure leaves. *)
LEMMA EnsureLeft ==
    ASSUME NEW levels, NEW modes, NEW w \in BOOLEAN, levels # <<>>,
           Levels(levels), Chained(levels), Held(levels, modes)
    PROVE  Left(levels, Ensure(levels, modes, w))
<1> DEFINE a == Ensure(levels, modes, w)
<1>1. Len(levels) \in Nat /\ Len(levels) > 0 /\ DOMAIN levels = 1 .. Len(levels)
  <2>1. levels \in Seq(ToSet(levels))
    BY DEF Levels, IsList
  <2> QED
    BY <2>1
<1>2. /\ After(levels, a, Len(levels))
      /\ ~a.ok => ~levels[Len(levels)].handle /\ a.levels[Len(levels)].loosened = levels[Len(levels)].loosened
  BY <1>1, EnsureHolds
<1> HIDE DEF a
<1>3. DOMAIN a.levels = 1 .. Len(levels) /\ IsList(a.levels)
  BY <1>1, <1>2 DEF After, SameLevels, Levels
<1>4. Len(a.levels) = Len(levels)
  <2>1. Len(a.levels) \in Nat /\ DOMAIN a.levels = 1 .. Len(a.levels)
    BY <1>3, ListFacts
  <2> QED
    BY <1>1, <1>3, <2>1
<1>5. ~a.ok => ~a.levels[Len(levels)].loosened
  <2>1. IsLevel(levels[Len(levels)])
    BY <1>1 DEF Levels
  <2> QED
    BY <1>2, <2>1 DEF IsLevel
<1>6. Left(levels, a)
  BY <1>2, <1>4, <1>5 DEF Left, After, SameLevels
<1> QED
  BY <1>6 DEF a

(* What is ready for the next entry. *)
LEMMA ReadyLeft ==
    ASSUME Levels(stack), Chained(stack), Held(stack, mode), stack # <<>>, Top.todo # <<>>
    PROVE  Left(stack, Ready)
<1>1. /\ Levels(Advanced) /\ Chained(Advanced) /\ Held(Advanced, mode)
      /\ DOMAIN Advanced = DOMAIN stack /\ Len(Advanced) = Len(stack) /\ Len(stack) \in Nat \ {0}
      /\ \A k \in DOMAIN stack : Advanced[k].recorded = stack[k].recorded
  BY AdvancedHeld
<1>2. Advanced # <<>>
  <2>1. Len(<<>>) = 0
    OBVIOUS
  <2> QED
    BY <1>1, <2>1
<1>3. Left(Advanced, Ensure(Advanced, mode, TRUE))
  BY <1>1, <1>2, EnsureLeft
<1>4. Left(stack, Ensure(Advanced, mode, TRUE))
  BY <1>1, <1>3 DEF Left
<1>5. Left(stack, Attempt(Advanced, mode, TRUE))
  <2>1. /\ Attempt(Advanced, mode, TRUE).levels = Advanced /\ Attempt(Advanced, mode, TRUE).modes = mode
        /\ Attempt(Advanced, mode, TRUE).ok = TRUE
    BY DEF Attempt
  <2> QED
    BY <1>1, <2>1 DEF Left
<1> QED
  BY <1>4, <1>5 DEF Ready

-----------------------------------------------------------------------------
(* The inductive invariant of the walks. *)
Chosen3 == snapshot \in Snapshots /\ request \in Requests /\ world \in Worlds
RestoreKept ==
    phase = "restore" =>
        /\ Levels(stack) /\ Chained(stack)
        /\ stack # <<>> => stack[1].recorded = "none"
NothingLoose == \A p \in DOMAIN mode : mode[p] # "loosened"
WalkKept ==
    /\ Chosen3
    /\ GoodPlaces(placed) /\ GoodPlaces(places)
    /\ phase \in {"place", "refused", "plan", "restore", "failed", "done"}
    /\ phase \in {"place", "refused", "plan"} => NothingLoose
    /\ RestoreKept
    /\ Held(stack, mode)

(* The empty list. *)
LEMMA NoLevels ==
    ASSUME NEW modes
    PROVE  /\ IsList(<<>>) /\ Levels(<<>>) /\ Chained(<<>>)
           /\ Held(<<>>, modes) <=> \A p \in DOMAIN modes : modes[p] # "loosened"
<1>1. IsList(<<>>)
  <2>1. <<>> \in Seq({})
    OBVIOUS
  <2> QED
    BY <2>1, SeqIsList
<1>2. \A k \in DOMAIN <<>> : FALSE
  OBVIOUS
<1> QED
  BY <1>1, <1>2 DEF Levels, Chained, Held

(* Before a restore everything is as it was. *)
LEMMA InitKept == WalkInit => WalkKept
<1> SUFFICES ASSUME WalkInit PROVE WalkKept
  OBVIOUS
<1>1. NothingLoose
  BY WorldsAssumption DEF WalkInit, NothingLoose
<1>2. IsList(<<>>) /\ Held(<<>>, mode)
  BY <1>1, NoLevels DEF NothingLoose
<1>3. GoodPlaces(<<>>)
  <2>1. \A o \in ToSet(<<>>) : FALSE
    BY DEF ToSet
  <2> QED
    BY <1>2, <2>1 DEF GoodPlaces
<1> QED
  BY <1>1, <1>2, <1>3 DEF WalkInit, WalkKept, Chosen3, RestoreKept

(* The next state of what the levels are said of. *)
LEMMA SameSnapshot ==
    ASSUME UNCHANGED <<snapshot, request, world, placed>>, Chosen3, GoodPlaces(placed)
    PROVE  /\ Chosen3' /\ GoodPlaces(placed)'
           /\ GoodPlaces(places) /\ places' = places => GoodPlaces(places)'
           /\ Levels(stack') => Levels(stack)'
           /\ GoodPlaces(places') => GoodPlaces(places)'
           /\ Chained(stack') => Chained(stack)'
           /\ Held(stack', mode') => Held(stack, mode)'
  BY DEF Chosen3, GoodPlaces, Levels, GoodEntries, Chained, Held

(* The actions before the restore itself. *)
LEMMA PlanKept ==
    ASSUME WalkKept,
           \/ Place \/ PlanPlace \/ PlanSkip \/ PlanLeaf \/ PlanDir \/ PlanLeave \/ PlanEnd
    PROVE  WalkKept'
<1>1. /\ UNCHANGED <<snapshot, request, world, mode>> /\ phase \in {"place", "plan"}
      /\ phase' \in {"plan", "refused", "failed", "restore"}
      /\ phase' = "restore" => stack = <<>> /\ stack' = stack
  BY DEF Place, PlanPlace, PlanSkip, PlanLeaf, PlanDir, PlanLeave, PlanEnd, AtEntry, AtEnd, rigid
<1>2. NothingLoose /\ NothingLoose' /\ Held(stack, mode)'
  <2>1. NothingLoose
    BY <1>1 DEF WalkKept
  <2> QED
    BY <1>1, <2>1 DEF NothingLoose, Held
<1>3. RestoreKept'
  <2>1. Levels(<<>>)' /\ Chained(<<>>)'
    BY <1>1, NoLevels DEF Levels, Chained, GoodEntries
  <2>2. phase' = "restore" => stack' = <<>>
    BY <1>1
  <2> QED
    BY <2>1, <2>2 DEF RestoreKept
<1>4. Chosen3'
  BY <1>1 DEF WalkKept, Chosen3
<1>5. GoodPlaces(placed)' /\ GoodPlaces(places)'
  <2>1. ASSUME GoodPlaces(placed'), GoodPlaces(places') PROVE GoodPlaces(placed)' /\ GoodPlaces(places)'
    BY <1>1, <2>1 DEF GoodPlaces
  <2>2. CASE Place
    <3>1. Placed \in Seq(Placements)
      BY PlacedAre DEF WalkKept, Chosen3
    <3>2. IsList(Placed)
      BY <3>1, SeqIsList
    <3>3. \A o \in ToSet(Placed) : o \in Placements
      BY <3>1 DEF ToSet
    <3>4. \A o \in Placements : o.tree \in DOMAIN snapshot.trees /\ IsList(o.rel)
      BY PlacedTree DEF Placements, WalkKept, Chosen3
    <3>5. GoodPlaces(Placed)
      BY <3>2, <3>3, <3>4 DEF GoodPlaces
    <3> QED
      BY <2>1, <2>2, <3>5 DEF Place
  <2>3. CASE PlanPlace
    <3>1. GoodPlaces(Tail(places))
      <4>1. places # <<>> /\ GoodPlaces(places)
        BY <2>3 DEF PlanPlace, WalkKept
      <4> QED
        BY <4>1, ListTail DEF GoodPlaces
    <3> QED
      BY <2>1, <2>3, <3>1 DEF PlanPlace, WalkKept, rigid
  <2>4. CASE PlanEnd
    BY <2>1, <2>4 DEF PlanEnd, WalkKept, rigid
  <2>5. CASE PlanSkip \/ PlanLeaf \/ PlanDir \/ PlanLeave
    BY <2>1, <2>5 DEF PlanSkip, PlanLeaf, PlanDir, PlanLeave, WalkKept, rigid
  <2> QED
    BY <2>2, <2>3, <2>4, <2>5
<1> QED
  BY <1>1, <1>2, <1>3, <1>4, <1>5 DEF WalkKept

(* Where the restore goes on, or fails. *)
LEMMA RestoreOn ==
    ASSUME WalkKept, UNCHANGED <<snapshot, request, world, placed>>, phase = "restore",
           phase' \in {"restore", "failed", "done"},
           phase' = "restore" => /\ Levels(stack') /\ Chained(stack')
                                 /\ stack' # <<>> => stack'[1].recorded = "none",
           Held(stack', mode'), GoodPlaces(places')
    PROVE  WalkKept'
<1>1. Chosen3' /\ GoodPlaces(placed)' /\ GoodPlaces(places)' /\ Held(stack, mode)'
  BY SameSnapshot DEF WalkKept
<1>2. RestoreKept'
  BY SameSnapshot DEF RestoreKept, WalkKept
<1> QED
  BY <1>1, <1>2 DEF WalkKept

(* The level of a new placement. *)
BaseLevel ==
    Level(Opened(Head(places)).rel, Entries(Head(places).tree), Opened(Head(places)).pos, FALSE, "none")

LEMMA BaseHeld ==
    ASSUME WalkKept, stack = <<>>, places # <<>>
    PROVE  /\ GoodPlaces(Tail(places))
           /\ BaseLevel.path = Opened(Head(places)).rel /\ BaseLevel.todo = Entries(Head(places).tree)
           /\ BaseLevel.pos = Opened(Head(places)).pos /\ BaseLevel.recorded = "none"
           /\ Levels(<<BaseLevel>>) /\ Chained(<<BaseLevel>>) /\ Held(<<BaseLevel>>, mode)
<1> DEFINE place == Head(places)
           to == Opened(place)
           base == <<BaseLevel>>
<1>1. GoodPlaces(places) /\ Held(stack, mode) /\ snapshot \in Snapshots
  BY DEF WalkKept, Chosen3
<1>3. /\ GoodPlaces(Tail(places)) /\ place.tree \in DOMAIN snapshot.trees /\ IsList(place.rel)
  BY <1>1, ListTail DEF GoodPlaces
<1>4. IsList(to.rel)
  <2>1. IsList(Front(place.rel))
    <3>1. CASE place.rel # <<>>
      BY <1>3, <3>1, ListFront
    <3>2. CASE place.rel = <<>>
      <4>1. Front(<<>>) = <<>>
        <5>1. Len(<<>>) = 0 /\ Front(<<>>) = SubSeq(<<>>, 1, Len(<<>>) - 1)
          BY DEF Front
        <5>2. SubSeq(<<>>, 1, 0 - 1) = <<>>
          BY SubSeqEmpty
        <5> QED
          BY <5>1, <5>2
      <4> QED
        BY <1>3, <3>2, <4>1
    <3> QED
      BY <3>1, <3>2
  <2>2. to.rel = Front(place.rel) \/ to.rel = place.rel
    <3> HIDE DEF place
    <3> QED
      BY DEF Opened
  <2> QED
    BY <1>3, <2>1, <2>2
<1>5. GoodEntries(Entries(place.tree))
  BY <1>1, <1>3, SnapshotsAssumption DEF GoodEntries, Entries, Recorded
<1>6. /\ IsLevel(BaseLevel) /\ BaseLevel.path = to.rel /\ BaseLevel.todo = Entries(place.tree)
      /\ BaseLevel.pos = to.pos /\ BaseLevel.recorded = "none"
  <2>1. BaseLevel = Level(to.rel, Entries(place.tree), to.pos, FALSE, "none")
    BY DEF BaseLevel
  <2> HIDE DEF to, place
  <2> QED
    BY <2>1 DEF Level, IsLevel, LevelWith, Recorded
<1>7. IsList(base) /\ DOMAIN base = {1} /\ base[1] = BaseLevel
  <2>1. base \in Seq({BaseLevel}) /\ DOMAIN base = {1} /\ base[1] = BaseLevel
    OBVIOUS
  <2>2. IsList(base)
    BY <2>1, SeqIsList
  <2> QED
    BY <2>1, <2>2
<1> HIDE DEF base, to, place
<1>8. Levels(base)
  BY <1>4, <1>5, <1>6, <1>7 DEF Levels
<1>9. Chained(base)
  BY <1>7 DEF Chained
<1>10. Held(base, mode)
  BY <1>1, NoLevels DEF Held
<1> QED
  BY <1>3, <1>6, <1>8, <1>9, <1>10 DEF base, to, place

(* A new placement. *)
LEMMA RestorePlaceKept ==
    ASSUME WalkKept, RestorePlace
    PROVE  WalkKept'
<1> DEFINE to == Opened(Head(places))
           base == <<BaseLevel>>
           made == IF to.pos.selected THEN Ensure(base, mode, FALSE) ELSE Attempt(base, mode, TRUE)
<1>1. /\ phase = "restore" /\ stack = <<>> /\ places # <<>> /\ Held(stack, mode)
      /\ places' = Tail(places) /\ UNCHANGED <<snapshot, request, world, placed>>
  BY DEF RestorePlace, WalkKept, rigid
<1>2. \/ stack' = made.levels /\ mode' = made.modes /\ phase' = phase /\ made.ok
      \/ stack' = stack /\ mode' = mode /\ phase' = "failed"
  BY DEF RestorePlace, BaseLevel
<1> HIDE DEF to
<1>3. /\ GoodPlaces(Tail(places)) /\ Levels(base) /\ Chained(base) /\ Held(base, mode)
      /\ BaseLevel.recorded = "none"
  BY <1>1, BaseHeld
<1>7. DOMAIN base = {1} /\ base[1] = BaseLevel /\ Len(base) = 1 /\ base # <<>>
  OBVIOUS
<1> HIDE DEF base
<1>11. ASSUME made.ok
       PROVE  /\ Levels(made.levels) /\ Chained(made.levels) /\ Held(made.levels, made.modes)
              /\ made.levels[1].recorded = "none"
  <2>1. Left(base, Ensure(base, mode, FALSE))
    BY <1>3, <1>7, EnsureLeft
  <2>2. Left(base, Attempt(base, mode, TRUE))
    <3>1. /\ Attempt(base, mode, TRUE).levels = base /\ Attempt(base, mode, TRUE).modes = mode
          /\ Attempt(base, mode, TRUE).ok = TRUE
      BY DEF Attempt
    <3> QED
      BY <1>3, <1>7, <3>1 DEF Left
  <2>3. Left(base, made)
    BY <2>1, <2>2
  <2> HIDE DEF made
  <2> QED
    BY <1>3, <1>7, <2>3 DEF Left
<1> HIDE DEF made
<1>12. CASE stack' = made.levels /\ mode' = made.modes /\ phase' = phase /\ made.ok
  BY <1>1, <1>3, <1>11, <1>12, RestoreOn
<1>13. CASE stack' = stack /\ mode' = mode /\ phase' = "failed"
  BY <1>1, <1>3, <1>13, RestoreOn
<1> QED
  BY <1>2, <1>12, <1>13

(* An entry that is passed over. *)
LEMMA RestoreSkipKept ==
    ASSUME WalkKept, RestoreSkip
    PROVE  WalkKept'
<1>1. /\ phase = "restore" /\ phase' = phase /\ stack # <<>> /\ Top.todo # <<>>
      /\ stack' = Advanced /\ mode' = mode /\ places' = places /\ GoodPlaces(places)
      /\ UNCHANGED <<snapshot, request, world, placed>>
      /\ Levels(stack) /\ Chained(stack) /\ Held(stack, mode) /\ stack[1].recorded = "none"
  BY DEF RestoreSkip, AtEntry, WalkKept, RestoreKept, rigid
<1>2. /\ Levels(Advanced) /\ Chained(Advanced) /\ Held(Advanced, mode) /\ Advanced[1].recorded = "none"
  <2>1. /\ Levels(Advanced) /\ Chained(Advanced) /\ Held(Advanced, mode)
        /\ \A k \in DOMAIN stack : Advanced[k].recorded = stack[k].recorded
        /\ Len(stack) \in Nat \ {0}
    BY <1>1, AdvancedHeld
  <2>2. 1 \in DOMAIN stack
    BY <1>1, <2>1, ListFacts DEF Levels
  <2> QED
    BY <1>1, <2>1, <2>2
<1> QED
  BY <1>1, <1>2, RestoreOn

(* What there is when the restore takes the next entry of a level. *)
LEMMA AtReady ==
    ASSUME WalkKept, AtEntry("restore")
    PROVE  /\ phase = "restore" /\ stack # <<>> /\ Top.todo # <<>> /\ GoodPlaces(places)
           /\ Levels(stack) /\ Chained(stack) /\ Held(stack, mode) /\ stack[1].recorded = "none"
           /\ Len(stack) \in Nat \ {0} /\ DOMAIN stack = 1 .. Len(stack)
           /\ Left(stack, Ready)
           /\ Ready.levels[1].recorded = "none" /\ Ready.levels # <<>>
<1>1. /\ phase = "restore" /\ stack # <<>> /\ Top.todo # <<>> /\ GoodPlaces(places)
      /\ Levels(stack) /\ Chained(stack) /\ Held(stack, mode) /\ stack[1].recorded = "none"
  BY DEF AtEntry, WalkKept, RestoreKept
<1>2. Left(stack, Ready)
  BY <1>1, ReadyLeft
<1>3. Len(stack) \in Nat \ {0} /\ DOMAIN stack = 1 .. Len(stack)
  BY <1>1, AdvancedHeld, ListFacts DEF Levels
<1>4. Ready.levels # <<>>
  <2>1. Len(<<>>) = 0
    OBVIOUS
  <2> QED
    BY <1>2, <1>3, <2>1 DEF Left
<1> QED
  BY <1>1, <1>2, <1>3, <1>4 DEF Left

(* A level that cannot be opened is left. *)
LEMMA RestoreStuckKept ==
    ASSUME WalkKept, RestoreStuck
    PROVE  WalkKept'
<1> DEFINE a == Ready
<1>1. /\ AtEntry("restore") /\ ~a.ok /\ mode' = a.modes /\ places' = places
      /\ UNCHANGED <<snapshot, request, world, placed>>
      /\ \/ Len(stack) = 1 /\ phase' = "failed" /\ stack' = stack
         \/ Len(stack) # 1 /\ phase' = phase /\ stack' = Front(a.levels)
  BY DEF RestoreStuck, rigid
<1>2. /\ phase = "restore" /\ GoodPlaces(places) /\ Len(stack) \in Nat \ {0}
      /\ DOMAIN stack = 1 .. Len(stack) /\ stack[1].recorded = "none"
      /\ a.levels[1].recorded = "none" /\ a.levels # <<>> /\ Left(stack, a)
  BY <1>1, AtReady
<1> HIDE DEF a
<1>3. /\ Levels(a.levels) /\ Chained(a.levels) /\ Held(a.levels, a.modes)
      /\ Len(a.levels) = Len(stack) /\ DOMAIN a.levels = DOMAIN stack
      /\ ~a.levels[Len(a.levels)].loosened
  BY <1>1, <1>2 DEF Left
<1>4. CASE Len(stack) = 1
  <2>1. \A k \in DOMAIN a.levels : ~a.levels[k].loosened
    BY <1>2, <1>3, <1>4
  <2>2. Held(stack, a.modes)
    BY <1>3, <2>1 DEF Held
  <2>3. stack' = stack /\ phase' = "failed"
    BY <1>1, <1>4
  <2> QED
    BY <1>1, <1>2, <2>2, <2>3, RestoreOn
<1>5. CASE Len(stack) # 1
  <2>1. /\ Levels(Front(a.levels)) /\ Chained(Front(a.levels)) /\ Held(Front(a.levels), a.modes)
        /\ Front(a.levels) # <<>> => Front(a.levels)[1] = a.levels[1]
    BY <1>2, <1>3, FrontHeld
  <2>2. stack' = Front(a.levels) /\ phase' = phase
    BY <1>1, <1>5
  <2> QED
    BY <1>1, <1>2, <2>1, <2>2, RestoreOn
<1> QED
  BY <1>4, <1>5

(* A file, a symlink, or what cannot be walked. *)
LEMMA RestoreLeafKept ==
    ASSUME WalkKept, RestoreLeaf
    PROVE  WalkKept'
<1>1. /\ AtEntry("restore") /\ mode' = Ready.modes /\ stack' = Ready.levels /\ places' = places
      /\ UNCHANGED <<snapshot, request, world, placed>> /\ phase' = phase
  BY DEF RestoreLeaf, rigid
<1>2. /\ phase = "restore" /\ GoodPlaces(places) /\ Left(stack, Ready)
      /\ Ready.levels[1].recorded = "none"
  BY <1>1, AtReady
<1>3. Levels(Ready.levels) /\ Chained(Ready.levels) /\ Held(Ready.levels, Ready.modes)
  BY <1>2 DEF Left
<1> QED
  BY <1>1, <1>2, <1>3, RestoreOn

(* A level below those of an attempt, which nothing has been done to. *)
LEMMA InsideHeld ==
    ASSUME NEW levels, NEW modes, NEW lower, Levels(levels), Chained(levels), Held(levels, modes),
           levels # <<>>, IsLevel(lower), GoodEntries(lower.todo), IsList(lower.path),
           ~lower.handle
    PROVE  /\ Levels(Append(levels, lower)) /\ Chained(Append(levels, lower))
           /\ Held(Append(levels, lower), modes)
           /\ Append(levels, lower) # <<>> /\ Append(levels, lower)[1] = levels[1]
           /\ Append(levels, lower)[Len(Append(levels, lower))] = lower
           /\ Len(Append(levels, lower)) \in Nat \ {0}
<1> DEFINE inside == Append(levels, lower)
           n == Len(levels)
<1>1. /\ IsList(inside) /\ Len(inside) = n + 1 /\ inside[n + 1] = lower
      /\ \A k \in 1 .. n : inside[k] = levels[k]
      /\ n \in Nat /\ DOMAIN levels = 1 .. n /\ DOMAIN inside = 1 .. n + 1
  <2>1. IsList(levels)
    BY DEF Levels
  <2>2. /\ IsList(inside) /\ Len(inside) = n + 1 /\ inside[n + 1] = lower
        /\ \A k \in 1 .. n : inside[k] = levels[k]
    BY <2>1, ListAppend
  <2> HIDE DEF inside
  <2> QED
    BY <2>1, <2>2, ListFacts
<1>2. n > 0
  <2>1. levels \in Seq(ToSet(levels))
    BY DEF Levels, IsList
  <2> QED
    BY <2>1
<1> HIDE DEF inside, n
<1>3. \A k \in DOMAIN inside : k = n + 1 \/ k \in DOMAIN levels
  BY <1>1
<1>4. Levels(inside)
  BY <1>1, <1>3 DEF Levels
<1>5. Chained(inside)
  BY <1>1, <1>3 DEF Chained
<1>6. Held(inside, modes)
  BY <1>1, <1>3 DEF Held
<1>7. inside # <<>>
  <2>1. Len(<<>>) = 0
    OBVIOUS
  <2> QED
    BY <1>1, <2>1
<1> QED
  BY <1>1, <1>2, <1>4, <1>5, <1>6, <1>7 DEF inside

(* The level of a directory. *)
DirLevel ==
    Level(NextPath, IF Readable(NextEntry.sub) THEN Entries(NextEntry.sub) ELSE <<>>, NextPos, TRUE,
          NextEntry.mode)
DirInside == Append(Ready.levels, DirLevel)

LEMMA DirHeld ==
    ASSUME WalkKept, AtEntry("restore"), NextEntry.kind = "dir"
    PROVE  /\ DirLevel.path = NextPath /\ DirLevel.pos = NextPos
           /\ DirLevel.todo = IF Readable(NextEntry.sub) THEN Entries(NextEntry.sub) ELSE <<>>
           /\ Levels(DirInside) /\ Chained(DirInside) /\ Held(DirInside, Ready.modes)
           /\ DirInside # <<>> /\ DirInside[1].recorded = "none"
           /\ Len(DirInside) \in Nat \ {0} /\ ~DirInside[Len(DirInside)].loosened
<1> DEFINE todo == IF Readable(NextEntry.sub) THEN Entries(NextEntry.sub) ELSE <<>>
           level == Level(NextPath, todo, NextPos, TRUE, NextEntry.mode)
           inside == Append(Ready.levels, level)
<1>1. level = DirLevel /\ inside = DirInside
  BY DEF DirLevel, DirInside
<1>2. /\ Left(stack, Ready) /\ Ready.levels[1].recorded = "none" /\ Ready.levels # <<>>
      /\ Levels(stack) /\ Chained(stack) /\ Held(stack, mode) /\ stack # <<>> /\ Top.todo # <<>>
  BY AtReady
<1>3. Levels(Ready.levels) /\ Chained(Ready.levels) /\ Held(Ready.levels, Ready.modes)
  BY <1>2 DEF Left
<1>4. NextEntry.mode \in Recorded /\ NextEntry.sub \in DOMAIN snapshot.trees /\ IsList(Top.path)
  BY <1>2, AdvancedHeld
<1>5. GoodEntries(todo)
  <2>1. GoodEntries(<<>>)
    <3>1. \A e \in ToSet(<<>>) : FALSE
      BY DEF ToSet
    <3> QED
      BY <3>1, NoLevels DEF GoodEntries
  <2>2. snapshot \in Snapshots
    BY DEF WalkKept, Chosen3
  <2>3. GoodEntries(Entries(NextEntry.sub))
    BY <1>4, <2>2, SnapshotsAssumption DEF GoodEntries, Entries, Recorded
  <2> QED
    BY <2>1, <2>3
<1>6. IsList(NextPath) /\ NextPath # <<>>
  <2>1. IsList(NextPath) /\ Len(NextPath) = Len(Top.path) + 1 /\ Len(Top.path) \in Nat
    BY <1>4, ListAppend, ListFacts DEF NextPath
  <2>2. Len(<<>>) = 0
    OBVIOUS
  <2> QED
    BY <2>1, <2>2
<1> HIDE DEF todo
<1>7. /\ IsLevel(level) /\ level.path = NextPath /\ level.todo = todo
      /\ level.pos = NextPos /\ ~level.handle /\ ~level.loosened
  BY <1>4, <1>6 DEF Level, IsLevel, LevelWith, Recorded
<1> HIDE DEF level
<1>8. /\ Levels(inside) /\ Chained(inside) /\ Held(inside, Ready.modes)
      /\ inside # <<>> /\ inside[1].recorded = "none" /\ inside[Len(inside)] = level
      /\ Len(inside) \in Nat \ {0}
  <2>1. GoodEntries(level.todo) /\ IsList(level.path)
    BY <1>5, <1>6, <1>7
  <2>2. /\ Levels(inside) /\ Chained(inside) /\ Held(inside, Ready.modes)
        /\ inside # <<>> /\ inside[1] = Ready.levels[1] /\ inside[Len(inside)] = level
        /\ Len(inside) \in Nat \ {0}
    <3>1. Ready.levels # <<>> /\ IsLevel(level) /\ ~level.handle
      BY <1>2, <1>7
    <3>2. ASSUME NEW ls, NEW ms, ls # <<>>, Levels(ls), Chained(ls), Held(ls, ms)
          PROVE  /\ Levels(Append(ls, level)) /\ Chained(Append(ls, level))
                 /\ Held(Append(ls, level), ms)
                 /\ Append(ls, level) # <<>> /\ Append(ls, level)[1] = ls[1]
                 /\ Append(ls, level)[Len(Append(ls, level))] = level
                 /\ Len(Append(ls, level)) \in Nat \ {0}
      <4> HIDE DEF inside
      <4> QED
        BY <2>1, <3>1, <3>2, InsideHeld
    <3> QED
      BY <1>3, <3>1, <3>2
  <2> QED
    BY <1>2, <2>2
<1> QED
  BY <1>1, <1>7, <1>8 DEF todo

(* A directory. *)
LEMMA RestoreDirKept ==
    ASSUME WalkKept, RestoreDir
    PROVE  WalkKept'
<1> DEFINE inside == DirInside
           into == IF NextPos.selected THEN Ensure(inside, Ready.modes, FALSE)
                   ELSE Attempt(inside, Ready.modes, TRUE)
<1>1. /\ AtEntry("restore") /\ NextEntry.kind = "dir" /\ places' = places
      /\ UNCHANGED <<snapshot, request, world, placed>> /\ phase' = phase
      /\ mode' = into.modes
      /\ stack' = into.levels \/ stack' = Front(into.levels)
  BY Zenon DEF RestoreDir, Enters, rigid, DirInside, DirLevel
<1>2. phase = "restore" /\ GoodPlaces(places)
  BY <1>1, AtReady
<1>8. /\ Levels(inside) /\ Chained(inside) /\ Held(inside, Ready.modes)
      /\ inside # <<>> /\ inside[1].recorded = "none" /\ ~inside[Len(inside)].loosened
      /\ Len(inside) \in Nat \ {0}
  BY <1>1, DirHeld
<1> HIDE DEF inside
<1>9. Left(inside, into) /\ ~into.levels[Len(inside)].loosened
  <2>1. CASE NextPos.selected
    <3>1. into = Ensure(inside, Ready.modes, FALSE)
      BY <2>1
    <3>2. Left(inside, into)
      BY <1>8, <3>1, EnsureLeft
    <3>3. into.levels[Len(inside)].loosened = inside[Len(inside)].loosened
      <4>1. \A x \in BOOLEAN : x = FALSE =>
               Ensure(inside, Ready.modes, x).levels[Len(inside)].loosened = inside[Len(inside)].loosened
        BY <1>8, EnsureHolds
      <4> QED
        BY <3>1, <4>1
    <3> QED
      BY <1>8, <3>2, <3>3
  <2>2. CASE ~NextPos.selected
    <3>1. into.levels = inside /\ into.modes = Ready.modes /\ into.ok = TRUE
      BY <2>2 DEF Attempt
    <3> HIDE DEF into
    <3> QED
      BY <1>8, <3>1 DEF Left
  <2> QED
    BY <2>1, <2>2
<1> HIDE DEF into
<1>10. /\ Levels(into.levels) /\ Chained(into.levels) /\ Held(into.levels, into.modes)
       /\ Len(into.levels) = Len(inside) /\ into.levels[1].recorded = "none"
       /\ into.levels # <<>>
  <2>1. 1 \in DOMAIN inside
    BY <1>8, ListFacts DEF Levels
  <2>2. Len(<<>>) = 0
    OBVIOUS
  <2> QED
    BY <1>8, <1>9, <2>1, <2>2 DEF Left
<1>11. CASE stack' = into.levels
  BY <1>1, <1>2, <1>10, <1>11, RestoreOn
<1>12. CASE stack' = Front(into.levels)
  <2>1. /\ Levels(Front(into.levels)) /\ Chained(Front(into.levels))
        /\ Held(Front(into.levels), into.modes)
        /\ Front(into.levels) # <<>> => Front(into.levels)[1] = into.levels[1]
    BY <1>9, <1>10, FrontHeld
  <2> QED
    BY <1>1, <1>2, <1>10, <1>12, <2>1, RestoreOn
<1> QED
  BY <1>1, <1>11, <1>12

(* The end of a directory. *)
LEMMA RestoreLeaveKept ==
    ASSUME WalkKept, RestoreLeave
    PROVE  WalkKept'
<1> DEFINE n == Len(stack)
           open == Ensure(stack, mode, TRUE)
           level == Last(open.levels)
<1>1. /\ AtEnd("restore") /\ stack' = Front(stack) /\ phase' = phase /\ places' = places
      /\ UNCHANGED <<snapshot, request, world, placed>>
      /\ \/ (~Top.isDir \/ ~Top.handle) /\ mode' = mode
         \/ Top.isDir /\ Top.handle /\ level.recorded = "none" /\ mode' = open.modes
         \/ /\ Top.isDir /\ Top.handle /\ level.recorded # "none"
            /\ \/ mode' = [open.modes EXCEPT ![level.path] = PutBack(level, open.modes[level.path])]
               \/ mode' = [open.modes EXCEPT ![level.path] = level.recorded]
  BY Zenon DEF RestoreLeave, rigid
<1>2. /\ phase = "restore" /\ stack # <<>> /\ GoodPlaces(places)
      /\ Levels(stack) /\ Chained(stack) /\ Held(stack, mode) /\ stack[1].recorded = "none"
  BY <1>1 DEF AtEnd, WalkKept, RestoreKept
<1>3. n \in Nat \ {0} /\ DOMAIN stack = 1 .. n /\ IsLevel(stack[n]) /\ Top = stack[n]
  <2>1. stack \in Seq(ToSet(stack))
    BY <1>2 DEF Levels, IsList
  <2>2. n \in Nat \ {0} /\ DOMAIN stack = 1 .. n
    BY <1>2, <2>1
  <2> QED
    BY <1>2, <2>2 DEF Levels, Top
<1>4. /\ IsList(Front(stack)) /\ Len(Front(stack)) = n - 1 /\ DOMAIN Front(stack) = 1 .. n - 1
      /\ \A k \in 1 .. n - 1 : Front(stack)[k] = stack[k]
  <2>1. IsList(stack)
    BY <1>2 DEF Levels
  <2>2. /\ IsList(Front(stack)) /\ Len(Front(stack)) = n - 1
        /\ \A k \in 1 .. n - 1 : Front(stack)[k] = stack[k]
    BY <1>2, <2>1, ListFront
  <2> QED
    BY <2>2, ListFacts
<1> HIDE DEF n
<1>5. Levels(Front(stack)) /\ Chained(Front(stack))
  BY <1>2, <1>3, <1>4 DEF Levels, Chained
<1>6. Front(stack) # <<>> => Front(stack)[1].recorded = "none"
  <2>1. Front(stack) # <<>> => n - 1 # 0
    <3>1. Front(stack) \in Seq(ToSet(Front(stack)))
      BY <1>4 DEF IsList
    <3> QED
      BY <1>4, <3>1
  <2> QED
    BY <1>2, <1>3, <1>4, <2>1
<1>7. SUFFICES Held(Front(stack), mode')
  BY <1>1, <1>2, <1>5, <1>6, RestoreOn
<1>8. CASE (~Top.isDir \/ ~Top.handle) /\ mode' = mode
  <2>1. ~stack[n].loosened
    BY <1>3, <1>8 DEF IsLevel
  <2> QED
    BY <1>2, <1>3, <1>4, <1>8, <2>1 DEF Held
<1>9. ASSUME Top.isDir, Top.handle
      PROVE  /\ level = open.levels[n] /\ level.path = stack[n].path /\ level.recorded \in Recorded
             /\ level.loosened => level.recorded # "none"
             /\ \A p \in DOMAIN open.modes : open.modes[p] = "loosened" =>
                   \/ level.path = p /\ level.loosened
                   \/ \E k \in 1 .. n - 1 : stack[k].path = p /\ stack[k].loosened
  <2>1. After(stack, open, n)
    BY <1>2, <1>3, EnsureHolds DEF n
  <2>2. /\ DOMAIN open.levels = 1 .. n /\ IsList(open.levels) /\ Levels(open.levels)
        /\ Held(open.levels, open.modes) /\ SameLevels(stack, open.levels)
    BY <1>3, <2>1 DEF After, SameLevels, Levels
  <2> HIDE DEF open
  <2>3. Len(open.levels) = n
    <3>1. Len(open.levels) \in Nat /\ DOMAIN open.levels = 1 .. Len(open.levels)
      BY <2>2, ListFacts
    <3> QED
      BY <1>3, <2>2, <3>1
  <2>4. level = open.levels[n]
    BY <2>3 DEF Last
  <2>5. level.path = stack[n].path /\ IsLevel(level)
    BY <1>3, <2>2, <2>4 DEF SameLevels, Levels
  <2>6. \A k \in 1 .. n - 1 : stack[k].prepared /\ open.levels[k].loosened = stack[k].loosened
                              /\ open.levels[k].path = stack[k].path
    <3>1. \A k \in 1 .. n - 1 : k \in DOMAIN stack /\ k < n
      BY <1>3
    <3> QED
      BY <1>2, <1>3, <1>9, <2>2, <3>1 DEF Chained, SameLevels
  <2>7. \A k \in 1 .. n : k = n \/ k \in 1 .. n - 1
    BY <1>3
  <2>8. \A p \in DOMAIN open.modes : open.modes[p] = "loosened" =>
           \/ level.path = p /\ level.loosened
           \/ \E k \in 1 .. n - 1 : stack[k].path = p /\ stack[k].loosened
    BY <2>2, <2>4, <2>6, <2>7 DEF Held
  <2> HIDE DEF level
  <2> QED
    BY <2>4, <2>5, <2>8 DEF IsLevel
<1> HIDE DEF open, level
<1>10. CASE Top.isDir /\ Top.handle /\ level.recorded = "none" /\ mode' = open.modes
  <2>1. ~level.loosened
    BY <1>9, <1>10
  <2> QED
    BY <1>4, <1>9, <1>10, <2>1 DEF Held
<1>11. ASSUME Top.isDir, Top.handle, NEW v, v # "loosened" \/ (~level.loosened /\ v = open.modes[level.path]),
              mode' = [open.modes EXCEPT ![level.path] = v]
       PROVE  Held(Front(stack), mode')
  <2>1. SUFFICES ASSUME NEW p \in DOMAIN mode', mode'[p] = "loosened"
                 PROVE  \E k \in DOMAIN Front(stack) : Front(stack)[k].path = p /\ Front(stack)[k].loosened
    BY DEF Held
  <2>2. p \in DOMAIN open.modes /\ open.modes[p] = "loosened" /\ ~(level.path = p /\ level.loosened)
    BY <1>11, <2>1
  <2>3. \E k \in 1 .. n - 1 : stack[k].path = p /\ stack[k].loosened
    BY <1>9, <1>11, <2>2
  <2> QED
    BY <1>4, <2>3
<1>12. CASE /\ Top.isDir /\ Top.handle /\ level.recorded # "none"
            /\ mode' = [open.modes EXCEPT ![level.path] = PutBack(level, open.modes[level.path])]
  <2>1. \/ PutBack(level, open.modes[level.path]) # "loosened"
        \/ ~level.loosened /\ PutBack(level, open.modes[level.path]) = open.modes[level.path]
    BY DEF PutBack
  <2> QED
    BY <1>11, <1>12, <2>1
<1>13. CASE /\ Top.isDir /\ Top.handle /\ level.recorded # "none"
            /\ mode' = [open.modes EXCEPT ![level.path] = level.recorded]
  <2>1. level.recorded # "loosened"
    BY <1>9, <1>13 DEF Recorded
  <2> QED
    BY <1>11, <1>13, <2>1
<1> QED
  BY <1>1, <1>8, <1>10, <1>12, <1>13

(* The end of the restore, and a placement that could not be made. *)
LEMMA RestoreEndKept ==
    ASSUME WalkKept, RestoreEnd \/ RestoreBlocked
    PROVE  WalkKept'
<1>1. /\ phase = "restore" /\ phase' \in {"done", "failed"} /\ stack' = stack /\ mode' = mode
      /\ places' = places /\ UNCHANGED <<snapshot, request, world, placed>>
      /\ GoodPlaces(places) /\ Held(stack, mode)
  BY DEF RestoreEnd, RestoreBlocked, BaseFailed, WalkKept, rigid
<1> QED
  BY <1>1, RestoreOn

(* Every step keeps the invariant. *)
LEMMA StepKept ==
    ASSUME WalkKept, [WalkNext]_walkVars
    PROVE  WalkKept'
<1>1. CASE Place \/ PlanPlace \/ PlanSkip \/ PlanLeaf \/ PlanDir \/ PlanLeave \/ PlanEnd
  BY <1>1, PlanKept
<1>2. CASE RestorePlace
  BY <1>2, RestorePlaceKept
<1>3. CASE RestoreSkip
  BY <1>3, RestoreSkipKept
<1>4. CASE RestoreStuck
  BY <1>4, RestoreStuckKept
<1>5. CASE RestoreLeaf
  BY <1>5, RestoreLeafKept
<1>6. CASE RestoreDir
  BY <1>6, RestoreDirKept
<1>7. CASE RestoreLeave
  BY <1>7, RestoreLeaveKept
<1>8. CASE RestoreEnd \/ RestoreBlocked
  BY <1>8, RestoreEndKept
<1>9. CASE UNCHANGED walkVars
  BY <1>9 DEF walkVars, WalkKept, Chosen3, GoodPlaces, NothingLoose, RestoreKept, Levels,
              GoodEntries, Chained, Held
<1> QED
  BY <1>1, <1>2, <1>3, <1>4, <1>5, <1>6, <1>7, <1>8, <1>9 DEF WalkNext

(* Whatever is loosened is a directory that the restore is in, which knows *)
(* of it.                                                                  *)
THEOREM WalkKeeps == WalkSpec => []WalkKept
<1>1. WalkInit => WalkKept
  BY InitKept
<1>2. WalkKept /\ [WalkNext]_walkVars => WalkKept'
  BY StepKept
<1> QED
  BY <1>1, <1>2, PTL DEF WalkSpec

(* A directory is writable only for as long as the restore works in it:    *)
(* whichever entries, levels and metadata fail, and wherever the restore   *)
(* gives up, it gets its recorded mode or the one it had.                  *)
THEOREM LoosenedAlwaysRestored == WalkSpec => []LoosenedRestored
<1>1. WalkKept => LoosenedRestored
  BY DEF WalkKept, Held, LoosenedRestored
<1> QED
  BY <1>1, WalkKeeps, PTL

(***************************************************************************)
(* What a filter selects.                                                  *)
(***************************************************************************)
(* Parts a + 1 .. b of a pattern, laid out from i to j: those in S take    *)
(* what they like, the others one element that they fit.                   *)
LaidBy(c, S, F, a, b) ==
    \A k \in a + 1 .. b : /\ c[k - 1] <= c[k]
                          /\ k \notin S => c[k] = c[k - 1] + 1 /\ <<k, c[k]>> \in F

Laid(S, F, a, b, i, j) == \E c \in [a .. b -> Nat] : c[a] = i /\ c[b] = j /\ LaidBy(c, S, F, a, b)

(* Where the parts end goes up. *)
LEMMA LaidUp ==
    ASSUME NEW S, NEW F, NEW a \in Nat, NEW b \in Nat, a <= b, NEW c \in [a .. b -> Nat], LaidBy(c, S, F, a, b)
    PROVE  \A m \in a .. b : c[a] <= c[m] /\ c[m] <= c[b]
<1> DEFINE n == b - a
           P == {x \in 0 .. n : c[a] <= c[a + x]}
           Q == {x \in 0 .. n : c[b - x] <= c[b]}
<1>0. n \in Nat
  OBVIOUS
<1>1. \A x \in 0 .. n : x \in P
  <2>1. 0 \in P
    OBVIOUS
  <2>2. ASSUME NEW x \in 0 .. n - 1, x \in P PROVE x + 1 \in P
    <3> DEFINE k == a + x + 1
    <3>1. k \in a + 1 .. b /\ k - 1 = a + x /\ a + (x + 1) = k /\ k \in a .. b /\ a + x \in a .. b
      OBVIOUS
    <3>2. c[k - 1] <= c[k]
      BY <3>1 DEF LaidBy
    <3>3. c[a] <= c[k]
      BY <2>2, <3>1, <3>2
    <3> QED
      BY <3>1, <3>3
  <2> HIDE DEF P, n
  <2> QED
    BY <1>0, <2>1, <2>2, UpTo
<1>2. \A x \in 0 .. n : x \in Q
  <2>1. 0 \in Q
    OBVIOUS
  <2>2. ASSUME NEW x \in 0 .. n - 1, x \in Q PROVE x + 1 \in Q
    <3> DEFINE k == b - x
    <3>1. k \in a + 1 .. b /\ b - (x + 1) = k - 1 /\ k \in a .. b /\ k - 1 \in a .. b
      OBVIOUS
    <3>2. c[k - 1] <= c[k]
      BY <3>1 DEF LaidBy
    <3>3. c[k - 1] <= c[b]
      BY <2>2, <3>1, <3>2
    <3> QED
      BY <3>1, <3>3
  <2> HIDE DEF Q, n
  <2> QED
    BY <1>0, <2>1, <2>2, UpTo
<1>3. ASSUME NEW m \in a .. b PROVE c[a] <= c[m] /\ c[m] <= c[b]
  <2>1. m - a \in 0 .. n /\ b - m \in 0 .. n /\ a + (m - a) = m /\ b - (b - m) = m
    OBVIOUS
  <2>2. m - a \in P /\ b - m \in Q
    BY <1>1, <1>2, <2>1
  <2> QED
    BY <2>1, <2>2
<1> QED
  BY <1>3

(* One part after another. *)
LEMMA LaidJoin ==
    ASSUME NEW S, NEW F, NEW a \in Nat, NEW m \in Nat, NEW b \in Nat, a <= m, m <= b,
           NEW i, NEW x, NEW j, Laid(S, F, a, m, i, x), Laid(S, F, m, b, x, j)
    PROVE  Laid(S, F, a, b, i, j)
<1>1. PICK c \in [a .. m -> Nat] : c[a] = i /\ c[m] = x /\ LaidBy(c, S, F, a, m)
  BY DEF Laid
<1>2. PICK d \in [m .. b -> Nat] : d[m] = x /\ d[b] = j /\ LaidBy(d, S, F, m, b)
  BY DEF Laid
<1> DEFINE e == [k \in a .. b |-> IF k <= m THEN c[k] ELSE d[k]]
<1>3. e \in [a .. b -> Nat]
  OBVIOUS
<1>4. \A k \in a .. m : e[k] = c[k]
  OBVIOUS
<1>5. \A k \in m .. b : e[k] = d[k]
  BY <1>1, <1>2
<1> HIDE DEF e
<1>6. e[a] = i /\ e[b] = j
  BY <1>1, <1>2, <1>4, <1>5
<1>7. ASSUME NEW k \in a + 1 .. b
      PROVE  /\ e[k - 1] <= e[k]
             /\ k \notin S => e[k] = e[k - 1] + 1 /\ <<k, e[k]>> \in F
  <2>1. CASE k <= m
    <3>1. k \in a + 1 .. m /\ k \in a .. m /\ k - 1 \in a .. m
      BY <2>1
    <3> QED
      BY <1>1, <1>4, <3>1 DEF LaidBy
  <2>2. CASE k > m
    <3>1. k \in m + 1 .. b /\ k \in m .. b /\ k - 1 \in m .. b
      BY <2>2
    <3> QED
      BY <1>2, <1>5, <3>1 DEF LaidBy
  <2> QED
    BY <2>1, <2>2
<1>8. LaidBy(e, S, F, a, b)
  BY <1>7 DEF LaidBy
<1> QED
  BY <1>3, <1>6, <1>8 DEF Laid

(* The parts up to one of them, and the rest. *)
LEMMA LaidCut ==
    ASSUME NEW S, NEW F, NEW a \in Nat, NEW b \in Nat, NEW m \in a .. b,
           NEW c \in [a .. b -> Nat], LaidBy(c, S, F, a, b)
    PROVE  Laid(S, F, a, m, c[a], c[m]) /\ Laid(S, F, m, b, c[m], c[b])
<1>1. Laid(S, F, a, m, c[a], c[m])
  <2> DEFINE d == [k \in a .. m |-> c[k]]
  <2>1. d \in [a .. m -> Nat] /\ d[a] = c[a] /\ d[m] = c[m]
    OBVIOUS
  <2>2. \A k \in a + 1 .. m : d[k] = c[k] /\ d[k - 1] = c[k - 1] /\ k \in a + 1 .. b
    OBVIOUS
  <2> HIDE DEF d
  <2>3. LaidBy(d, S, F, a, m)
    BY <2>2 DEF LaidBy
  <2> QED
    BY <2>1, <2>3 DEF Laid
<1>2. Laid(S, F, m, b, c[m], c[b])
  <2> DEFINE d == [k \in m .. b |-> c[k]]
  <2>1. d \in [m .. b -> Nat] /\ d[m] = c[m] /\ d[b] = c[b]
    OBVIOUS
  <2>2. \A k \in m + 1 .. b : d[k] = c[k] /\ d[k - 1] = c[k - 1] /\ k \in a + 1 .. b
    OBVIOUS
  <2> HIDE DEF d
  <2>3. LaidBy(d, S, F, m, b)
    BY <2>2 DEF LaidBy
  <2> QED
    BY <2>1, <2>3 DEF Laid
<1> QED
  BY <1>1, <1>2

LEMMA LaidSplit ==
    ASSUME NEW S, NEW F, NEW a \in Nat, NEW b \in Nat, NEW m \in a .. b, NEW i, NEW j, Laid(S, F, a, b, i, j)
    PROVE  \E x \in Nat : /\ i \in Nat /\ j \in Nat /\ i <= x /\ x <= j
                          /\ Laid(S, F, a, m, i, x) /\ Laid(S, F, m, b, x, j)
<1>1. PICK c \in [a .. b -> Nat] : c[a] = i /\ c[b] = j /\ LaidBy(c, S, F, a, b)
  BY DEF Laid
<1>2. c[a] <= c[m] /\ c[m] <= c[b]
  BY <1>1, LaidUp
<1>3. Laid(S, F, a, m, c[a], c[m]) /\ Laid(S, F, m, b, c[m], c[b])
  BY <1>1, LaidCut
<1>4. c[m] \in Nat /\ c[a] \in Nat /\ c[b] \in Nat
  OBVIOUS
<1> QED
  BY <1>1, <1>2, <1>3, <1>4

(* No part, and one. *)
LEMMA LaidNone ==
    ASSUME NEW S, NEW F, NEW a \in Nat, NEW i \in Nat, NEW j
    PROVE  Laid(S, F, a, a, i, j) <=> i = j
<1>1. ASSUME Laid(S, F, a, a, i, j) PROVE i = j
  BY <1>1 DEF Laid
<1>2. ASSUME i = j PROVE Laid(S, F, a, a, i, j)
  <2> DEFINE c == [k \in a .. a |-> i]
  <2>1. c \in [a .. a -> Nat] /\ c[a] = i
    OBVIOUS
  <2>2. a + 1 .. a = {}
    OBVIOUS
  <2>3. LaidBy(c, S, F, a, a)
    BY <2>2 DEF LaidBy
  <2> HIDE DEF c
  <2> QED
    BY <1>2, <2>1, <2>3 DEF Laid
<1> QED
  BY <1>1, <1>2

LEMMA LaidOne ==
    ASSUME NEW S, NEW F, NEW k \in Nat \ {0}, NEW i \in Nat, NEW j \in Nat
    PROVE  Laid(S, F, k - 1, k, i, j) <=> i <= j /\ (k \notin S => j = i + 1 /\ <<k, j>> \in F)
<1>1. ASSUME Laid(S, F, k - 1, k, i, j) PROVE i <= j /\ (k \notin S => j = i + 1 /\ <<k, j>> \in F)
  <2>1. PICK c \in [k - 1 .. k -> Nat] : c[k - 1] = i /\ c[k] = j /\ LaidBy(c, S, F, k - 1, k)
    BY <1>1 DEF Laid
  <2>2. k \in (k - 1) + 1 .. k
    OBVIOUS
  <2> QED
    BY <2>1, <2>2 DEF LaidBy
<1>2. ASSUME i <= j, k \notin S => j = i + 1 /\ <<k, j>> \in F PROVE Laid(S, F, k - 1, k, i, j)
  <2> DEFINE c == [l \in k - 1 .. k |-> IF l = k THEN j ELSE i]
  <2>1. c \in [k - 1 .. k -> Nat] /\ c[k - 1] = i /\ c[k] = j
    OBVIOUS
  <2>2. \A l \in (k - 1) + 1 .. k : l = k
    OBVIOUS
  <2> HIDE DEF c
  <2>3. LaidBy(c, S, F, k - 1, k)
    BY <1>2, <2>1, <2>2 DEF LaidBy
  <2> QED
    BY <2>1, <2>3 DEF Laid
<1> QED
  BY <1>1, <1>2

(* The first of several. *)
LEMMA LaidFirst ==
    ASSUME NEW S, NEW F, NEW a \in Nat, NEW b \in Nat, a < b, NEW i \in Nat, NEW j \in Nat
    PROVE  /\ a + 1 \in S => (Laid(S, F, a, b, i, j) <=> \E x \in i .. j : Laid(S, F, a + 1, b, x, j))
           /\ a + 1 \notin S =>
                 (Laid(S, F, a, b, i, j) <=> <<a + 1, i + 1>> \in F /\ Laid(S, F, a + 1, b, i + 1, j))
<1> DEFINE m == a + 1
<1>1. m \in Nat \ {0} /\ m \in a .. b /\ m - 1 = a /\ a <= m /\ m <= b
  OBVIOUS
<1> HIDE DEF m
<1>2. \A x \in Nat : Laid(S, F, a, m, i, x) <=> i <= x /\ (m \notin S => x = i + 1 /\ <<m, x>> \in F)
  BY <1>1, LaidOne
<1>3. ASSUME Laid(S, F, a, b, i, j)
      PROVE  \E x \in Nat : /\ i <= x /\ x <= j /\ Laid(S, F, a, m, i, x) /\ Laid(S, F, m, b, x, j)
  BY <1>1, <1>3, LaidSplit
<1>4. ASSUME NEW x \in Nat, Laid(S, F, a, m, i, x), Laid(S, F, m, b, x, j)
      PROVE  Laid(S, F, a, b, i, j)
  BY <1>1, <1>4, LaidJoin
<1>5. CASE m \in S
  <2>1. ASSUME Laid(S, F, a, b, i, j) PROVE \E x \in i .. j : Laid(S, F, m, b, x, j)
    BY <1>3, <2>1
  <2>2. ASSUME NEW x \in i .. j, Laid(S, F, m, b, x, j) PROVE Laid(S, F, a, b, i, j)
    <3>1. x \in Nat /\ i <= x
      OBVIOUS
    <3>2. Laid(S, F, a, m, i, x)
      BY <1>2, <1>5, <3>1
    <3> QED
      BY <1>4, <2>2, <3>1, <3>2
  <2> QED
    BY <1>5, <2>1, <2>2 DEF m
<1>6. CASE m \notin S
  <2>1. ASSUME Laid(S, F, a, b, i, j) PROVE <<m, i + 1>> \in F /\ Laid(S, F, m, b, i + 1, j)
    BY <1>2, <1>3, <1>6, <2>1
  <2>2. ASSUME <<m, i + 1>> \in F, Laid(S, F, m, b, i + 1, j) PROVE Laid(S, F, a, b, i, j)
    <3>1. i + 1 \in Nat /\ Laid(S, F, a, m, i, i + 1)
      BY <1>2, <1>6, <2>2
    <3> QED
      BY <1>4, <2>2, <3>1
  <2> QED
    BY <1>6, <2>1, <2>2 DEF m
<1> QED
  BY <1>5, <1>6

(* Nothing is left for the parts: they have to take nothing. *)
LEMMA LaidStars ==
    ASSUME NEW S, NEW F, NEW a \in Nat, NEW b \in Nat, a <= b, NEW i \in Nat
    PROVE  Laid(S, F, a, b, i, i) <=> \A k \in a + 1 .. b : k \in S
<1>1. ASSUME Laid(S, F, a, b, i, i), NEW k \in a + 1 .. b PROVE k \in S
  <2>1. PICK c \in [a .. b -> Nat] : c[a] = i /\ c[b] = i /\ LaidBy(c, S, F, a, b)
    BY <1>1 DEF Laid
  <2>2. k \in a .. b /\ k - 1 \in a .. b
    OBVIOUS
  <2>3. c[k] = i /\ c[k - 1] = i
    <3>1. \A m \in a .. b : c[a] <= c[m] /\ c[m] <= c[b] /\ c[m] \in Nat
      BY <2>1, LaidUp
    <3> QED
      BY <2>1, <2>2, <3>1
  <2>4. c[k] # c[k - 1] + 1
    BY <2>3
  <2>5. k \notin S => c[k] = c[k - 1] + 1
    BY <2>1 DEF LaidBy
  <2> QED
    BY <2>4, <2>5
<1>2. ASSUME \A k \in a + 1 .. b : k \in S PROVE Laid(S, F, a, b, i, i)
  <2> DEFINE c == [k \in a .. b |-> i]
  <2>1. c \in [a .. b -> Nat] /\ c[a] = i /\ c[b] = i
    OBVIOUS
  <2>2. \A k \in a + 1 .. b : c[k] = i /\ c[k - 1] = i
    OBVIOUS
  <2> HIDE DEF c
  <2>3. LaidBy(c, S, F, a, b)
    BY <1>2, <2>2 DEF LaidBy
  <2> QED
    BY <2>1, <2>3 DEF Laid
<1> QED
  BY <1>1, <1>2

(* The part that is in the way of a border. *)
LEMMA LaidAcross ==
    ASSUME NEW S, NEW F, NEW b \in Nat, NEW l \in Nat, NEW j \in Nat, l < j, Laid(S, F, 0, b, 0, j)
    PROVE  \E k \in 1 .. b : \E x \in 0 .. l : \E y \in l + 1 .. j :
              /\ Laid(S, F, 0, k - 1, 0, x) /\ Laid(S, F, k - 1, k, x, y) /\ Laid(S, F, k, b, y, j)
<1>1. PICK c \in [0 .. b -> Nat] : c[0] = 0 /\ c[b] = j /\ LaidBy(c, S, F, 0, b)
  BY DEF Laid
<1>2. \E k \in 1 .. b : c[k - 1] <= l /\ l < c[k]
  <2> SUFFICES ASSUME \A k \in 1 .. b : c[k - 1] <= l => ~(l < c[k]) PROVE FALSE
    OBVIOUS
  <2> DEFINE P == {k \in 0 .. b : c[k] <= l}
  <2>1. 0 \in P
    BY <1>1
  <2>2. ASSUME NEW k \in 0 .. b - 1, k \in P PROVE k + 1 \in P
    <3>1. k + 1 \in 1 .. b /\ (k + 1) - 1 = k /\ c[k + 1] \in Nat
      OBVIOUS
    <3>2. ~(l < c[k + 1])
      BY <2>2, <3>1
    <3> QED
      BY <3>1, <3>2
  <2> HIDE DEF P
  <2>3. b \in P
    <3>1. b \in 0 .. b
      OBVIOUS
    <3> QED
      BY <2>1, <2>2, <3>1, UpTo
  <2> QED
    BY <1>1, <2>3 DEF P
<1>3. PICK k \in 1 .. b : c[k - 1] <= l /\ l < c[k]
  BY <1>2
<1>4. k \in 0 .. b /\ k - 1 \in 0 .. b /\ k - 1 \in 0 .. k /\ 0 \in 0 .. b /\ b \in 0 .. b
  OBVIOUS
<1>5. c[k] \in Nat /\ c[k - 1] \in Nat /\ c[k] <= c[b]
  BY <1>1, <1>4, LaidUp
<1>6. Laid(S, F, 0, k - 1, 0, c[k - 1]) /\ Laid(S, F, k, b, c[k], j)
  BY <1>1, <1>4, LaidCut
<1>7. Laid(S, F, k - 1, k, c[k - 1], c[k])
  <2>1. k \in 0 + 1 .. b /\ k \in Nat \ {0}
    OBVIOUS
  <2>2. c[k - 1] <= c[k] /\ (k \notin S => c[k] = c[k - 1] + 1 /\ <<k, c[k]>> \in F)
    BY <1>1, <2>1 DEF LaidBy
  <2> QED
    BY <1>5, <2>1, <2>2, LaidOne
<1>8. c[k - 1] \in 0 .. l /\ c[k] \in l + 1 .. j
  BY <1>1, <1>3, <1>5
<1> QED
  BY <1>6, <1>7, <1>8

(* Only what is laid out over counts. *)
LEMMA LaidSame ==
    ASSUME NEW S, NEW F, NEW G, NEW a \in Nat, NEW b \in Nat, a <= b, NEW i \in Nat, NEW j \in Nat,
           \A k \in a + 1 .. b : \A x \in 1 .. j : <<k, x>> \in F <=> <<k, x>> \in G
    PROVE  Laid(S, F, a, b, i, j) <=> Laid(S, G, a, b, i, j)
<1>1. ASSUME NEW c \in [a .. b -> Nat], NEW H, LaidBy(c, S, H, a, b), c[b] = j, NEW k \in a + 1 .. b, k \notin S
      PROVE  c[k] \in 1 .. j
  <2>1. k \in a .. b /\ k - 1 \in a .. b
    OBVIOUS
  <2>2. c[k] = c[k - 1] + 1 /\ c[k - 1] \in Nat
    BY <1>1, <2>1 DEF LaidBy
  <2>3. c[k] <= j
    BY <1>1, <2>1, LaidUp
  <2> QED
    BY <2>2, <2>3
<1>2. ASSUME NEW c \in [a .. b -> Nat], c[b] = j PROVE LaidBy(c, S, F, a, b) <=> LaidBy(c, S, G, a, b)
  <2>1. ASSUME LaidBy(c, S, F, a, b) PROVE LaidBy(c, S, G, a, b)
    <3>1. \A k \in a + 1 .. b : k \notin S => c[k] \in 1 .. j
      BY <1>1, <1>2, <2>1
    <3> QED
      BY <2>1, <3>1 DEF LaidBy
  <2>2. ASSUME LaidBy(c, S, G, a, b) PROVE LaidBy(c, S, F, a, b)
    <3>1. \A k \in a + 1 .. b : k \notin S => c[k] \in 1 .. j
      BY <1>1, <1>2, <2>2
    <3> QED
      BY <2>2, <3>1 DEF LaidBy
  <2> QED
    BY <2>1, <2>2
<1> QED
  BY <1>2 DEF Laid

(* Where the parts of a pattern can end. *)
LEMMA CutsAre ==
    ASSUME NEW T, NEW U, NEW parts \in Seq(T), NEW whole \in Seq(U), NEW c
    PROVE  c \in Cuts(parts, whole) <=>
              /\ c \in [0 .. Len(parts) -> Nat] /\ c[0] = 0 /\ c[Len(parts)] = Len(whole)
              /\ \A k \in 1 .. Len(parts) : c[k - 1] <= c[k]
<1> DEFINE n == Len(parts)
           l == Len(whole)
           Cut(inner) == [k \in 0 .. n |-> IF k = 0 THEN 0 ELSE IF k = n THEN l ELSE inner[k]]
<1>1. n \in Nat /\ l \in Nat
  OBVIOUS
<1> HIDE DEF n, l
<1>2. c \in Cuts(parts, whole) <=>
         /\ \E inner \in [1 .. n - 1 -> 0 .. l] : c = Cut(inner)
         /\ c[n] = l /\ \A k \in 1 .. n : c[k - 1] <= c[k]
  BY DEF Cuts, n, l
<1>3. ASSUME NEW inner \in [1 .. n - 1 -> 0 .. l], c = Cut(inner) PROVE c \in [0 .. n -> Nat] /\ c[0] = 0
  <2>1. \A k \in 0 .. n : (IF k = 0 THEN 0 ELSE IF k = n THEN l ELSE inner[k]) \in Nat
    BY <1>1
  <2> QED
    BY <1>1, <1>3, <2>1
<1>4. ASSUME c \in [0 .. n -> Nat], c[0] = 0, c[n] = l, \A k \in 1 .. n : c[k - 1] <= c[k]
      PROVE  \E inner \in [1 .. n - 1 -> 0 .. l] : c = Cut(inner)
  <2> DEFINE inner == [k \in 1 .. n - 1 |-> c[k]]
  <2>1. \A k \in 0 .. n : c[k] <= l
    <3>1. LaidBy(c, 1 .. n, {}, 0, n)
      BY <1>4 DEF LaidBy
    <3>2. 0 \in Nat /\ 0 <= n
      BY <1>1
    <3>3. \A k \in 0 .. n : c[0] <= c[k] /\ c[k] <= c[n]
      BY <1>1, <1>4, <3>1, <3>2, LaidUp
    <3> QED
      BY <1>4, <3>3
  <2>2. inner \in [1 .. n - 1 -> 0 .. l]
    BY <1>1, <1>4, <2>1
  <2>3. \A k \in 1 .. n - 1 : inner[k] = c[k]
    OBVIOUS
  <2> HIDE DEF inner
  <2>4. \A k \in 0 .. n : c[k] = IF k = 0 THEN 0 ELSE IF k = n THEN l ELSE inner[k]
    BY <1>1, <1>4, <2>3
  <2>5. c = Cut(inner)
    BY <1>4, <2>4
  <2> QED
    BY <2>2, <2>5
<1> HIDE DEF Cut
<1>5. (\E inner \in [1 .. n - 1 -> 0 .. l] : c = Cut(inner)) => c \in [0 .. n -> Nat] /\ c[0] = 0
  BY <1>3
<1> QED
  BY <1>2, <1>4, <1>5 DEF n, l

-----------------------------------------------------------------------------
(* One name.  The tokens from t on, laid out over the characters from p    *)
(* on; and whether those up to the next star fit from p on, or the name    *)
(* ends with them.                                                         *)
Rest(S, F, n, l, t, p) == Laid(S, F, t - 1, n, p - 1, l)
Settles(S, F, n, l, t, p) ==
    \E d \in 0 .. n + 1 - t :
        /\ \A k \in 0 .. d - 1 : t + k \notin S /\ <<t + k, p + k>> \in F
        /\ p + d = l + 1 \/ t + d \in S

Within(S, F, n, l) == n \in Nat /\ l \in Nat /\ S \subseteq 1 .. n /\ F \subseteq (1 .. n) \X (1 .. l)

LEMMA RestAtEnd ==
    ASSUME NEW S, NEW F, NEW n, NEW l, Within(S, F, n, l)
    PROVE  \A p \in 1 .. l + 1 : Rest(S, F, n, l, n + 1, p) <=> p = l + 1
<1>1. n \in Nat /\ l \in Nat
  BY DEF Within
<1>2. ASSUME NEW p \in 1 .. l + 1 PROVE Rest(S, F, n, l, n + 1, p) <=> p = l + 1
  <2> DEFINE i == p - 1
  <2>1. i \in Nat /\ (n + 1) - 1 = n /\ (i = l <=> p = l + 1)
    BY <1>1
  <2>2. Rest(S, F, n, l, n + 1, p) <=> Laid(S, F, n, n, i, l)
    BY <2>1 DEF Rest
  <2> HIDE DEF i
  <2>3. Laid(S, F, n, n, i, l) <=> i = l
    BY <1>1, <2>1, LaidNone
  <2> QED
    BY <2>1, <2>2, <2>3
<1> QED
  BY <1>2

LEMMA RestIs ==
    ASSUME NEW S, NEW F, NEW n, NEW l, Within(S, F, n, l), NEW t \in 1 .. n + 1, NEW p \in 1 .. l + 1
    PROVE  /\ p = l + 1 => (Rest(S, F, n, l, t, p) <=> \A k \in t .. n : k \in S)
           /\ t \in S => (Rest(S, F, n, l, t, p) <=> \E f \in p .. l + 1 : Rest(S, F, n, l, t + 1, f))
           /\ t <= n /\ t \notin S =>
                 (Rest(S, F, n, l, t, p) <=> <<t, p>> \in F /\ Rest(S, F, n, l, t + 1, p + 1))
           /\ t = n + 1 => (Rest(S, F, n, l, t, p) <=> p = l + 1)
<1>1. n \in Nat /\ l \in Nat /\ S \subseteq 1 .. n
  BY DEF Within
<1> DEFINE a == t - 1
           i == p - 1
<1>2. a \in Nat /\ i \in Nat /\ a <= n /\ a + 1 = t /\ i + 1 = p /\ (t + 1) - 1 = t /\ (p + 1) - 1 = p
  BY <1>1
<1>3. Rest(S, F, n, l, t, p) <=> Laid(S, F, a, n, i, l)
  BY DEF Rest
<1>4. \A f : Rest(S, F, n, l, t + 1, f) <=> Laid(S, F, t, n, f - 1, l)
  BY <1>2 DEF Rest
<1> HIDE DEF a, i
<1>5. ASSUME p = l + 1 PROVE Rest(S, F, n, l, t, p) <=> \A k \in t .. n : k \in S
  <2>1. i = l
    BY <1>1, <1>2, <1>5
  <2>2. Laid(S, F, a, n, i, i) <=> \A k \in a + 1 .. n : k \in S
    BY <1>1, <1>2, LaidStars
  <2> QED
    BY <1>2, <1>3, <2>1, <2>2
<1>6. ASSUME t <= n
      PROVE  /\ t \in S => (Laid(S, F, a, n, i, l) <=> \E x \in i .. l : Laid(S, F, t, n, x, l))
             /\ t \notin S => (Laid(S, F, a, n, i, l) <=> <<t, p>> \in F /\ Laid(S, F, t, n, p, l))
  <2>1. a < n
    BY <1>1, <1>2, <1>6
  <2>2. /\ a + 1 \in S => (Laid(S, F, a, n, i, l) <=> \E x \in i .. l : Laid(S, F, a + 1, n, x, l))
        /\ a + 1 \notin S =>
              (Laid(S, F, a, n, i, l) <=> <<a + 1, i + 1>> \in F /\ Laid(S, F, a + 1, n, i + 1, l))
    BY <1>1, <1>2, <2>1, LaidFirst
  <2> QED
    BY <1>2, <2>2
<1>7. ASSUME t \in S
      PROVE  Rest(S, F, n, l, t, p) <=> \E f \in p .. l + 1 : Rest(S, F, n, l, t + 1, f)
  <2>1. t <= n
    BY <1>1, <1>7
  <2>2. ASSUME NEW x \in i .. l, Laid(S, F, t, n, x, l)
        PROVE  \E f \in p .. l + 1 : Rest(S, F, n, l, t + 1, f)
    <3>1. x + 1 \in p .. l + 1 /\ (x + 1) - 1 = x
      BY <1>1, <1>2
    <3> QED
      BY <1>4, <2>2, <3>1
  <2>3. ASSUME NEW f \in p .. l + 1, Rest(S, F, n, l, t + 1, f)
        PROVE  \E x \in i .. l : Laid(S, F, t, n, x, l)
    <3>1. f - 1 \in i .. l
      BY <1>1, <1>2
    <3> QED
      BY <1>4, <2>3, <3>1
  <2> QED
    BY <1>3, <1>6, <1>7, <2>1, <2>2, <2>3
<1>8. ASSUME t <= n, t \notin S
      PROVE  Rest(S, F, n, l, t, p) <=> <<t, p>> \in F /\ Rest(S, F, n, l, t + 1, p + 1)
  BY <1>2, <1>3, <1>4, <1>6, <1>8
<1>9. t = n + 1 => (Rest(S, F, n, l, t, p) <=> p = l + 1)
  BY RestAtEnd
<1> QED
  BY <1>5, <1>7, <1>8, <1>9

LEMMA RestAtStar ==
    ASSUME NEW S, NEW F, NEW n, NEW l, Within(S, F, n, l), NEW t \in 1 .. n + 1, t \in S
    PROVE  \A p \in 1 .. l + 1 : Rest(S, F, n, l, t, p) <=> \E f \in p .. l + 1 : Rest(S, F, n, l, t + 1, f)
<1> SUFFICES ASSUME NEW p \in 1 .. l + 1
             PROVE  Rest(S, F, n, l, t, p) <=> \E f \in p .. l + 1 : Rest(S, F, n, l, t + 1, f)
  OBVIOUS
<1> QED
  BY RestIs

LEMMA SettlesIs ==
    ASSUME NEW S, NEW F, NEW n, NEW l, Within(S, F, n, l), NEW t \in 1 .. n + 1, NEW p \in 1 .. l + 1
    PROVE  /\ p = l + 1 \/ t \in S => Settles(S, F, n, l, t, p)
           /\ t <= n /\ t \notin S /\ p <= l =>
                 (Settles(S, F, n, l, t, p) <=> <<t, p>> \in F /\ Settles(S, F, n, l, t + 1, p + 1))
           /\ t = n + 1 /\ p <= l => ~Settles(S, F, n, l, t, p)
<1>1. n \in Nat /\ l \in Nat /\ S \subseteq 1 .. n
  BY DEF Within
<1>2. ASSUME p = l + 1 \/ t \in S PROVE Settles(S, F, n, l, t, p)
  <2>1. 0 \in 0 .. n + 1 - t /\ 0 .. 0 - 1 = {} /\ p + 0 = p /\ t + 0 = t
    BY <1>1
  <2> QED
    BY <1>2, <2>1 DEF Settles
<1>3. ASSUME t <= n, t \notin S, p <= l, Settles(S, F, n, l, t, p)
      PROVE  <<t, p>> \in F /\ Settles(S, F, n, l, t + 1, p + 1)
  <2>1. PICK d \in 0 .. n + 1 - t :
            /\ \A k \in 0 .. d - 1 : t + k \notin S /\ <<t + k, p + k>> \in F
            /\ p + d = l + 1 \/ t + d \in S
    BY <1>3 DEF Settles
  <2>2. d # 0
    BY <1>1, <1>3, <2>1
  <2> DEFINE e == d - 1
  <2>3. e \in 0 .. n + 1 - (t + 1) /\ 0 \in 0 .. d - 1 /\ t + 0 = t /\ p + 0 = p
        /\ (p + 1) + e = p + d /\ (t + 1) + e = t + d
    BY <1>1, <2>2
  <2>4. ASSUME NEW k \in 0 .. e - 1 PROVE (t + 1) + k \notin S /\ <<(t + 1) + k, (p + 1) + k>> \in F
    <3>1. k + 1 \in 0 .. d - 1 /\ t + (k + 1) = (t + 1) + k /\ p + (k + 1) = (p + 1) + k
      BY <1>1
    <3> QED
      BY <2>1, <3>1
  <2> HIDE DEF e
  <2>5. Settles(S, F, n, l, t + 1, p + 1)
    BY <2>1, <2>3, <2>4 DEF Settles
  <2> QED
    BY <2>1, <2>3, <2>5
<1>4. ASSUME t <= n, t \notin S, <<t, p>> \in F, Settles(S, F, n, l, t + 1, p + 1)
      PROVE  Settles(S, F, n, l, t, p)
  <2>1. PICK e \in 0 .. n + 1 - (t + 1) :
            /\ \A k \in 0 .. e - 1 : (t + 1) + k \notin S /\ <<(t + 1) + k, (p + 1) + k>> \in F
            /\ (p + 1) + e = l + 1 \/ (t + 1) + e \in S
    BY <1>4 DEF Settles
  <2> DEFINE d == e + 1
  <2>2. d \in 0 .. n + 1 - t /\ p + d = (p + 1) + e /\ t + d = (t + 1) + e /\ d - 1 = e
    BY <1>1
  <2>3. ASSUME NEW k \in 0 .. d - 1 PROVE t + k \notin S /\ <<t + k, p + k>> \in F
    <3>1. CASE k = 0
      <4>1. t + k = t /\ p + k = p
        BY <3>1
      <4> QED
        BY <1>4, <4>1
    <3>2. CASE k # 0
      <4>1. k - 1 \in 0 .. e - 1 /\ (t + 1) + (k - 1) = t + k /\ (p + 1) + (k - 1) = p + k
        BY <1>1, <3>2
      <4>2. (t + 1) + (k - 1) \notin S /\ <<(t + 1) + (k - 1), (p + 1) + (k - 1)>> \in F
        BY <2>1, <4>1
      <4> QED
        BY <4>1, <4>2
    <3> QED
      BY <3>1, <3>2
  <2> HIDE DEF d
  <2> QED
    BY <2>1, <2>2, <2>3 DEF Settles
<1>5. ASSUME t = n + 1, p <= l PROVE ~Settles(S, F, n, l, t, p)
  <2>1. SUFFICES ASSUME Settles(S, F, n, l, t, p) PROVE FALSE
    OBVIOUS
  <2>2. PICK d \in 0 .. n + 1 - t : p + d = l + 1 \/ t + d \in S
    BY <2>1 DEF Settles
  <2>3. d = 0
    BY <1>1, <1>5
  <2> QED
    BY <1>1, <1>5, <2>2, <2>3
<1> QED
  BY <1>2, <1>3, <1>4, <1>5

(* What can be laid out settles. *)
LEMMA RestSettles ==
    ASSUME NEW S, NEW F, NEW n, NEW l, Within(S, F, n, l)
    PROVE  \A t \in 1 .. n + 1, p \in 1 .. l + 1 : Rest(S, F, n, l, t, p) => Settles(S, F, n, l, t, p)
<1>1. n \in Nat /\ l \in Nat /\ S \subseteq 1 .. n /\ F \subseteq (1 .. n) \X (1 .. l)
  BY DEF Within
<1> DEFINE Holds(t) == \A p \in 1 .. l + 1 : Rest(S, F, n, l, t, p) => Settles(S, F, n, l, t, p)
           P == {x \in 0 .. n : Holds(n + 1 - x)}
<1>2. 0 \in P
  <2>1. n + 1 - 0 = n + 1 /\ n + 1 \in 1 .. n + 1
    BY <1>1
  <2>2. ASSUME NEW p \in 1 .. l + 1, Rest(S, F, n, l, n + 1, p) PROVE Settles(S, F, n, l, n + 1, p)
    <3>1. Rest(S, F, n, l, n + 1, p) <=> p = l + 1
      BY RestAtEnd
    <3>2. p = l + 1
      BY <2>2, <3>1
    <3> QED
      BY <2>1, <3>2, SettlesIs
  <2>3. Holds(n + 1)
    BY <2>2
  <2> HIDE DEF Holds
  <2> QED
    BY <1>1, <2>1, <2>3
<1>3. ASSUME NEW x \in 0 .. n - 1, x \in P PROVE x + 1 \in P
  <2> DEFINE t == n - x
  <2>1. t \in 1 .. n + 1 /\ t <= n /\ n + 1 - (x + 1) = t /\ n + 1 - x = t + 1 /\ x + 1 \in 0 .. n
    BY <1>1
  <2> HIDE DEF t
  <2>2. Holds(t + 1)
    BY <1>3, <2>1
  <2>3. ASSUME NEW p \in 1 .. l + 1, Rest(S, F, n, l, t, p) PROVE Settles(S, F, n, l, t, p)
    <3>1. CASE t \in S
      BY <2>1, <3>1, SettlesIs
    <3>2. CASE t \notin S
      <4>1. <<t, p>> \in F /\ Rest(S, F, n, l, t + 1, p + 1)
        BY <2>1, <2>3, <3>2, RestIs
      <4>2. p <= l /\ p + 1 \in 1 .. l + 1
        BY <1>1, <4>1
      <4>3. Settles(S, F, n, l, t + 1, p + 1)
        BY <2>2, <4>1, <4>2
      <4> QED
        BY <2>1, <3>2, <4>1, <4>2, <4>3, SettlesIs
    <3> QED
      BY <3>1, <3>2
  <2>4. Holds(t)
    BY <2>3
  <2> HIDE DEF Holds
  <2> QED
    BY <2>1, <2>4
<1>4. \A x \in 0 .. n : x \in P
  <2> HIDE DEF P
  <2> QED
    BY <1>1, <1>2, <1>3, UpTo
<1>5. ASSUME NEW t \in 1 .. n + 1 PROVE Holds(t)
  <2>1. n + 1 - t \in 0 .. n /\ n + 1 - (n + 1 - t) = t
    BY <1>1
  <2> HIDE DEF Holds
  <2> QED
    BY <1>4, <2>1
<1> QED
  BY <1>5

(* A later start wins nothing, once the tokens settle: the star that they  *)
(* reach can take what is in between.                                      *)
LEMMA EarlierIsEnough ==
    ASSUME NEW S, NEW F, NEW n, NEW l, Within(S, F, n, l)
    PROVE  \A t \in 1 .. n + 1, p \in 1 .. l + 1, f \in 1 .. l + 1 :
              p <= f /\ Settles(S, F, n, l, t, p) /\ Rest(S, F, n, l, t, f) => Rest(S, F, n, l, t, p)
<1>1. n \in Nat /\ l \in Nat /\ S \subseteq 1 .. n /\ F \subseteq (1 .. n) \X (1 .. l)
  BY DEF Within
<1> DEFINE Holds(t) == \A p \in 1 .. l + 1, f \in 1 .. l + 1 :
              p <= f /\ Settles(S, F, n, l, t, p) /\ Rest(S, F, n, l, t, f) => Rest(S, F, n, l, t, p)
           P == {x \in 0 .. n : Holds(n + 1 - x)}
<1>2. 0 \in P
  <2>1. n + 1 - 0 = n + 1 /\ n + 1 \in 1 .. n + 1
    BY <1>1
  <2>2. ASSUME NEW p \in 1 .. l + 1, NEW f \in 1 .. l + 1, p <= f,
               Settles(S, F, n, l, n + 1, p), Rest(S, F, n, l, n + 1, f)
        PROVE  Rest(S, F, n, l, n + 1, p)
    <3>1. ~(p <= l)
      BY <2>1, <2>2, SettlesIs
    <3>2. p = l + 1
      BY <1>1, <3>1
    <3> QED
      BY <2>1, <3>2, RestIs
  <2>3. Holds(n + 1)
    BY <2>2
  <2> HIDE DEF Holds
  <2> QED
    BY <1>1, <2>1, <2>3
<1>3. ASSUME NEW x \in 0 .. n - 1, x \in P PROVE x + 1 \in P
  <2> DEFINE t == n - x
  <2>1. t \in 1 .. n + 1 /\ t <= n /\ n + 1 - (x + 1) = t /\ n + 1 - x = t + 1 /\ x + 1 \in 0 .. n
    BY <1>1
  <2> HIDE DEF t
  <2>2. Holds(t + 1)
    BY <1>3, <2>1
  <2>3. ASSUME NEW p \in 1 .. l + 1, NEW f \in 1 .. l + 1, p <= f,
               Settles(S, F, n, l, t, p), Rest(S, F, n, l, t, f)
        PROVE  Rest(S, F, n, l, t, p)
    <3>1. CASE t \in S
      <4>1. /\ Rest(S, F, n, l, t, p) <=> \E g \in p .. l + 1 : Rest(S, F, n, l, t + 1, g)
            /\ Rest(S, F, n, l, t, f) <=> \E g \in f .. l + 1 : Rest(S, F, n, l, t + 1, g)
        BY <2>1, <3>1, RestAtStar
      <4>2. PICK g \in f .. l + 1 : Rest(S, F, n, l, t + 1, g)
        BY <2>3, <4>1
      <4>3. g \in p .. l + 1
        BY <2>3
      <4> QED
        BY <4>1, <4>2, <4>3
    <3>2. CASE t \notin S
      <4>1. <<t, f>> \in F /\ Rest(S, F, n, l, t + 1, f + 1)
        BY <2>1, <2>3, <3>2, RestIs
      <4>2. f <= l
        BY <1>1, <4>1
      <4>3. p <= l /\ p + 1 \in 1 .. l + 1 /\ f + 1 \in 1 .. l + 1 /\ p + 1 <= f + 1
        BY <1>1, <2>3, <4>2
      <4>4. <<t, p>> \in F /\ Settles(S, F, n, l, t + 1, p + 1)
        BY <2>1, <2>3, <3>2, <4>3, SettlesIs
      <4>5. Rest(S, F, n, l, t + 1, p + 1)
        BY <2>2, <4>1, <4>3, <4>4
      <4> QED
        BY <2>1, <3>2, <4>4, <4>5, RestIs
    <3> QED
      BY <3>1, <3>2
  <2>4. Holds(t)
    BY <2>3
  <2> HIDE DEF Holds
  <2> QED
    BY <2>1, <2>4
<1>4. \A x \in 0 .. n : x \in P
  <2> HIDE DEF P
  <2> QED
    BY <1>1, <1>2, <1>3, UpTo
<1>5. ASSUME NEW t \in 1 .. n + 1 PROVE Holds(t)
  <2>1. n + 1 - t \in 0 .. n /\ n + 1 - (n + 1 - t) = t
    BY <1>1
  <2> HIDE DEF Holds
  <2> QED
    BY <1>4, <2>1
<1> QED
  BY <1>5

(* What the loop of glob_match comes to from a spot on, in closed form:    *)
(* the rest of the pattern is laid out from here, or a mismatch comes      *)
(* first, and it is laid out from behind the last star.                    *)
GlobValue(S, F, n, l, s) ==
    IF Settles(S, F, n, l, s.t, s.at) THEN Rest(S, F, n, l, s.t, s.at)
    ELSE s.after # 0 /\ \E f \in s.from + 1 .. l + 1 : Rest(S, F, n, l, s.after, f)

(* One turn of the loop, with what it says of the spot it goes to.         *)
GlobTurn(g, S, F, n, l, s) ==
    IF s.at > l THEN \A k \in s.t .. n : k \in S
    ELSE IF s.t \in S THEN g[Spot(s.t + 1, s.at, s.t + 1, s.at)]
    ELSE IF <<s.t, s.at>> \in F THEN g[Spot(s.t + 1, s.at + 1, s.after, s.from)]
    ELSE IF s.after = 0 \/ s.from > l THEN FALSE
    ELSE g[Spot(s.after, s.from + 1, s.after, s.from + 1)]

LEMMA SpotFacts ==
    ASSUME NEW n \in Nat, NEW l \in Nat, NEW s \in Spots(n, l)
    PROVE  /\ s.t \in 1 .. n + 1 /\ s.at \in 1 .. l + 1 /\ s.after \in 0 .. n + 1 /\ s.from \in 1 .. l + 1
           /\ s.at <= l /\ s.t <= n =>
                 /\ Spot(s.t + 1, s.at, s.t + 1, s.at) \in Spots(n, l)
                 /\ Spot(s.t + 1, s.at + 1, s.after, s.from) \in Spots(n, l)
           /\ s.after # 0 /\ s.from <= l =>
                 Spot(s.after, s.from + 1, s.after, s.from + 1) \in Spots(n, l)
  BY DEF Spots, Spot

LEMMA ValueTurns ==
    ASSUME NEW S, NEW F, NEW n, NEW l, Within(S, F, n, l), NEW g, NEW s \in Spots(n, l),
           \A q \in Spots(n, l) : g[q] <=> GlobValue(S, F, n, l, q)
    PROVE  GlobValue(S, F, n, l, s) <=> GlobTurn(g, S, F, n, l, s)
<1>1. n \in Nat /\ l \in Nat /\ S \subseteq 1 .. n /\ F \subseteq (1 .. n) \X (1 .. l)
  BY DEF Within
<1>2. PICK t \in 1 .. n + 1, p \in 1 .. l + 1, r \in 0 .. n + 1, f \in 1 .. l + 1 :
         s.t = t /\ s.at = p /\ s.after = r /\ s.from = f
  BY <1>1, SpotFacts
<1>3. CASE p = l + 1
  <2>1. Settles(S, F, n, l, t, p) /\ (Rest(S, F, n, l, t, p) <=> \A k \in t .. n : k \in S)
    BY <1>3, RestIs, SettlesIs
  <2>2. p > l
    BY <1>1, <1>3
  <2> QED
    BY <1>2, <2>1, <2>2 DEF GlobValue, GlobTurn
<1>4. CASE p # l + 1 /\ t \in S
  <2> DEFINE q == Spot(t + 1, p, t + 1, p)
  <2>1. q \in Spots(n, l) /\ ~(p > l) /\ p <= l /\ t + 1 \in 1 .. n + 1 /\ t + 1 # 0
    BY <1>1, <1>4 DEF Spots, Spot
  <2>2. q.t = t + 1 /\ q.at = p /\ q.after = t + 1 /\ q.from = p
    BY DEF Spot
  <2>3. Settles(S, F, n, l, t, p)
    BY <1>4, SettlesIs
  <2>4. Rest(S, F, n, l, t, p) <=> \E x \in p .. l + 1 : Rest(S, F, n, l, t + 1, x)
    BY <1>4, RestAtStar
  <2>5. GlobTurn(g, S, F, n, l, s) <=> g[q]
    BY <1>2, <1>4, <2>1 DEF GlobTurn
  <2> HIDE DEF q
  <2>6. g[q] <=> IF Settles(S, F, n, l, t + 1, p) THEN Rest(S, F, n, l, t + 1, p)
                 ELSE \E x \in p + 1 .. l + 1 : Rest(S, F, n, l, t + 1, x)
    BY <2>1, <2>2 DEF GlobValue
  <2>7. GlobValue(S, F, n, l, s) <=> Rest(S, F, n, l, t, p)
    BY <1>2, <2>3 DEF GlobValue
  <2>8. CASE Settles(S, F, n, l, t + 1, p)
    <3>1. \A x \in p .. l + 1 : Rest(S, F, n, l, t + 1, x) => Rest(S, F, n, l, t + 1, p)
      <4>1. \A x \in p .. l + 1 : x \in 1 .. l + 1 /\ p <= x
        BY <1>1
      <4> QED
        BY <2>1, <2>8, <4>1, EarlierIsEnough
    <3>2. p \in p .. l + 1
      BY <1>1
    <3> QED
      BY <2>4, <2>5, <2>6, <2>7, <2>8, <3>1, <3>2
  <2>9. CASE ~Settles(S, F, n, l, t + 1, p)
    <3>1. ~Rest(S, F, n, l, t + 1, p)
      BY <2>1, <2>9, RestSettles
    <3>2. \A x \in p .. l + 1 : x = p \/ x \in p + 1 .. l + 1
      BY <1>1
    <3>3. \A x \in p + 1 .. l + 1 : x \in p .. l + 1
      BY <1>1
    <3> QED
      BY <2>4, <2>5, <2>6, <2>7, <2>9, <3>1, <3>2, <3>3
  <2> QED
    BY <2>8, <2>9
<1>5. CASE p # l + 1 /\ t \notin S /\ <<t, p>> \in F
  <2> DEFINE q == Spot(t + 1, p + 1, r, f)
  <2>1. q \in Spots(n, l) /\ ~(p > l) /\ p <= l /\ t <= n
    BY <1>1, <1>5 DEF Spots, Spot
  <2>2. q.t = t + 1 /\ q.at = p + 1 /\ q.after = r /\ q.from = f
    BY DEF Spot
  <2>3. Settles(S, F, n, l, t, p) <=> Settles(S, F, n, l, t + 1, p + 1)
    BY <1>5, <2>1, SettlesIs
  <2>4. Rest(S, F, n, l, t, p) <=> Rest(S, F, n, l, t + 1, p + 1)
    BY <1>5, <2>1, RestIs
  <2>5. GlobTurn(g, S, F, n, l, s) <=> g[q]
    BY <1>2, <1>5, <2>1 DEF GlobTurn
  <2> HIDE DEF q
  <2>6. g[q] <=> IF Settles(S, F, n, l, t + 1, p + 1) THEN Rest(S, F, n, l, t + 1, p + 1)
                 ELSE r # 0 /\ \E x \in f + 1 .. l + 1 : Rest(S, F, n, l, r, x)
    BY <2>1, <2>2 DEF GlobValue
  <2>7. GlobValue(S, F, n, l, s) <=> IF Settles(S, F, n, l, t, p) THEN Rest(S, F, n, l, t, p)
                                     ELSE r # 0 /\ \E x \in f + 1 .. l + 1 : Rest(S, F, n, l, r, x)
    BY <1>2 DEF GlobValue
  <2> QED
    BY <2>3, <2>4, <2>5, <2>6, <2>7
<1>6. CASE p # l + 1 /\ t \notin S /\ <<t, p>> \notin F
  <2>1. ~(p > l) /\ p <= l /\ (t <= n \/ t = n + 1)
    BY <1>1, <1>6
  <2>2. ~Settles(S, F, n, l, t, p)
    BY <1>6, <2>1, SettlesIs
  <2>3. GlobValue(S, F, n, l, s) <=> r # 0 /\ \E x \in f + 1 .. l + 1 : Rest(S, F, n, l, r, x)
    BY <1>2, <2>2 DEF GlobValue
  <2>4. CASE r = 0 \/ f > l
    <3>1. f > l => f + 1 .. l + 1 = {}
      BY <1>1
    <3>2. GlobTurn(g, S, F, n, l, s) <=> FALSE
      BY <1>2, <1>6, <2>1, <2>4 DEF GlobTurn
    <3> QED
      BY <2>3, <2>4, <3>1, <3>2
  <2>5. CASE ~(r = 0 \/ f > l)
    <3> DEFINE q == Spot(r, f + 1, r, f + 1)
    <3>1. q \in Spots(n, l) /\ r \in 1 .. n + 1 /\ f + 1 \in 1 .. l + 1
      BY <1>1, <2>5 DEF Spots, Spot
    <3>2. q.t = r /\ q.at = f + 1 /\ q.after = r /\ q.from = f + 1
      BY DEF Spot
    <3>3. GlobTurn(g, S, F, n, l, s) <=> g[q]
      BY <1>2, <1>6, <2>1, <2>5 DEF GlobTurn
    <3> HIDE DEF q
    <3>4. g[q] <=> IF Settles(S, F, n, l, r, f + 1) THEN Rest(S, F, n, l, r, f + 1)
                   ELSE \E x \in (f + 1) + 1 .. l + 1 : Rest(S, F, n, l, r, x)
      BY <2>5, <3>1, <3>2 DEF GlobValue
    <3>5. f + 1 \in f + 1 .. l + 1
      BY <1>1, <3>1
    <3>6. CASE Settles(S, F, n, l, r, f + 1)
      <4>1. \A x \in f + 1 .. l + 1 : x \in 1 .. l + 1 /\ f + 1 <= x
        BY <1>1
      <4>2. \A x \in f + 1 .. l + 1 : Rest(S, F, n, l, r, x) => Rest(S, F, n, l, r, f + 1)
        BY <3>1, <3>6, <4>1, EarlierIsEnough
      <4> QED
        BY <2>3, <2>5, <3>3, <3>4, <3>5, <3>6, <4>2
    <3>7. CASE ~Settles(S, F, n, l, r, f + 1)
      <4>1. ~Rest(S, F, n, l, r, f + 1)
        BY <3>1, <3>7, RestSettles
      <4>2. \A x \in f + 1 .. l + 1 : x = f + 1 \/ x \in (f + 1) + 1 .. l + 1
        BY <1>1
      <4>3. \A x \in (f + 1) + 1 .. l + 1 : x \in f + 1 .. l + 1
        BY <1>1
      <4> QED
        BY <2>3, <2>5, <3>3, <3>4, <3>7, <4>1, <4>2, <4>3
    <3> QED
      BY <3>6, <3>7
  <2> QED
    BY <2>4, <2>5
<1> QED
  BY <1>3, <1>4, <1>5, <1>6

(* Nothing else obeys the loop: the star only goes on, and the token too,  *)
(* as long as the star stays.                                              *)
LEMMA TurnsToValue ==
    ASSUME NEW S, NEW F, NEW n, NEW l, Within(S, F, n, l), NEW g,
           \A s \in Spots(n, l) : g[s] <=> GlobTurn(g, S, F, n, l, s)
    PROVE  \A s \in Spots(n, l) : s.from <= s.at => (g[s] <=> GlobValue(S, F, n, l, s))
<1>1. n \in Nat /\ l \in Nat /\ S \subseteq 1 .. n /\ F \subseteq (1 .. n) \X (1 .. l)
  BY DEF Within
<1> DEFINE v == [s \in Spots(n, l) |-> GlobValue(S, F, n, l, s)]
           Same(s) == s.from <= s.at => (g[s] <=> v[s])
           P == {x \in 0 .. l + 1 : \A s \in Spots(n, l) : s.from >= l + 2 - x => Same(s)}
<1>2. \A s \in Spots(n, l) : v[s] <=> GlobValue(S, F, n, l, s)
  OBVIOUS
<1> HIDE DEF v
<1>3. \A s \in Spots(n, l) : v[s] <=> GlobTurn(v, S, F, n, l, s)
  BY <1>2, ValueTurns
<1>4. ASSUME NEW s \in Spots(n, l), s.from <= s.at,
             \A q \in Spots(n, l) : q.from > s.from \/ (q.from = s.from /\ q.t > s.t) => Same(q)
      PROVE  g[s] <=> v[s]
  <2>1. PICK t \in 1 .. n + 1, p \in 1 .. l + 1, r \in 0 .. n + 1, f \in 1 .. l + 1 :
           s.t = t /\ s.at = p /\ s.after = r /\ s.from = f
    BY <1>1, SpotFacts
  <2>2. (g[s] <=> GlobTurn(g, S, F, n, l, s)) /\ (v[s] <=> GlobTurn(v, S, F, n, l, s))
    BY <1>3
  <2>3. CASE p > l
    BY <2>1, <2>2, <2>3 DEF GlobTurn
  <2>4. CASE ~(p > l) /\ t \in S
    <3> DEFINE q == Spot(t + 1, p, t + 1, p)
    <3>1. q \in Spots(n, l) /\ q.from = p /\ q.at = p /\ q.t = t + 1
      BY <1>1, <2>4 DEF Spots, Spot
    <3>2. (GlobTurn(g, S, F, n, l, s) <=> g[q]) /\ (GlobTurn(v, S, F, n, l, s) <=> v[q])
      BY <2>1, <2>4 DEF GlobTurn
    <3> HIDE DEF q
    <3>3. Same(q)
      BY <1>1, <1>4, <2>1, <3>1
    <3> QED
      BY <1>1, <2>2, <3>1, <3>2, <3>3
  <2>5. CASE ~(p > l) /\ t \notin S /\ <<t, p>> \in F
    <3> DEFINE q == Spot(t + 1, p + 1, r, f)
    <3>1. q \in Spots(n, l) /\ q.from = f /\ q.at = p + 1 /\ q.t = t + 1
      BY <1>1, <2>5 DEF Spots, Spot
    <3>2. (GlobTurn(g, S, F, n, l, s) <=> g[q]) /\ (GlobTurn(v, S, F, n, l, s) <=> v[q])
      BY <2>1, <2>5 DEF GlobTurn
    <3> HIDE DEF q
    <3>3. Same(q)
      BY <1>1, <1>4, <2>1, <3>1
    <3>4. q.from <= q.at
      BY <1>1, <1>4, <2>1, <3>1
    <3> QED
      BY <2>2, <3>2, <3>3, <3>4
  <2>6. CASE ~(p > l) /\ t \notin S /\ <<t, p>> \notin F /\ (r = 0 \/ f > l)
    BY <2>1, <2>2, <2>6 DEF GlobTurn
  <2>7. CASE ~(p > l) /\ t \notin S /\ <<t, p>> \notin F /\ ~(r = 0 \/ f > l)
    <3> DEFINE q == Spot(r, f + 1, r, f + 1)
    <3>1. q \in Spots(n, l) /\ q.from = f + 1 /\ q.at = f + 1 /\ q.t = r
      BY <1>1, <2>7 DEF Spots, Spot
    <3>2. (GlobTurn(g, S, F, n, l, s) <=> g[q]) /\ (GlobTurn(v, S, F, n, l, s) <=> v[q])
      BY <2>1, <2>7 DEF GlobTurn
    <3> HIDE DEF q
    <3>3. Same(q)
      BY <1>1, <1>4, <2>1, <3>1
    <3> QED
      BY <1>1, <2>2, <3>1, <3>2, <3>3
  <2> QED
    BY <2>3, <2>4, <2>5, <2>6, <2>7
<1> HIDE DEF Same
<1>5. 0 \in P
  <2>1. \A s \in Spots(n, l) : ~(s.from >= l + 2 - 0)
    BY <1>1, SpotFacts
  <2> QED
    BY <1>1, <2>1
<1>6. ASSUME NEW x \in 0 .. (l + 1) - 1, x \in P PROVE x + 1 \in P
  <2> DEFINE m == l + 1 - x
             Q == {y \in 0 .. n + 1 : \A s \in Spots(n, l) : s.from = m /\ s.t >= n + 2 - y => Same(s)}
  <2>1. \A s \in Spots(n, l) : s.from > m => Same(s)
    <3>1. \A s \in Spots(n, l) : s.from > m => s.from >= l + 2 - x
      BY <1>1, SpotFacts
    <3> QED
      BY <1>6, <3>1
  <2>2. 0 \in Q
    <3>1. \A s \in Spots(n, l) : ~(s.t >= n + 2 - 0)
      BY <1>1, SpotFacts
    <3> QED
      BY <1>1, <3>1
  <2>3. ASSUME NEW y \in 0 .. (n + 1) - 1, y \in Q PROVE y + 1 \in Q
    <3>1. ASSUME NEW s \in Spots(n, l), s.from = m, s.t >= n + 2 - (y + 1) PROVE Same(s)
      <4>1. ASSUME NEW q \in Spots(n, l), q.from > s.from \/ (q.from = s.from /\ q.t > s.t) PROVE Same(q)
        <5>1. CASE q.from > s.from
          BY <2>1, <3>1, <5>1
        <5>2. CASE q.from = s.from /\ q.t > s.t
          <6>1. q.t >= n + 2 - y
            BY <1>1, <3>1, <5>2, SpotFacts
          <6> QED
            BY <2>3, <3>1, <5>2, <6>1
        <5> QED
          BY <4>1, <5>1, <5>2
      <4>2. s.from <= s.at => (g[s] <=> v[s])
        BY <1>4, <4>1
      <4> QED
        BY <4>2 DEF Same
    <3>2. y + 1 \in 0 .. n + 1
      BY <1>1
    <3> HIDE DEF m
    <3> QED
      BY <3>1, <3>2
  <2>4. \A y \in 0 .. n + 1 : y \in Q
    <3>1. n + 1 \in Nat
      BY <1>1
    <3> HIDE DEF Q
    <3> QED
      BY <2>2, <2>3, <3>1, UpTo
  <2>5. n + 1 \in Q
    BY <1>1, <2>4
  <2>6. ASSUME NEW s \in Spots(n, l), s.from >= l + 2 - (x + 1) PROVE Same(s)
    <3>1. s.from > m \/ (s.from = m /\ s.t >= n + 2 - (n + 1))
      BY <1>1, <2>6, SpotFacts
    <3> QED
      BY <2>1, <2>5, <3>1
  <2>7. x + 1 \in 0 .. l + 1
    BY <1>1
  <2> HIDE DEF m, Q
  <2> QED
    BY <2>6, <2>7
<1>7. \A x \in 0 .. l + 1 : x \in P
  <2>1. l + 1 \in Nat
    BY <1>1
  <2> HIDE DEF P
  <2> QED
    BY <1>5, <1>6, <2>1, UpTo
<1>8. l + 1 \in P
  BY <1>1, <1>7
<1>9. ASSUME NEW s \in Spots(n, l) PROVE Same(s)
  <2>1. s.from >= l + 2 - (l + 1)
    BY <1>1, SpotFacts
  <2> QED
    BY <1>8, <2>1
<1> QED
  BY <1>2, <1>9 DEF Same

-----------------------------------------------------------------------------
(* glob_match.                                                             *)
Stars(tokens) == {k \in 1 .. Len(tokens) : tokens[k] = Star}
Fitting(tokens, name, fold) ==
    {q \in (1 .. Len(tokens)) \X (1 .. Len(name)) : Fits(tokens[q[1]], name[q[2]], fold)}

GlobLoop(g, tokens, name, fold, s) ==
    IF s.at > Len(name) THEN \A k \in s.t .. Len(tokens) : tokens[k] = Star
    ELSE IF s.t <= Len(tokens) /\ tokens[s.t] = Star THEN g[Spot(s.t + 1, s.at, s.t + 1, s.at)]
    ELSE IF s.t <= Len(tokens) /\ Fits(tokens[s.t], name[s.at], fold)
         THEN g[Spot(s.t + 1, s.at + 1, s.after, s.from)]
    ELSE IF s.after = 0 \/ s.from > Len(name) THEN FALSE
    ELSE g[Spot(s.after, s.from + 1, s.after, s.from + 1)]

IsGlobLoop(g, tokens, name, fold) ==
    g = [s \in Spots(Len(tokens), Len(name)) |-> GlobLoop(g, tokens, name, fold, s)]

LEMMA StarFitsNone == \A u, fold : ~Fits(Star, u, fold)
  BY DEF Fits, Star, Token

LEMMA NameWithin ==
    ASSUME NEW T, NEW U, NEW tokens \in Seq(T), NEW name \in Seq(U), NEW fold
    PROVE  Within(Stars(tokens), Fitting(tokens, name, fold), Len(tokens), Len(name))
<1> DEFINE n == Len(tokens)
           l == Len(name)
<1>1. n \in Nat /\ l \in Nat
  OBVIOUS
<1>2. Stars(tokens) \subseteq 1 .. n
  BY DEF Stars
<1>3. Fitting(tokens, name, fold) \subseteq (1 .. n) \X (1 .. l)
  BY DEF Fitting
<1> QED
  BY <1>1, <1>2, <1>3 DEF Within

(* Where the laid out tokens stand is within the name. *)
LEMMA LaidInside ==
    ASSUME NEW S, NEW n \in Nat, NEW l \in Nat, NEW c \in [0 .. n -> Nat], c[0] = 0, c[n] = l,
           \A k \in 1 .. n : c[k - 1] <= c[k]
    PROVE  \A k \in 1 .. n : c[k] = c[k - 1] + 1 => c[k] \in 1 .. l
<1>1. LaidBy(c, 1 .. n, {}, 0, n)
  BY DEF LaidBy
<1>2. \A k \in 0 .. n : c[k] <= c[n]
  <2>1. 0 \in Nat /\ 0 <= n
    OBVIOUS
  <2>2. \A k \in 0 .. n : c[0] <= c[k] /\ c[k] <= c[n]
    BY <1>1, <2>1, LaidUp
  <2> QED
    BY <2>2
<1>3. ASSUME NEW k \in 1 .. n, c[k] = c[k - 1] + 1 PROVE c[k] \in 1 .. l
  <2>1. k \in 0 .. n /\ k - 1 \in 0 .. n
    OBVIOUS
  <2> QED
    BY <1>2, <1>3, <2>1
<1> QED
  BY <1>3

(* What can be laid out is what can be cut. *)
LEMMA CutsLaid ==
    ASSUME NEW T, NEW U, NEW parts \in Seq(T), NEW whole \in Seq(U), NEW S, NEW F
    PROVE  /\ \A c \in Cuts(parts, whole) : \A k \in 1 .. Len(parts) :
                 c[k] = c[k - 1] + 1 => c[k] \in 1 .. Len(whole)
           /\ Laid(S, F, 0, Len(parts), 0, Len(whole))
                 <=> \E c \in Cuts(parts, whole) : \A k \in 1 .. Len(parts) :
                        k \notin S => c[k] = c[k - 1] + 1 /\ <<k, c[k]>> \in F
<1> DEFINE n == Len(parts)
           l == Len(whole)
<1>1. n \in Nat /\ l \in Nat
  OBVIOUS
<1>2. \A c : c \in Cuts(parts, whole) <=>
                /\ c \in [0 .. n -> Nat] /\ c[0] = 0 /\ c[n] = l
                /\ \A k \in 1 .. n : c[k - 1] <= c[k]
  BY CutsAre
<1> HIDE DEF n, l
<1>3. ASSUME NEW c \in Cuts(parts, whole)
      PROVE  \A k \in 1 .. n : c[k] = c[k - 1] + 1 => c[k] \in 1 .. l
  BY <1>1, <1>2, LaidInside
<1>4. ASSUME NEW c \in Cuts(parts, whole),
             \A k \in 1 .. n : k \notin S => c[k] = c[k - 1] + 1 /\ <<k, c[k]>> \in F
      PROVE  Laid(S, F, 0, n, 0, l)
  <2>1. /\ c \in [0 .. n -> Nat] /\ c[0] = 0 /\ c[n] = l
        /\ \A k \in 1 .. n : c[k - 1] <= c[k]
    BY <1>2, <1>4
  <2>2. LaidBy(c, S, F, 0, n)
    BY <1>4, <2>1 DEF LaidBy
  <2> QED
    BY <2>1, <2>2 DEF Laid
<1>5. ASSUME Laid(S, F, 0, n, 0, l)
      PROVE  \E c \in Cuts(parts, whole) : \A k \in 1 .. n :
                k \notin S => c[k] = c[k - 1] + 1 /\ <<k, c[k]>> \in F
  <2>1. PICK c \in [0 .. n -> Nat] : c[0] = 0 /\ c[n] = l /\ LaidBy(c, S, F, 0, n)
    BY <1>5 DEF Laid
  <2>2. \A k \in 1 .. n : c[k - 1] <= c[k] /\ (k \notin S => c[k] = c[k - 1] + 1 /\ <<k, c[k]>> \in F)
    BY <2>1 DEF LaidBy
  <2>3. c \in Cuts(parts, whole)
    BY <1>2, <2>1, <2>2
  <2> QED
    BY <2>2, <2>3
<1>6. /\ \A c \in Cuts(parts, whole) : \A k \in 1 .. n : c[k] = c[k - 1] + 1 => c[k] \in 1 .. l
      /\ Laid(S, F, 0, n, 0, l)
            <=> \E c \in Cuts(parts, whole) : \A k \in 1 .. n :
                   k \notin S => c[k] = c[k - 1] + 1 /\ <<k, c[k]>> \in F
  BY <1>3, <1>4, <1>5
<1> QED
  BY <1>6 DEF n, l

(* What a segment means is that it can be laid out. *)
LEMMA NameLaid ==
    ASSUME NEW T, NEW U, NEW tokens \in Seq(T), NEW name \in Seq(U), NEW fold
    PROVE  MeansName(tokens, name, fold)
              <=> Laid(Stars(tokens), Fitting(tokens, name, fold), 0, Len(tokens), 0, Len(name))
<1> DEFINE n == Len(tokens)
           l == Len(name)
           S == Stars(tokens)
           F == Fitting(tokens, name, fold)
<1>1. n \in Nat /\ l \in Nat /\ DOMAIN tokens = 1 .. n
  OBVIOUS
<1>2. \A k \in 1 .. n : k \in S <=> tokens[k] = Star
  BY DEF Stars
<1>3. \A k \in 1 .. n, x \in 1 .. l : <<k, x>> \in F <=> Fits(tokens[k], name[x], fold)
  BY DEF Fitting
<1>4. MeansName(tokens, name, fold) <=>
         \E c \in Cuts(tokens, name) : \A k \in 1 .. n :
             tokens[k] # Star => c[k] = c[k - 1] + 1 /\ Fits(tokens[k], name[c[k]], fold)
  BY <1>1 DEF MeansName
<1>5. /\ \A c \in Cuts(tokens, name) : \A k \in 1 .. n : c[k] = c[k - 1] + 1 => c[k] \in 1 .. l
      /\ Laid(S, F, 0, n, 0, l)
            <=> \E c \in Cuts(tokens, name) : \A k \in 1 .. n :
                   k \notin S => c[k] = c[k - 1] + 1 /\ <<k, c[k]>> \in F
  BY CutsLaid
<1> HIDE DEF n, l, S, F
<1>6. ASSUME NEW c \in Cuts(tokens, name), NEW k \in 1 .. n
      PROVE  (k \notin S => c[k] = c[k - 1] + 1 /\ <<k, c[k]>> \in F)
                <=> (tokens[k] # Star => c[k] = c[k - 1] + 1 /\ Fits(tokens[k], name[c[k]], fold))
  BY <1>2, <1>3, <1>5
<1>7. MeansName(tokens, name, fold) <=> Laid(S, F, 0, n, 0, l)
  BY <1>4, <1>5, <1>6
<1> QED
  BY <1>7 DEF n, l, S, F

(* One turn of glob_match is one of the loop above. *)
LEMMA LoopTurns ==
    ASSUME NEW T, NEW U, NEW tokens \in Seq(T), NEW name \in Seq(U), NEW fold, NEW g,
           NEW s \in Spots(Len(tokens), Len(name))
    PROVE  GlobLoop(g, tokens, name, fold, s)
              = GlobTurn(g, Stars(tokens), Fitting(tokens, name, fold), Len(tokens), Len(name), s)
<1> DEFINE n == Len(tokens)
           l == Len(name)
           S == Stars(tokens)
           F == Fitting(tokens, name, fold)
<1>1. n \in Nat /\ l \in Nat
  OBVIOUS
<1>2. PICK t \in 1 .. n + 1, p \in 1 .. l + 1 : s.t = t /\ s.at = p
  BY <1>1, SpotFacts
<1>3. \A k \in t .. n : k \in S <=> tokens[k] = Star
  BY DEF Stars
<1>4. t \in S <=> t <= n /\ tokens[t] = Star
  BY <1>1 DEF Stars
<1>5. p <= l => (<<t, p>> \in F <=> t <= n /\ Fits(tokens[t], name[p], fold))
  BY <1>1 DEF Fitting
<1>6. p <= l <=> ~(p > l)
  BY <1>1
<1>7. (\A k \in s.t .. Len(tokens) : tokens[k] = Star) = (\A k \in s.t .. n : k \in S)
  BY <1>2, <1>3
<1>8. s.at > Len(name) <=> p > l
  BY <1>2
<1> HIDE DEF n, l, S, F
<1>9. CASE p > l
  <2>1. GlobLoop(g, tokens, name, fold, s) = (\A k \in s.t .. Len(tokens) : tokens[k] = Star)
    BY <1>8, <1>9 DEF GlobLoop
  <2>2. GlobTurn(g, S, F, n, l, s) = (\A k \in s.t .. n : k \in S)
    BY <1>2, <1>9 DEF GlobTurn
  <2>3. GlobLoop(g, tokens, name, fold, s) = GlobTurn(g, S, F, n, l, s)
    BY <1>7, <2>1, <2>2
  <2> QED
    BY <2>3 DEF n, l, S, F
<1>10. CASE ~(p > l)
  <2>1. GlobLoop(g, tokens, name, fold, s) =
           IF t \in S THEN g[Spot(s.t + 1, s.at, s.t + 1, s.at)]
           ELSE IF <<t, p>> \in F THEN g[Spot(s.t + 1, s.at + 1, s.after, s.from)]
           ELSE IF s.after = 0 \/ s.from > l THEN FALSE
           ELSE g[Spot(s.after, s.from + 1, s.after, s.from + 1)]
    BY <1>2, <1>4, <1>5, <1>6, <1>8, <1>10 DEF GlobLoop, n, l
  <2>2. GlobTurn(g, S, F, n, l, s) =
           IF t \in S THEN g[Spot(s.t + 1, s.at, s.t + 1, s.at)]
           ELSE IF <<t, p>> \in F THEN g[Spot(s.t + 1, s.at + 1, s.after, s.from)]
           ELSE IF s.after = 0 \/ s.from > l THEN FALSE
           ELSE g[Spot(s.after, s.from + 1, s.after, s.from + 1)]
    BY <1>2, <1>10 DEF GlobTurn
  <2>3. GlobLoop(g, tokens, name, fold, s) = GlobTurn(g, S, F, n, l, s)
    BY <2>1, <2>2
  <2> QED
    BY <2>3 DEF n, l, S, F
<1> QED
  BY <1>9, <1>10

(* Whatever the pattern and the name are: going back to the last star is   *)
(* enough to find every way of laying the segment out over the name        *)
(* (glob_match, as its comment argues).                                    *)
THEOREM GlobExact ==
    ASSUME NEW T, NEW U, NEW tokens \in Seq(T), NEW name \in Seq(U), NEW fold
    PROVE  GlobMatch(tokens, name, fold) <=> MeansName(tokens, name, fold)
<1> DEFINE n == Len(tokens)
           l == Len(name)
           S == Stars(tokens)
           F == Fitting(tokens, name, fold)
           v == [s \in Spots(n, l) |-> GlobValue(S, F, n, l, s)]
           loop == CHOOSE g : IsGlobLoop(g, tokens, name, fold)
           top == Spot(1, 1, 0, 1)
<1>1. n \in Nat /\ l \in Nat /\ Within(S, F, n, l)
  BY NameWithin
<1>2. \A g : \A s \in Spots(n, l) : GlobLoop(g, tokens, name, fold, s) = GlobTurn(g, S, F, n, l, s)
  BY LoopTurns
<1>3. GlobMatch(tokens, name, fold) <=> loop[top]
  BY Zenon DEF GlobMatch, IsGlobLoop, GlobLoop
<1>4. \A g : IsGlobLoop(g, tokens, name, fold)
                <=> g = [s \in Spots(n, l) |-> GlobLoop(g, tokens, name, fold, s)]
  BY DEF IsGlobLoop
<1> HIDE DEF n, l, S, F, top
<1>5. IsGlobLoop(v, tokens, name, fold)
  <2>1. \A s \in Spots(n, l) : v[s] <=> GlobValue(S, F, n, l, s)
    OBVIOUS
  <2>2. v = [s \in Spots(n, l) |-> v[s]]
    OBVIOUS
  <2>3. \A s \in Spots(n, l) : v[s] \in BOOLEAN
    BY DEF GlobValue, Rest, Laid
  <2> HIDE DEF v
  <2>4. ASSUME NEW s \in Spots(n, l) PROVE v[s] <=> GlobTurn(v, S, F, n, l, s)
    BY <1>1, <2>1, ValueTurns
  <2>5. ASSUME NEW s \in Spots(n, l) PROVE GlobTurn(v, S, F, n, l, s) \in BOOLEAN
    <3>1. s.after # 0 /\ s.from <= l =>
             Spot(s.after, s.from + 1, s.after, s.from + 1) \in Spots(n, l)
      BY <1>1, SpotFacts
    <3>2. s.at <= l /\ s.t <= n =>
                 /\ Spot(s.t + 1, s.at, s.t + 1, s.at) \in Spots(n, l)
                 /\ Spot(s.t + 1, s.at + 1, s.after, s.from) \in Spots(n, l)
      BY <1>1, SpotFacts
    <3>3. s.at \in Nat /\ s.from \in Nat /\ (s.t \in S => s.t <= n) /\ (<<s.t, s.at>> \in F => s.t <= n)
      BY <1>1, SpotFacts DEF Within
    <3>4. CASE s.at > l
      <4>1. GlobTurn(v, S, F, n, l, s) = (\A k \in s.t .. n : k \in S)
        BY <3>4 DEF GlobTurn
      <4> QED
        BY Zenon, <4>1
    <3>5. CASE ~(s.at > l) /\ s.t \in S
      <4>1. GlobTurn(v, S, F, n, l, s) = v[Spot(s.t + 1, s.at, s.t + 1, s.at)]
        BY <3>5 DEF GlobTurn
      <4> QED
        BY <1>1, <2>3, <3>2, <3>3, <3>5, <4>1
    <3>6. CASE ~(s.at > l) /\ s.t \notin S /\ <<s.t, s.at>> \in F
      <4>1. GlobTurn(v, S, F, n, l, s) = v[Spot(s.t + 1, s.at + 1, s.after, s.from)]
        BY <3>6 DEF GlobTurn
      <4> QED
        BY <1>1, <2>3, <3>2, <3>3, <3>6, <4>1
    <3>7. CASE ~(s.at > l) /\ s.t \notin S /\ <<s.t, s.at>> \notin F
      <4>1. CASE s.after = 0 \/ s.from > l
        <5>1. GlobTurn(v, S, F, n, l, s) = FALSE
          BY <3>7, <4>1 DEF GlobTurn
        <5> QED
          BY <5>1
      <4>2. CASE ~(s.after = 0 \/ s.from > l)
        <5>1. GlobTurn(v, S, F, n, l, s) = v[Spot(s.after, s.from + 1, s.after, s.from + 1)]
          BY <3>7, <4>2 DEF GlobTurn
        <5> QED
          BY <1>1, <2>3, <3>1, <3>3, <4>2, <5>1
      <4> QED
        BY <4>1, <4>2
    <3> QED
      BY <3>4, <3>5, <3>6, <3>7
  <2>6. ASSUME NEW s \in Spots(n, l) PROVE v[s] = GlobLoop(v, tokens, name, fold, s)
    BY <1>2, <2>3, <2>4, <2>5
  <2> QED
    BY <1>4, <2>2, <2>6
<1> HIDE DEF v
<1>6. IsGlobLoop(loop, tokens, name, fold)
  BY <1>5
<1> HIDE DEF loop
<1>7. \A s \in Spots(n, l) : loop[s] <=> GlobTurn(loop, S, F, n, l, s)
  <2>1. \A s \in Spots(n, l) : loop[s] = GlobLoop(loop, tokens, name, fold, s)
    BY <1>4, <1>6
  <2> QED
    BY <1>2, <2>1
<1>8. top \in Spots(n, l) /\ top.t = 1 /\ top.at = 1 /\ top.after = 0 /\ top.from = 1
  BY <1>1 DEF top, Spot, Spots
<1>9. loop[top] <=> GlobValue(S, F, n, l, top)
  BY <1>1, <1>7, <1>8, TurnsToValue
<1>10. GlobValue(S, F, n, l, top) <=> Settles(S, F, n, l, 1, 1) /\ Rest(S, F, n, l, 1, 1)
  BY <1>8 DEF GlobValue
<1>11. Rest(S, F, n, l, 1, 1) => Settles(S, F, n, l, 1, 1)
  <2>1. 1 \in 1 .. n + 1 /\ 1 \in 1 .. l + 1
    BY <1>1
  <2> QED
    BY <1>1, <2>1, RestSettles
<1>12. Rest(S, F, n, l, 1, 1) <=> Laid(S, F, 0, n, 0, l)
  <2>1. 1 - 1 = 0
    OBVIOUS
  <2> QED
    BY <2>1 DEF Rest
<1>13. MeansName(tokens, name, fold) <=> Laid(S, F, 0, n, 0, l)
  BY NameLaid DEF n, l, S, F
<1> QED
  BY <1>3, <1>9, <1>10, <1>11, <1>12, <1>13

-----------------------------------------------------------------------------
(* Along a path.  Where a pattern stands when L names have gone by: before *)
(* its j-th component, or in the middle of it when that is a `**'.         *)
Standing(D, G, j, L) == IF j \in D THEN Laid(D, G, 0, j, 0, L) ELSE Laid(D, G, 0, j - 1, 0, L)

(* `**' takes nothing as well. *)
LEMMA StandsBehind ==
    ASSUME NEW D, NEW G, NEW m \in Nat, NEW q \in Nat \ {0}, m + 1 <= q, NEW L \in Nat,
           Laid(D, G, 0, m, 0, L), \A k \in m + 1 .. q - 1 : k \in D
    PROVE  Standing(D, G, q, L)
<1> DEFINE b == q - 1
<1>1. b \in Nat /\ m <= b /\ 0 <= m /\ 0 <= b /\ b + 1 = q /\ 0 \in Nat /\ b <= q /\ q - 1 = b
      /\ q \in Nat \ {0}
  OBVIOUS
<1> HIDE DEF b
<1>2. Laid(D, G, m, b, L, L)
  <2>1. \A k \in m + 1 .. b : k \in D
    BY <1>1
  <2> QED
    BY <1>1, <2>1, LaidStars
<1>3. Laid(D, G, 0, b, 0, L)
  BY <1>1, <1>2, LaidJoin
<1>4. CASE q \in D
  <2>1. \A k \in b + 1 .. q : k \in D
    BY <1>1, <1>4
  <2>2. Laid(D, G, b, q, L, L)
    BY <1>1, <2>1, LaidStars
  <2>3. Laid(D, G, 0, q, 0, L)
    BY <1>1, <1>3, <2>2, LaidJoin
  <2> QED
    BY <1>4, <2>3 DEF Standing
<1>5. CASE q \notin D
  BY <1>1, <1>3, <1>5 DEF Standing
<1> QED
  BY <1>4, <1>5

(* `**' may have taken less. *)
LEMMA StandsWithin ==
    ASSUME NEW D, NEW G, NEW k \in Nat \ {0}, k \in D, NEW x \in Nat, NEW L \in Nat, x <= L,
           Laid(D, G, 0, k - 1, 0, x)
    PROVE  Laid(D, G, 0, k, 0, L) /\ Standing(D, G, k, L)
<1> DEFINE b == k - 1
<1>1. b \in Nat /\ b <= k /\ 0 <= b /\ 0 \in Nat /\ k \in Nat
  OBVIOUS
<1>2. Laid(D, G, k - 1, k, x, L)
  BY LaidOne
<1>3. Laid(D, G, b, k, x, L) /\ Laid(D, G, 0, b, 0, x)
  BY <1>2
<1> HIDE DEF b
<1>4. Laid(D, G, 0, k, 0, L)
  BY <1>1, <1>3, LaidJoin
<1> QED
  BY <1>4 DEF Standing

(* Where a pattern stands one name further down. *)
GoesOn(D, H, i, j, L) ==
    \/ i \in D /\ i <= j /\ \A k \in i .. j - 1 : k \in D
    \/ i \notin D /\ <<i, L + 1>> \in H /\ i + 1 <= j /\ \A k \in i + 1 .. j - 1 : k \in D

LEMMA StandsOn ==
    ASSUME NEW n \in Nat, NEW D, NEW G, NEW H, NEW L \in Nat, NEW j \in 1 .. n + 1,
           \A k \in 1 .. n : \A x \in 1 .. L : <<k, x>> \in G <=> <<k, x>> \in H,
           D \subseteq 1 .. n
    PROVE  Standing(D, H, j, L + 1) <=> \E i \in 1 .. n : Standing(D, G, i, L) /\ GoesOn(D, H, i, j, L)
<1>0. L + 1 \in Nat /\ 0 \in Nat /\ j \in Nat
  OBVIOUS
<1>1. ASSUME NEW m \in 0 .. n, NEW x \in 0 .. L PROVE Laid(D, G, 0, m, 0, x) <=> Laid(D, H, 0, m, 0, x)
  <2>1. m \in Nat /\ 0 <= m /\ x \in Nat
    OBVIOUS
  <2>2. \A k \in 0 + 1 .. m : \A y \in 1 .. x : <<k, y>> \in G <=> <<k, y>> \in H
    <3>1. \A k \in 0 + 1 .. m : k \in 1 .. n
      OBVIOUS
    <3>2. \A y \in 1 .. x : y \in 1 .. L
      OBVIOUS
    <3> QED
      BY <3>1, <3>2
  <2> QED
    BY <1>0, <2>1, <2>2, LaidSame
<1>2. ASSUME NEW i \in 1 .. n, Standing(D, G, i, L), GoesOn(D, H, i, j, L) PROVE Standing(D, H, j, L + 1)
  <2>1. i \in Nat \ {0} /\ i \in Nat /\ i - 1 \in Nat /\ i - 1 \in 0 .. n /\ i \in 0 .. n /\ i - 1 <= i
        /\ 0 <= i - 1 /\ L \in 0 .. L /\ i - 1 \in 0 .. i /\ 0 <= i
    OBVIOUS
  <2>2. CASE i \in D
    <3>1. Laid(D, G, 0, i, 0, L)
      BY <1>2, <2>2 DEF Standing
    <3>2. PICK x \in Nat : x <= L /\ Laid(D, G, 0, i - 1, 0, x)
      BY <1>0, <2>1, <3>1, LaidSplit
    <3>3. Laid(D, H, 0, i - 1, 0, x) /\ x <= L + 1
      BY <1>1, <2>1, <3>2
    <3>4. Laid(D, H, 0, i, 0, L + 1) /\ Standing(D, H, i, L + 1)
      BY <1>0, <2>1, <2>2, <3>3, StandsWithin
    <3>5. CASE j = i
      BY <3>4, <3>5
    <3>6. CASE j # i
      <4>1. i + 1 <= j /\ \A k \in i + 1 .. j - 1 : k \in D
        BY <1>2, <2>2, <3>6 DEF GoesOn
      <4> QED
        BY <1>0, <2>1, <3>4, <4>1, StandsBehind
    <3> QED
      BY <3>5, <3>6
  <2>3. CASE i \notin D
    <3>1. Laid(D, G, 0, i - 1, 0, L)
      BY <1>2, <2>3 DEF Standing
    <3>2. Laid(D, H, 0, i - 1, 0, L)
      BY <1>1, <2>1, <3>1
    <3>3. <<i, L + 1>> \in H /\ i + 1 <= j /\ \A k \in i + 1 .. j - 1 : k \in D
      BY <1>2, <2>3 DEF GoesOn
    <3>4. Laid(D, H, i - 1, i, L, L + 1)
      BY <1>0, <2>1, <3>3, LaidOne
    <3>5. Laid(D, H, 0, i, 0, L + 1)
      BY <1>0, <2>1, <3>2, <3>4, LaidJoin
    <3> QED
      BY <1>0, <2>1, <3>3, <3>5, StandsBehind
  <2> QED
    BY <2>2, <2>3
<1>3. ASSUME Standing(D, H, j, L + 1)
      PROVE  \E i \in 1 .. n : Standing(D, G, i, L) /\ GoesOn(D, H, i, j, L)
  <2> DEFINE m == IF j \in D THEN j ELSE j - 1
  <2>1. m \in Nat /\ m <= n /\ j - 1 <= m /\ m <= j /\ (m = j => j \in D)
    OBVIOUS
  <2>2. Laid(D, H, 0, m, 0, L + 1)
    BY <1>3 DEF Standing
  <2> HIDE DEF m
  <2>3. PICK k \in 1 .. m, x \in 0 .. L, y \in L + 1 .. L + 1 :
              /\ Laid(D, H, 0, k - 1, 0, x) /\ Laid(D, H, k - 1, k, x, y) /\ Laid(D, H, k, m, y, L + 1)
    <3>1. L < L + 1
      OBVIOUS
    <3> QED
      BY <1>0, <2>1, <2>2, <3>1, LaidAcross
  <2>4. y = L + 1 /\ k \in Nat \ {0} /\ k \in Nat /\ k <= m /\ x \in Nat /\ k - 1 \in 0 .. n /\ k \in 1 .. n
        /\ x <= L /\ k \in 0 .. n /\ L \in 0 .. L
    BY <2>1
  <2>5. \A q \in k + 1 .. m : q \in D
    BY <1>0, <2>1, <2>3, <2>4, LaidStars
  <2>6. \A q \in k + 1 .. j - 1 : q \in D
    <3>1. \A q \in k + 1 .. j - 1 : q \in k + 1 .. m
      BY <2>1
    <3> QED
      BY <2>5, <3>1
  <2>7. x <= y /\ (k \notin D => y = x + 1 /\ <<k, y>> \in H)
    BY <1>0, <2>3, <2>4, LaidOne
  <2>8. Laid(D, G, 0, k - 1, 0, x)
    BY <1>1, <2>3, <2>4
  <2>9. CASE k \in D
    <3>1. Standing(D, G, k, L)
      BY <2>4, <2>8, <2>9, StandsWithin
    <3>2. \A q \in k .. j - 1 : q = k \/ q \in k + 1 .. j - 1
      BY <2>4
    <3>3. k <= j
      BY <2>1, <2>4
    <3>4. GoesOn(D, H, k, j, L)
      BY <2>6, <2>9, <3>2, <3>3 DEF GoesOn
    <3> QED
      BY <2>4, <3>1, <3>4
  <2>10. CASE k \notin D
    <3>1. x = L
      BY <2>4, <2>7, <2>10
    <3>2. Standing(D, G, k, L)
      BY <2>8, <2>10, <3>1 DEF Standing
    <3>3. k # m \/ m # j
      BY <2>1, <2>10
    <3>4. k + 1 <= j
      BY <2>1, <2>4, <3>3
    <3>5. GoesOn(D, H, k, j, L)
      BY <2>4, <2>6, <2>7, <2>10, <3>4 DEF GoesOn
    <3> QED
      BY <2>4, <3>2, <3>5
  <2> QED
    BY <2>9, <2>10
<1> QED
  BY <1>2, <1>3

(* Where a pattern that matches further down stands. *)
LEMMA StandsAbove ==
    ASSUME NEW n \in Nat, NEW D, NEW G, NEW H, NEW L \in Nat, NEW M \in Nat, L < M,
           \A k \in 1 .. n : \A x \in 1 .. L : <<k, x>> \in G <=> <<k, x>> \in H,
           Laid(D, H, 0, n, 0, M)
    PROVE  \E k \in 1 .. n : Standing(D, G, k, L)
<1>1. PICK k \in 1 .. n, x \in 0 .. L, y \in L + 1 .. M :
              /\ Laid(D, H, 0, k - 1, 0, x) /\ Laid(D, H, k - 1, k, x, y) /\ Laid(D, H, k, n, y, M)
  BY LaidAcross
<1>2. k \in Nat \ {0} /\ x \in Nat /\ y \in Nat /\ k - 1 \in Nat /\ 0 <= k - 1 /\ 0 \in Nat /\ x <= L /\ y > L
  OBVIOUS
<1>3. Laid(D, G, 0, k - 1, 0, x)
  <2>1. \A q \in 0 + 1 .. k - 1 : \A z \in 1 .. x : <<q, z>> \in G <=> <<q, z>> \in H
    <3>1. \A q \in 0 + 1 .. k - 1 : q \in 1 .. n
      OBVIOUS
    <3>2. \A z \in 1 .. x : z \in 1 .. L
      OBVIOUS
    <3> QED
      BY <3>1, <3>2
  <2> QED
    BY <1>1, <1>2, <2>1, LaidSame
<1>4. x <= y /\ (k \notin D => y = x + 1 /\ <<k, y>> \in H)
  BY <1>1, <1>2, LaidOne
<1>5. CASE k \in D
  BY <1>2, <1>3, <1>5, StandsWithin
<1>6. CASE k \notin D
  <2>1. x = L
    BY <1>2, <1>4, <1>6
  <2> QED
    BY <1>3, <1>6, <2>1 DEF Standing
<1> QED
  BY <1>5, <1>6

-----------------------------------------------------------------------------
(* What parse makes of a text.                                             *)
LEMMA PatternFacts ==
    ASSUME NEW pat, IsPattern(pat)
    PROVE  /\ pat.comps \in Seq(Comps) /\ Len(pat.comps) \in Nat
           /\ pat.fold \in BOOLEAN /\ pat.negated \in BOOLEAN
           /\ \A k \in 1 .. Len(pat.comps) : IsComp(pat.comps[k], pat.fold)
  BY DEF IsPattern

LEMMA ParsedIsPattern ==
    ASSUME NEW negated \in BOOLEAN, NEW anchored \in BOOLEAN, NEW fold \in BOOLEAN,
           NEW segments \in Seq(Seq(Tokens))
    PROVE  IsPattern(Pattern(negated, anchored, fold, segments))
<1> DEFINE head == IF anchored THEN <<>> ELSE <<AnyDepth>>
           rest == [k \in DOMAIN segments |-> Component(segments[k], fold)]
<1>2. IsComp(AnyDepth, fold)
  <2>1. <<>> \in Seq(Tokens)
    OBVIOUS
  <2> QED
    BY <2>1 DEF IsComp, AnyDepth, Comps
<1>3. ASSUME NEW segment \in Seq(Tokens) PROVE IsComp(Component(segment, fold), fold)
  <2>1. CASE segment = <<Star, Star>>
    BY <1>2, <2>1 DEF Component
  <2>2. CASE segment # <<Star, Star>>
    BY <2>2 DEF Component, IsComp, Comps
  <2> QED
    BY <2>1, <2>2
<1>4. \A comp : IsComp(comp, fold) => comp \in Comps
  BY DEF IsComp
<1>5. head \in Seq(Comps) /\ \A k \in 1 .. Len(head) : IsComp(head[k], fold)
  <2>1. CASE anchored
    <3>1. head = <<>>
      BY <2>1
    <3> QED
      BY <3>1
  <2>2. CASE ~anchored
    <3>1. head = <<AnyDepth>>
      BY <2>2
    <3>2. AnyDepth \in Comps
      BY <1>2, <1>4
    <3> QED
      BY <1>2, <3>1, <3>2
  <2> QED
    BY <2>1, <2>2
<1>6. rest \in Seq(Comps) /\ \A k \in 1 .. Len(rest) : IsComp(rest[k], fold)
  <2>1. \A k \in 1 .. Len(segments) : IsComp(Component(segments[k], fold), fold)
    BY <1>3
  <2>2. DOMAIN segments = 1 .. Len(segments) /\ Len(segments) \in Nat
    OBVIOUS
  <2>3. rest \in [1 .. Len(segments) -> Comps]
    BY <1>4, <2>1, <2>2
  <2>4. rest \in Seq(Comps) /\ Len(rest) = Len(segments)
    BY <2>2, <2>3
  <2>5. \A k \in 1 .. Len(segments) : rest[k] = Component(segments[k], fold)
    BY <2>2
  <2> HIDE DEF rest
  <2> QED
    BY <2>1, <2>4, <2>5
<1> DEFINE pat == Pattern(negated, anchored, fold, segments)
<1>7. pat.comps = head \o rest /\ pat.fold = fold /\ pat.negated = negated
  BY DEF Pattern
<1> HIDE DEF head, rest, pat
<1>8. head \o rest \in Seq(Comps) /\ Len(head \o rest) = Len(head) + Len(rest)
  BY <1>5, <1>6
<1>9. ASSUME NEW k \in 1 .. Len(head \o rest) PROVE IsComp((head \o rest)[k], fold)
  <2>1. Len(head) \in Nat /\ Len(rest) \in Nat
    BY <1>5, <1>6
  <2>2. CASE k <= Len(head)
    <3>1. (head \o rest)[k] = head[k] /\ k \in 1 .. Len(head)
      BY <1>5, <1>6, <1>8, <2>1, <2>2
    <3> QED
      BY <1>5, <3>1
  <2>3. CASE k > Len(head)
    <3>1. (head \o rest)[k] = rest[k - Len(head)] /\ k - Len(head) \in 1 .. Len(rest)
      BY <1>5, <1>6, <1>8, <2>1, <2>3
    <3> QED
      BY <1>6, <3>1
  <2> QED
    BY <1>8, <2>1, <2>2, <2>3
<1> QED
  BY <1>7, <1>8, <1>9 DEF IsPattern, pat

(* Without stars every token stands at its own place. *)
LEMMA LaidStraight ==
    ASSUME NEW F, NEW n \in Nat, NEW l \in Nat
    PROVE  Laid({}, F, 0, n, 0, l) <=> n = l /\ \A k \in 1 .. n : <<k, k>> \in F
<1>1. ASSUME Laid({}, F, 0, n, 0, l) PROVE n = l /\ \A k \in 1 .. n : <<k, k>> \in F
  <2>1. PICK c \in [0 .. n -> Nat] : c[0] = 0 /\ c[n] = l /\ LaidBy(c, {}, F, 0, n)
    BY <1>1 DEF Laid
  <2>2. \A k \in 1 .. n : c[k] = c[k - 1] + 1 /\ <<k, c[k]>> \in F
    BY <2>1 DEF LaidBy
  <2> DEFINE P == {k \in 0 .. n : c[k] = k}
  <2>3. 0 \in P
    BY <2>1
  <2>4. ASSUME NEW k \in 0 .. n - 1, k \in P PROVE k + 1 \in P
    <3>1. k + 1 \in 1 .. n /\ (k + 1) - 1 = k /\ k + 1 \in 0 .. n
      OBVIOUS
    <3>2. c[k + 1] = c[(k + 1) - 1] + 1
      BY <2>2, <3>1
    <3> QED
      BY <2>4, <3>1, <3>2
  <2>5. \A k \in 0 .. n : k \in P
    <3> HIDE DEF P
    <3> QED
      BY <2>3, <2>4, UpTo
  <2>6. \A k \in 0 .. n : c[k] = k
    BY <2>5
  <2> QED
    BY <2>1, <2>2, <2>6
<1>2. ASSUME n = l, \A k \in 1 .. n : <<k, k>> \in F PROVE Laid({}, F, 0, n, 0, l)
  <2> DEFINE c == [k \in 0 .. n |-> k]
  <2>1. c \in [0 .. n -> Nat] /\ c[0] = 0 /\ c[n] = l
    BY <1>2
  <2>2. \A k \in 0 + 1 .. n : c[k] = k /\ c[k - 1] = k - 1 /\ k \in 1 .. n
    OBVIOUS
  <2> HIDE DEF c
  <2>3. LaidBy(c, {}, F, 0, n)
    BY <1>2, <2>2 DEF LaidBy
  <2> QED
    BY <2>1, <2>3 DEF Laid
<1> QED
  BY <1>1, <1>2

(* A component fits the names that its tokens mean, also where it is       *)
(* compared as it is.                                                      *)
LEMMA CompExact ==
    ASSUME NEW comp, NEW fold, IsComp(comp, fold), comp # AnyDepth, NEW U, NEW name \in Seq(U)
    PROVE  FitsName(comp, name, fold) <=> MeansName(comp.tokens, name, fold)
<1> DEFINE tokens == comp.tokens
<1>1. tokens \in Seq(Tokens) /\ comp.kind \in {"literal", "glob"}
  BY DEF IsComp, Comps
<1>2. CASE comp.kind = "glob"
  <2>1. FitsName(comp, name, fold) <=> GlobMatch(tokens, name, fold)
    BY <1>2 DEF FitsName
  <2> HIDE DEF tokens
  <2>2. GlobMatch(tokens, name, fold) <=> MeansName(tokens, name, fold)
    BY <1>1, GlobExact
  <2> QED
    BY <2>1, <2>2 DEF tokens
<1>3. CASE comp.kind = "literal"
  <2> DEFINE n == Len(tokens)
             l == Len(name)
             F == Fitting(tokens, name, fold)
  <2>1. n \in Nat /\ l \in Nat /\ DOMAIN name = 1 .. l /\ DOMAIN tokens = 1 .. n
    BY <1>1
  <2>2. ~fold /\ \A k \in 1 .. n : tokens[k].kind = "char"
    BY <1>3, <2>1 DEF IsComp
  <2>3. FitsName(comp, name, fold) <=> n = l /\ \A k \in 1 .. l : tokens[k] = Lit(name[k])
    BY <1>3, <2>1 DEF FitsName
  <2> HIDE DEF tokens
  <2>4. ASSUME NEW k \in 1 .. n PROVE \E c \in Letters : tokens[k] = Lit(c)
    BY <1>1, <2>1, <2>2, <2>4 DEF Tokens
  <2>5. Stars(tokens) = {}
    BY <2>2 DEF Stars, Star, Token
  <2>6. MeansName(tokens, name, fold) <=> Laid(Stars(tokens), F, 0, n, 0, l)
    <3>1. MeansName(tokens, name, fold)
             <=> Laid(Stars(tokens), Fitting(tokens, name, fold), 0, Len(tokens), 0, Len(name))
      <4> HIDE DEF n, l, F
      <4> QED
        BY <1>1, NameLaid, Zenon
    <3> QED
      BY <3>1
  <2>7. Laid({}, F, 0, n, 0, l) <=> n = l /\ \A k \in 1 .. n : <<k, k>> \in F
    BY <2>1, LaidStraight
  <2>8. ASSUME n = l, NEW k \in 1 .. n PROVE <<k, k>> \in F <=> tokens[k] = Lit(name[k])
    <3>1. <<k, k>> \in F <=> Fits(tokens[k], name[k], fold)
      BY <2>1, <2>8 DEF Fitting
    <3>2. PICK c \in Letters : tokens[k] = Lit(c)
      BY <2>4
    <3>3. Fits(tokens[k], name[k], fold) <=> name[k] \notin NotUtf8 /\ c = name[k]
      BY <2>2, <3>2 DEF Fits, Lit, Token
    <3>4. c \notin NotUtf8
      BY DEF Letters
    <3>5. tokens[k] = Lit(name[k]) <=> c = name[k]
      <4>1. ASSUME tokens[k] = Lit(name[k]) PROVE c = name[k]
        <5>1. Lit(c).chars = {c} /\ Lit(name[k]).chars = {name[k]}
          BY DEF Lit, Token
        <5>2. {c} = {name[k]}
          BY <3>2, <4>1, <5>1
        <5> QED
          BY <5>2
      <4> QED
        BY <3>2, <4>1
    <3> QED
      BY <3>1, <3>3, <3>4, <3>5
  <2> HIDE DEF n, l, F
  <2> QED
    BY <2>3, <2>5, <2>6, <2>7, <2>8 DEF tokens
<1> QED
  BY <1>1, <1>2, <1>3

-----------------------------------------------------------------------------
(* One pattern along a path of names, each a sequence of characters in U.  *)
Deep(pat) == {k \in 1 .. Len(pat.comps) : pat.comps[k] = AnyDepth}
PathFits(pat, path) ==
    {q \in (1 .. Len(pat.comps)) \X (1 .. Len(path)) :
        MeansName(pat.comps[q[1]].tokens, path[q[2]], pat.fold)}
StandsAt(pat, j, path) == Standing(Deep(pat), PathFits(pat, path), j, Len(path))

LEMMA PathLaid ==
    ASSUME NEW pat, IsPattern(pat), NEW U, NEW path \in Seq(Seq(U))
    PROVE  /\ MeansPath(pat, path) <=> Laid(Deep(pat), PathFits(pat, path), 0, Len(pat.comps), 0, Len(path))
           /\ MeansPath(pat, path) <=> StandsAt(pat, Len(pat.comps) + 1, path)
<1> DEFINE comps == pat.comps
           n == Len(comps)
           l == Len(path)
           S == Deep(pat)
           F == PathFits(pat, path)
<1>1. comps \in Seq(Comps)
  BY PatternFacts
<1>2. n \in Nat /\ l \in Nat /\ DOMAIN comps = 1 .. n
  BY <1>1
<1>3. \A k \in 1 .. n : k \in S <=> comps[k] = AnyDepth
  BY DEF Deep
<1>4. \A k \in 1 .. n, x \in 1 .. l : <<k, x>> \in F <=> MeansName(comps[k].tokens, path[x], pat.fold)
  BY DEF PathFits
<1>5. MeansPath(pat, path) <=>
         \E c \in Cuts(comps, path) : \A k \in 1 .. n :
             comps[k] # AnyDepth => c[k] = c[k - 1] + 1 /\ MeansName(comps[k].tokens, path[c[k]], pat.fold)
  BY <1>2 DEF MeansPath
<1> HIDE DEF comps
<1>6. /\ \A c \in Cuts(comps, path) : \A k \in 1 .. n : c[k] = c[k - 1] + 1 => c[k] \in 1 .. l
      /\ Laid(S, F, 0, n, 0, l)
            <=> \E c \in Cuts(comps, path) : \A k \in 1 .. n :
                   k \notin S => c[k] = c[k - 1] + 1 /\ <<k, c[k]>> \in F
  BY <1>1, CutsLaid
<1>7. n + 1 \notin S /\ (n + 1) - 1 = n
  BY <1>2 DEF Deep, comps
<1> HIDE DEF n, l, S, F
<1>8. ASSUME NEW c \in Cuts(comps, path), NEW k \in 1 .. n
      PROVE  (k \notin S => c[k] = c[k - 1] + 1 /\ <<k, c[k]>> \in F)
                <=> (comps[k] # AnyDepth =>
                        c[k] = c[k - 1] + 1 /\ MeansName(comps[k].tokens, path[c[k]], pat.fold))
  BY <1>3, <1>4, <1>6
<1>9. MeansPath(pat, path) <=> Laid(S, F, 0, n, 0, l)
  BY <1>5, <1>6, <1>8
<1>10. Standing(S, F, n + 1, l) <=> Laid(S, F, 0, n, 0, l)
  BY <1>7 DEF Standing
<1> QED
  BY <1>9, <1>10 DEF comps, n, l, S, F, StandsAt

(* The names that have gone by say the same further down. *)
LEMMA FitsBefore ==
    ASSUME NEW pat, NEW U, NEW path \in Seq(U), NEW longer \in Seq(U), Len(path) <= Len(longer),
           \A k \in 1 .. Len(path) : longer[k] = path[k]
    PROVE  \A k \in 1 .. Len(pat.comps) : \A x \in 1 .. Len(path) :
              <<k, x>> \in PathFits(pat, path) <=> <<k, x>> \in PathFits(pat, longer)
<1>1. ASSUME NEW k \in 1 .. Len(pat.comps), NEW x \in 1 .. Len(path)
      PROVE  <<k, x>> \in PathFits(pat, path) <=> <<k, x>> \in PathFits(pat, longer)
  <2>1. x \in 1 .. Len(longer) /\ longer[x] = path[x]
    OBVIOUS
  <2> QED
    BY <2>1 DEF PathFits
<1> QED
  BY <1>1

(* What a pattern stands at in the beginning. *)
LEMMA StandsFirst ==
    ASSUME NEW pat, IsPattern(pat), NEW j \in 1 .. Len(pat.comps) + 1
    PROVE  StandsAt(pat, j, <<>>) <=> j \in Reach(pat.comps, 1)
<1> DEFINE n == Len(pat.comps)
           S == Deep(pat)
           F == PathFits(pat, <<>>)
           b == j - 1
<1>1. n \in Nat
  BY PatternFacts
<1>2. \A k \in 1 .. n : k \in S <=> pat.comps[k] = AnyDepth
  BY DEF Deep
<1>3. j \in Reach(pat.comps, 1) <=> \A k \in 1 .. j - 1 : pat.comps[k] = AnyDepth
  BY <1>1 DEF Reach
<1>4. \A k \in 1 .. j - 1 : k \in 1 .. n
  BY <1>1
<1>5. Len(<<>>) = 0
  OBVIOUS
<1>6. j \in Reach(pat.comps, 1) <=> \A k \in 1 .. j - 1 : k \in S
  BY <1>2, <1>3, <1>4
<1>7. 0 \in Nat /\ j \in Nat /\ b \in Nat /\ 0 <= b /\ 0 <= j /\ j - 1 = b /\ 0 + 1 .. b = 1 .. j - 1
  BY <1>1
<1> HIDE DEF b
<1>8. Laid(S, F, 0, b, 0, 0) <=> \A k \in 0 + 1 .. b : k \in S
  BY <1>7, LaidStars
<1>9. Laid(S, F, 0, j, 0, 0) <=> \A k \in 0 + 1 .. j : k \in S
  BY <1>7, LaidStars
<1>10. \A k \in 0 + 1 .. j : k \in 1 .. j - 1 \/ k = j
  BY <1>7
<1>11. \A k \in 1 .. j - 1 : k \in 0 + 1 .. j
  BY <1>7
<1>12. Standing(S, F, j, 0) <=> \A k \in 1 .. j - 1 : k \in S
  BY <1>7, <1>8, <1>9, <1>10, <1>11 DEF Standing
<1> QED
  BY <1>5, <1>6, <1>12 DEF StandsAt

(* And one name further down. *)
LEMMA StandsNext ==
    ASSUME NEW pat, IsPattern(pat), NEW U, NEW path \in Seq(Seq(U)), NEW name \in Seq(U),
           NEW j \in 1 .. Len(pat.comps) + 1
    PROVE  StandsAt(pat, j, Append(path, name)) <=>
              \E i \in 1 .. Len(pat.comps) :
                 /\ StandsAt(pat, i, path)
                 /\ \/ pat.comps[i] = AnyDepth /\ j \in Reach(pat.comps, i)
                    \/ /\ pat.comps[i] # AnyDepth /\ FitsName(pat.comps[i], name, pat.fold)
                       /\ j \in Reach(pat.comps, i + 1)
<1> DEFINE n == Len(pat.comps)
           D == Deep(pat)
           G == PathFits(pat, path)
           longer == Append(path, name)
           H == PathFits(pat, longer)
           L == Len(path)
<1>1. /\ pat.comps \in Seq(Comps) /\ n \in Nat /\ pat.fold \in BOOLEAN
      /\ \A k \in 1 .. n : IsComp(pat.comps[k], pat.fold)
  BY PatternFacts
<1>2. longer \in Seq(Seq(U)) /\ Len(longer) = L + 1 /\ L \in Nat /\ longer[L + 1] = name
      /\ \A k \in 1 .. L : longer[k] = path[k]
  OBVIOUS
<1>3. L <= Len(longer)
  BY <1>2
<1>4. \A k \in 1 .. n : \A x \in 1 .. L : <<k, x>> \in G <=> <<k, x>> \in H
  BY <1>2, <1>3, FitsBefore
<1>5. D \subseteq 1 .. n /\ \A k \in 1 .. n : k \in D <=> pat.comps[k] = AnyDepth
  BY DEF Deep
<1>6. \A i \in 1 .. n : <<i, L + 1>> \in H <=> MeansName(pat.comps[i].tokens, name, pat.fold)
  <2>1. L + 1 \in 1 .. Len(longer)
    BY <1>2
  <2> QED
    BY <1>2, <2>1 DEF PathFits
<1>7. \A i \in 1 .. n : i \notin D => (<<i, L + 1>> \in H <=> FitsName(pat.comps[i], name, pat.fold))
  BY <1>1, <1>5, <1>6, CompExact
<1>8. ASSUME NEW i \in 1 .. n + 1 PROVE j \in Reach(pat.comps, i) <=> i <= j /\ \A k \in i .. j - 1 : k \in D
  <2>1. \A k \in i .. j - 1 : k \in 1 .. n
    BY <1>1
  <2>2. j \in Reach(pat.comps, i) <=> i <= j /\ \A k \in i .. j - 1 : pat.comps[k] = AnyDepth
    BY <1>1 DEF Reach
  <2> QED
    BY <1>5, <2>1, <2>2
<1>9. StandsAt(pat, j, longer) <=> Standing(D, H, j, L + 1)
  BY <1>2 DEF StandsAt
<1>10. \A i \in 1 .. n : StandsAt(pat, i, path) <=> Standing(D, G, i, L)
  BY DEF StandsAt
<1> HIDE DEF n, D, G, H, L, longer
<1>11. Standing(D, H, j, L + 1) <=> \E i \in 1 .. n : Standing(D, G, i, L) /\ GoesOn(D, H, i, j, L)
  <2>1. j \in 1 .. n + 1
    BY DEF n
  <2> QED
    BY <1>1, <1>2, <1>4, <1>5, <2>1, StandsOn
<1>12. ASSUME NEW i \in 1 .. n
       PROVE  GoesOn(D, H, i, j, L) <=>
                 \/ pat.comps[i] = AnyDepth /\ j \in Reach(pat.comps, i)
                 \/ /\ pat.comps[i] # AnyDepth /\ FitsName(pat.comps[i], name, pat.fold)
                    /\ j \in Reach(pat.comps, i + 1)
  <2>1. i \in 1 .. n + 1 /\ i + 1 \in 1 .. n + 1
    BY <1>1
  <2> QED
    BY <1>5, <1>7, <1>8, <2>1 DEF GoesOn
<1>13. StandsAt(pat, j, longer) <=>
              \E i \in 1 .. n :
                 /\ StandsAt(pat, i, path)
                 /\ \/ pat.comps[i] = AnyDepth /\ j \in Reach(pat.comps, i)
                    \/ /\ pat.comps[i] # AnyDepth /\ FitsName(pat.comps[i], name, pat.fold)
                       /\ j \in Reach(pat.comps, i + 1)
  BY <1>9, <1>10, <1>11, <1>12
<1> QED
  BY <1>13 DEF n, longer

-----------------------------------------------------------------------------
(* What a state of PathFilter says of the path that leads to it: where     *)
(* every pattern stands, which patterns match, what they decide, and       *)
(* whether one that selects can match further down.                        *)
StateRight(filter, st, path) ==
    /\ \A y : y \in st.active <=>
                 \E p \in DOMAIN filter : \E j \in 1 .. Len(filter[p].comps) :
                    y = <<p, j>> /\ StandsAt(filter[p], j, path)
    /\ st.matched = Matching(filter, path)
    /\ path # <<>> => st.decision = Decision(filter, path)
    /\ st.mayMatchBelow <=>
          \E p \in DOMAIN filter : \E j \in 1 .. Len(filter[p].comps) :
             ~filter[p].negated /\ StandsAt(filter[p], j, path)

\* The positions that stand for where the patterns stand, when `**' may take
\* nothing.
PositionsFor(filter, positions, path) ==
    /\ \A x \in positions : \E p \in DOMAIN filter : \E i \in 1 .. Len(filter[p].comps) + 1 : x = <<p, i>>
    /\ \A p \in DOMAIN filter : \A j \in 1 .. Len(filter[p].comps) + 1 :
          StandsAt(filter[p], j, path) <=>
             \E i \in 1 .. Len(filter[p].comps) + 1 :
                <<p, i>> \in positions /\ j \in Reach(filter[p].comps, i)

LEMMA AtRight ==
    ASSUME NEW filter, IsFilter(filter), NEW positions, NEW U, NEW path \in Seq(Seq(U)),
           PositionsFor(filter, positions, path), NEW top \in BOOLEAN, path # <<>> => ~top
    PROVE  StateRight(filter, At(filter, positions, top), path)
<1> DEFINE n(p) == Len(filter[p].comps)
           st == At(filter, positions, top)
           there == UNION {{<<x[1], j>> : j \in Reach(filter[x[1]].comps, x[2])} : x \in positions}
           active == {y \in there : y[2] <= n(y[1])}
           matched == {y[1] : y \in there \ active}
<1>1. \A p \in DOMAIN filter : IsPattern(filter[p]) /\ n(p) \in Nat
  BY PatternFacts DEF IsFilter
<1>2. /\ st.active = active /\ st.matched = matched
      /\ st.decision = IF top \/ matched = {} THEN "none"
                       ELSE IF filter[Max(matched)].negated THEN "no" ELSE "yes"
      /\ st.mayMatchBelow = \E y \in active : ~filter[y[1]].negated
  BY DEF At
<1>3. ASSUME NEW y \in there
      PROVE  \E p \in DOMAIN filter : \E j \in 1 .. n(p) + 1 : y = <<p, j>> /\ StandsAt(filter[p], j, path)
  <2>1. PICK x \in positions : y \in {<<x[1], j>> : j \in Reach(filter[x[1]].comps, x[2])}
    OBVIOUS
  <2>2. PICK j \in Reach(filter[x[1]].comps, x[2]) : y = <<x[1], j>>
    BY <2>1
  <2>3. PICK p, i : p \in DOMAIN filter /\ i \in 1 .. n(p) + 1 /\ x = <<p, i>>
    BY DEF PositionsFor
  <2>4. y = <<p, j>> /\ j \in Reach(filter[p].comps, i) /\ <<p, i>> \in positions
    BY <2>2, <2>3
  <2>5. j \in 1 .. n(p) + 1
    BY <1>1, <2>3, <2>4 DEF Reach
  <2>6. StandsAt(filter[p], j, path)
    BY <2>4, <2>5 DEF PositionsFor
  <2> QED
    BY <2>3, <2>4, <2>5, <2>6
<1>4. ASSUME NEW p \in DOMAIN filter, NEW j \in 1 .. n(p) + 1, StandsAt(filter[p], j, path)
      PROVE  <<p, j>> \in there
  <2>1. PICK i \in 1 .. n(p) + 1 : <<p, i>> \in positions /\ j \in Reach(filter[p].comps, i)
    BY <1>4 DEF PositionsFor
  <2> DEFINE x == <<p, i>>
  <2>2. x \in positions /\ x[1] = p /\ x[2] = i
    BY <2>1
  <2>3. <<p, j>> \in {<<x[1], k>> : k \in Reach(filter[x[1]].comps, x[2])}
    BY <2>1, <2>2
  <2> HIDE DEF x
  <2> QED
    BY <2>2, <2>3
<1> HIDE DEF there, st
<1>5. \A y : y \in active <=>
                 \E p \in DOMAIN filter : \E j \in 1 .. n(p) : y = <<p, j>> /\ StandsAt(filter[p], j, path)
  <2>1. ASSUME NEW y \in active
        PROVE  \E p \in DOMAIN filter : \E j \in 1 .. n(p) : y = <<p, j>> /\ StandsAt(filter[p], j, path)
    <3>1. y \in there /\ y[2] <= n(y[1])
      OBVIOUS
    <3>2. PICK p, j : p \in DOMAIN filter /\ j \in 1 .. n(p) + 1 /\ y = <<p, j>> /\ StandsAt(filter[p], j, path)
      BY <1>3, <3>1
    <3>3. j <= n(p)
      BY <3>1, <3>2
    <3>4. j \in 1 .. n(p)
      BY <1>1, <3>2, <3>3
    <3> QED
      BY <3>2, <3>4
  <2>2. ASSUME NEW p \in DOMAIN filter, NEW j \in 1 .. n(p), StandsAt(filter[p], j, path)
        PROVE  <<p, j>> \in active
    <3>1. j \in 1 .. n(p) + 1 /\ j <= n(p)
      BY <1>1
    <3>2. <<p, j>> \in there
      BY <1>4, <2>2, <3>1
    <3> QED
      BY <3>1, <3>2
  <2> HIDE DEF active
  <2> QED
    BY <2>1, <2>2
<1>6. matched = Matching(filter, path)
  <2>1. ASSUME NEW p \in matched PROVE p \in Matching(filter, path)
    <3>1. PICK y \in there : y \notin active /\ p = y[1]
      BY <2>1
    <3>2. PICK q, j : q \in DOMAIN filter /\ j \in 1 .. n(q) + 1 /\ y = <<q, j>> /\ StandsAt(filter[q], j, path)
      BY <1>3
    <3>3. ~(j <= n(q)) /\ p = q
      BY <3>1, <3>2
    <3>4. j = n(q) + 1
      <4>1. n(q) \in Nat /\ j \in 1 .. n(q) + 1 /\ ~(j <= n(q))
        BY <1>1, <3>2, <3>3
      <4> QED
        BY <4>1
    <3>5. MeansPath(filter[q], path)
      BY <1>1, <3>2, <3>4, PathLaid
    <3> QED
      BY <3>2, <3>3, <3>5 DEF Matching
  <2>2. ASSUME NEW p \in Matching(filter, path) PROVE p \in matched
    <3>1. p \in DOMAIN filter /\ MeansPath(filter[p], path)
      BY DEF Matching
    <3>2. StandsAt(filter[p], n(p) + 1, path)
      BY <1>1, <3>1, PathLaid
    <3> DEFINE y == <<p, n(p) + 1>>
    <3>3. n(p) + 1 \in 1 .. n(p) + 1 /\ ~(n(p) + 1 <= n(p))
      BY <1>1, <3>1
    <3>4. y \in there
      BY <1>4, <3>1, <3>2, <3>3
    <3>5. y \notin active /\ y[1] = p
      BY <3>3
    <3> HIDE DEF y, active
    <3> QED
      BY <3>4, <3>5
  <2> HIDE DEF matched
  <2> QED
    BY <2>1, <2>2
<1>7. path # <<>> => st.decision = Decision(filter, path)
  <2> HIDE DEF matched, active
  <2> QED
    BY <1>2, <1>6 DEF Decision
<1>8. st.mayMatchBelow <=>
          \E p \in DOMAIN filter : \E j \in 1 .. n(p) : ~filter[p].negated /\ StandsAt(filter[p], j, path)
  <2> HIDE DEF active
  <2>1. ASSUME NEW y \in active, ~filter[y[1]].negated
        PROVE  \E p \in DOMAIN filter : \E j \in 1 .. n(p) : ~filter[p].negated /\ StandsAt(filter[p], j, path)
    <3>1. PICK p, j : p \in DOMAIN filter /\ j \in 1 .. n(p) /\ y = <<p, j>> /\ StandsAt(filter[p], j, path)
      BY <1>5
    <3>2. y[1] = p
      BY <3>1
    <3> QED
      BY <2>1, <3>1, <3>2
  <2>2. ASSUME NEW p \in DOMAIN filter, NEW j \in 1 .. n(p), ~filter[p].negated, StandsAt(filter[p], j, path)
        PROVE  \E y \in active : ~filter[y[1]].negated
    <3> DEFINE y == <<p, j>>
    <3>1. y \in active
      BY <1>5, <2>2
    <3>2. y[1] = p
      OBVIOUS
    <3> HIDE DEF y
    <3> QED
      BY <2>2, <3>1, <3>2
  <2> QED
    BY <1>2, <2>1, <2>2
<1>9. StateRight(filter, st, path)
  <2> HIDE DEF active, matched
  <2> QED
    BY <1>2, <1>5, <1>6, <1>7, <1>8 DEF StateRight
<1> QED
  BY <1>9 DEF st

(* PathFilter::start. *)
LEMMA FilterStarts ==
    ASSUME NEW filter, IsFilter(filter)
    PROVE  StateRight(filter, Start(filter), <<>>)
<1> DEFINE positions == {<<p, 1>> : p \in DOMAIN filter}
<1>1. \A p \in DOMAIN filter : IsPattern(filter[p]) /\ Len(filter[p].comps) \in Nat
  BY PatternFacts DEF IsFilter
<1>2. \A x \in positions : \E p \in DOMAIN filter : \E i \in 1 .. Len(filter[p].comps) + 1 : x = <<p, i>>
  <2>1. ASSUME NEW p \in DOMAIN filter PROVE 1 \in 1 .. Len(filter[p].comps) + 1
    BY <1>1
  <2> QED
    BY <2>1
<1>3. ASSUME NEW p \in DOMAIN filter, NEW j \in 1 .. Len(filter[p].comps) + 1
      PROVE  StandsAt(filter[p], j, <<>>) <=>
             \E i \in 1 .. Len(filter[p].comps) + 1 :
                <<p, i>> \in positions /\ j \in Reach(filter[p].comps, i)
  <2>1. StandsAt(filter[p], j, <<>>) <=> j \in Reach(filter[p].comps, 1)
    BY <1>1, StandsFirst
  <2>2. \A i : <<p, i>> \in positions <=> i = 1
    OBVIOUS
  <2>3. 1 \in 1 .. Len(filter[p].comps) + 1
    BY <1>1
  <2> HIDE DEF positions
  <2> QED
    BY <2>1, <2>2, <2>3
<1>4. PositionsFor(filter, positions, <<>>)
  <2> HIDE DEF positions
  <2> QED
    BY <1>2, <1>3 DEF PositionsFor
<1>5. Start(filter) = At(filter, positions, TRUE)
  BY DEF Start
<1>6. <<>> \in Seq(Seq({}))
  OBVIOUS
<1> HIDE DEF positions
<1>7. StateRight(filter, At(filter, positions, TRUE), <<>>)
  BY <1>4, <1>6, AtRight
<1> QED
  BY <1>5, <1>7

(* PathFilter::descend. *)
LEMMA FilterDescends ==
    ASSUME NEW filter, IsFilter(filter), NEW st, NEW U, NEW path \in Seq(Seq(U)), NEW name \in Seq(U),
           StateRight(filter, st, path)
    PROVE  StateRight(filter, Descend(filter, st, name), Append(path, name))
<1> DEFINE n(p) == Len(filter[p].comps)
           Deeper(x) == filter[x[1]].comps[x[2]] = AnyDepth
           Past(x) == ~Deeper(x) /\ FitsName(filter[x[1]].comps[x[2]], name, filter[x[1]].fold)
           positions == {x \in st.active : Deeper(x)}
                           \cup {<<x[1], x[2] + 1>> : x \in {y \in st.active : Past(y)}}
           longer == Append(path, name)
<1>1. \A p \in DOMAIN filter : IsPattern(filter[p]) /\ n(p) \in Nat
  BY PatternFacts DEF IsFilter
<1>2. \A y : y \in st.active <=>
                 \E p \in DOMAIN filter : \E j \in 1 .. n(p) : y = <<p, j>> /\ StandsAt(filter[p], j, path)
  BY DEF StateRight
<1>3. \A p \in DOMAIN filter : \A j \in 1 .. n(p) : <<p, j>> \in st.active <=> StandsAt(filter[p], j, path)
  BY <1>2
<1>4. ASSUME NEW x \in positions
      PROVE  \E p \in DOMAIN filter : \E i \in 1 .. n(p) + 1 : x = <<p, i>>
  <2>1. CASE x \in st.active
    <3>1. PICK p, j : p \in DOMAIN filter /\ j \in 1 .. n(p) /\ x = <<p, j>>
      BY <1>2, <2>1
    <3>2. j \in 1 .. n(p) + 1
      BY <1>1, <3>1
    <3> QED
      BY <3>1, <3>2
  <2>2. CASE x \notin st.active
    <3>1. PICK y \in st.active : x = <<y[1], y[2] + 1>>
      BY <2>2
    <3>2. PICK p, j : p \in DOMAIN filter /\ j \in 1 .. n(p) /\ y = <<p, j>>
      BY <1>2
    <3>3. j + 1 \in 1 .. n(p) + 1 /\ x = <<p, j + 1>>
      BY <1>1, <3>1, <3>2
    <3> QED
      BY <3>2, <3>3
  <2> QED
    BY <2>1, <2>2
<1>5. ASSUME NEW p \in DOMAIN filter, NEW j \in 1 .. n(p) + 1
      PROVE  StandsAt(filter[p], j, longer) <=>
             \E i \in 1 .. n(p) + 1 : <<p, i>> \in positions /\ j \in Reach(filter[p].comps, i)
  <2> DEFINE pat == filter[p]
             On(i) == \/ pat.comps[i] = AnyDepth /\ j \in Reach(pat.comps, i)
                      \/ /\ pat.comps[i] # AnyDepth /\ FitsName(pat.comps[i], name, pat.fold)
                         /\ j \in Reach(pat.comps, i + 1)
  <2>1. StandsAt(pat, j, longer) <=> \E i \in 1 .. n(p) : StandsAt(pat, i, path) /\ On(i)
    BY <1>1, StandsNext
  <2>2. ASSUME NEW i \in 1 .. n(p), StandsAt(pat, i, path), On(i)
        PROVE  \E k \in 1 .. n(p) + 1 : <<p, k>> \in positions /\ j \in Reach(filter[p].comps, k)
    <3> DEFINE x == <<p, i>>
    <3>1. x \in st.active /\ x[1] = p /\ x[2] = i /\ i \in 1 .. n(p) + 1 /\ i + 1 \in 1 .. n(p) + 1
      BY <1>1, <1>3, <2>2
    <3>2. CASE pat.comps[i] = AnyDepth
      <4>1. Deeper(x)
        BY <3>1, <3>2
      <4>2. x \in positions /\ j \in Reach(pat.comps, i)
        BY <2>2, <3>1, <3>2, <4>1
      <4> QED
        BY <3>1, <4>2
    <3>3. CASE pat.comps[i] # AnyDepth
      <4>1. Past(x) /\ j \in Reach(pat.comps, i + 1)
        BY <2>2, <3>1, <3>3
      <4>2. <<x[1], x[2] + 1>> \in positions
        <5> HIDE DEF x, Past
        <5> QED
          BY <3>1, <4>1
      <4>3. <<p, i + 1>> \in positions
        BY <3>1, <4>2
      <4> HIDE DEF positions
      <4> QED
        BY <3>1, <4>1, <4>3
    <3> QED
      BY <3>2, <3>3
  <2>3. ASSUME NEW k \in 1 .. n(p) + 1, <<p, k>> \in positions, j \in Reach(filter[p].comps, k)
        PROVE  \E i \in 1 .. n(p) : StandsAt(pat, i, path) /\ On(i)
    <3> DEFINE x == <<p, k>>
    <3>1. CASE x \in {y \in st.active : Deeper(y)}
      <4>1. x \in st.active /\ Deeper(x) /\ x[1] = p /\ x[2] = k
        BY <3>1
      <4>2. PICK q, i : q \in DOMAIN filter /\ i \in 1 .. n(q) /\ x = <<q, i>> /\ StandsAt(filter[q], i, path)
        BY <1>2, <4>1
      <4>3. q = p /\ i = k
        BY <4>1, <4>2
      <4>4. k \in 1 .. n(p) /\ StandsAt(pat, k, path) /\ pat.comps[k] = AnyDepth
        BY <4>1, <4>2, <4>3
      <4> QED
        BY <2>3, <4>4
    <3>2. CASE x \notin {y \in st.active : Deeper(y)}
      <4>1. x \in {<<y[1], y[2] + 1>> : y \in {y \in st.active : Past(y)}}
        BY <2>3, <3>2
      <4>2. PICK y \in st.active : Past(y) /\ x = <<y[1], y[2] + 1>>
        <5> HIDE DEF x, Past
        <5> QED
          BY <4>1
      <4>3. PICK q, i : q \in DOMAIN filter /\ i \in 1 .. n(q) /\ y = <<q, i>> /\ StandsAt(filter[q], i, path)
        BY <1>2
      <4>4. y[1] = q /\ y[2] = i
        BY <4>3
      <4>5. q = p /\ k = i + 1
        BY <4>2, <4>4
      <4>6. i \in 1 .. n(p) /\ StandsAt(pat, i, path) /\ pat.comps[i] # AnyDepth
            /\ FitsName(pat.comps[i], name, pat.fold)
        BY <4>2, <4>3, <4>4, <4>5
      <4> QED
        BY <2>3, <4>5, <4>6
    <3> QED
      BY <3>1, <3>2
  <2> HIDE DEF On, positions, pat, longer
  <2>4. StandsAt(pat, j, longer) <=>
             \E i \in 1 .. n(p) + 1 : <<p, i>> \in positions /\ j \in Reach(filter[p].comps, i)
    BY <2>1, <2>2, <2>3
  <2> QED
    BY <2>4 DEF pat
<1>6. PositionsFor(filter, positions, longer)
  <2> HIDE DEF positions, longer
  <2> QED
    BY <1>4, <1>5 DEF PositionsFor
<1>7. Descend(filter, st, name) = At(filter, positions, FALSE)
  BY DEF Descend
<1>8. longer \in Seq(Seq(U))
  OBVIOUS
<1> HIDE DEF positions, longer
<1>9. StateRight(filter, At(filter, positions, FALSE), longer)
  BY <1>6, <1>8, AtRight
<1> QED
  BY <1>7, <1>9 DEF longer

(* A branch where nothing can match any more: whatever matches deeper in   *)
(* it, is excepted with `!'.                                               *)
LEMMA NothingBelow ==
    ASSUME NEW filter, IsFilter(filter), NEW st, NEW U, NEW path \in Seq(Seq(U)), StateRight(filter, st, path),
           ~st.mayMatchBelow, NEW longer \in Seq(Seq(U)), Len(path) < Len(longer),
           \A k \in 1 .. Len(path) : longer[k] = path[k]
    PROVE  \A p \in Matching(filter, longer) : filter[p].negated
<1> SUFFICES ASSUME NEW p \in Matching(filter, longer), ~filter[p].negated PROVE FALSE
  OBVIOUS
<1> DEFINE pat == filter[p]
           n == Len(pat.comps)
           D == Deep(pat)
           G == PathFits(pat, path)
           H == PathFits(pat, longer)
           l == Len(path)
           m == Len(longer)
<1>1. p \in DOMAIN filter /\ MeansPath(pat, longer)
  BY DEF Matching
<1>2. IsPattern(pat)
  BY <1>1 DEF IsFilter
<1>3. n \in Nat /\ l \in Nat /\ m \in Nat /\ l <= m /\ l < m
  BY <1>2, PatternFacts
<1>4. Laid(D, H, 0, n, 0, m)
  BY <1>1, <1>2, PathLaid
<1>5. \A k \in 1 .. n : \A x \in 1 .. l : <<k, x>> \in G <=> <<k, x>> \in H
  BY <1>3, FitsBefore
<1>6. \A k \in 1 .. n : ~StandsAt(pat, k, path)
  BY <1>1 DEF StateRight
<1>7. \A k \in 1 .. n : ~Standing(D, G, k, l)
  BY <1>6 DEF StandsAt
<1> HIDE DEF n, D, G, H, l, m
<1> QED
  BY <1>3, <1>4, <1>5, <1>7, StandsAbove

(* A filter and its states along a path.                                   *)
Along(filter, path, state) ==
    /\ state[0] = Start(filter)
    /\ \A k \in 1 .. Len(path) : state[k] = Descend(filter, state[k - 1], path[k])

LEMMA RightAlong ==
    ASSUME NEW filter, IsFilter(filter), NEW U, NEW path \in Seq(Seq(U)), NEW state,
           Along(filter, path, state)
    PROVE  \A k \in 0 .. Len(path) : StateRight(filter, state[k], SubSeq(path, 1, k))
<1> DEFINE n == Len(path)
           Right(k) == StateRight(filter, state[k], SubSeq(path, 1, k))
           P == {k \in 0 .. n : Right(k)}
<1>1. n \in Nat
  OBVIOUS
<1>2. 0 \in P
  <2>1. SubSeq(path, 1, 0) = <<>>
    OBVIOUS
  <2>2. Right(0)
    BY <2>1, FilterStarts DEF Along
  <2> HIDE DEF Right
  <2> QED
    BY <1>1, <2>2
<1>3. ASSUME NEW k \in 0 .. n - 1, k \in P PROVE k + 1 \in P
  <2> DEFINE upTo == SubSeq(path, 1, k)
             name == path[k + 1]
             one == state[k]
  <2>1. upTo \in Seq(Seq(U)) /\ name \in Seq(U) /\ SubSeq(path, 1, k + 1) = Append(upTo, name)
    BY <1>1
  <2>2. state[k + 1] = Descend(filter, one, name)
    <3>1. k + 1 \in 1 .. n /\ (k + 1) - 1 = k
      OBVIOUS
    <3> QED
      BY <3>1 DEF Along
  <2>3. StateRight(filter, one, upTo)
    BY <1>3
  <2> HIDE DEF upTo, name, one
  <2>4. StateRight(filter, Descend(filter, one, name), Append(upTo, name))
    BY <2>1, <2>3, FilterDescends
  <2>5. Right(k + 1)
    BY <2>1, <2>2, <2>4
  <2> HIDE DEF Right
  <2> QED
    BY <1>1, <2>5
<1>4. \A k \in 0 .. n : k \in P
  <2> HIDE DEF P
  <2> QED
    BY <1>1, <1>2, <1>3, UpTo
<1> QED
  BY <1>4

(* A walk down a path, one name after another, knows at every node what    *)
(* the patterns say of the whole path to it: which of them match, and what *)
(* the last of those decides (PathFilter::start and PathFilter::descend).  *)
THEOREM FilterExact ==
    ASSUME NEW filter, IsFilter(filter), NEW U, NEW path \in Seq(Seq(U)), NEW state,
           Along(filter, path, state)
    PROVE  \A k \in 1 .. Len(path) :
              /\ state[k].matched = Matching(filter, SubSeq(path, 1, k))
              /\ state[k].decision = Decision(filter, SubSeq(path, 1, k))
<1> SUFFICES ASSUME NEW k \in 1 .. Len(path)
             PROVE  /\ state[k].matched = Matching(filter, SubSeq(path, 1, k))
                    /\ state[k].decision = Decision(filter, SubSeq(path, 1, k))
  OBVIOUS
<1>1. StateRight(filter, state[k], SubSeq(path, 1, k))
  <2>1. k \in 0 .. Len(path)
    OBVIOUS
  <2> QED
    BY <2>1, RightAlong
<1>2. SubSeq(path, 1, k) # <<>>
  <2>1. Len(SubSeq(path, 1, k)) = k /\ k # 0
    OBVIOUS
  <2>2. Len(<<>>) = 0
    OBVIOUS
  <2> QED
    BY <2>1, <2>2
<1> QED
  BY <1>1, <1>2 DEF StateRight

(* A walk that turns back where nothing can match any more misses nothing  *)
(* the patterns select: whatever matches deeper, by a longer path, is      *)
(* excepted with `!' (FilterState::may_match_below).                       *)
THEOREM PruneSafe ==
    ASSUME NEW filter, IsFilter(filter), NEW U, NEW path \in Seq(Seq(U)), NEW state,
           Along(filter, path, state), ~state[Len(path)].mayMatchBelow,
           NEW longer \in Seq(Seq(U)), Len(path) < Len(longer),
           \A k \in 1 .. Len(path) : longer[k] = path[k]
    PROVE  \A p \in Matching(filter, longer) : filter[p].negated
<1>1. Len(path) \in 0 .. Len(path) /\ SubSeq(path, 1, Len(path)) = path
  OBVIOUS
<1>2. StateRight(filter, state[Len(path)], path)
  BY <1>1, RightAlong
<1> QED
  BY <1>2, NothingBelow

-----------------------------------------------------------------------------
(* What is asked for.                                                      *)

(* A set of natural numbers up to n has a greatest. *)
LEMMA Greatest ==
    ASSUME NEW n \in Nat, NEW S \in SUBSET (0 .. n), S # {}
    PROVE  Max(S) \in S /\ \A y \in S : y <= Max(S)
<1> DEFINE P == {m \in 0 .. n : (\A y \in S : y <= n - m) \/ (\E x \in S : \A y \in S : x >= y)}
<1>1. 0 \in P
  OBVIOUS
<1>2. ASSUME NEW m \in 0 .. n - 1, m \in P PROVE m + 1 \in P
  <2>1. m + 1 \in 0 .. n /\ n - m \in Nat /\ n - (m + 1) \in Nat
    OBVIOUS
  <2>2. CASE \E x \in S : \A y \in S : x >= y
    BY <2>1, <2>2
  <2>3. CASE \A y \in S : y <= n - m
    <3>1. CASE n - m \in S
      <4>1. \A y \in S : n - m >= y
        BY <2>1, <2>3
      <4> QED
        BY <2>1, <3>1, <4>1
    <3>2. CASE n - m \notin S
      <4>1. \A y \in S : y <= n - (m + 1)
        BY <2>1, <2>3, <3>2
      <4> QED
        BY <2>1, <4>1
    <3> QED
      BY <3>1, <3>2
  <2> QED
    BY <1>2, <2>2, <2>3
<1> HIDE DEF P
<1>3. n \in P
  <2>1. \A k \in 0 .. n : k \in P
    BY <1>1, <1>2, UpTo
  <2> QED
    BY <2>1
<1>4. \E x \in S : \A y \in S : x >= y
  <2>1. CASE \A y \in S : y <= n - n
    <3>1. PICK x \in S : TRUE
      OBVIOUS
    <3>2. \A y \in S : y = 0
      BY <2>1
    <3> QED
      BY <3>1, <3>2
  <2> QED
    BY <1>3, <2>1 DEF P
<1>5. Max(S) \in S /\ \A y \in S : Max(S) >= y
  BY <1>4, Zenon DEF Max
<1>6. \A y \in S : y <= Max(S)
  BY <1>5
<1> QED
  BY <1>5, <1>6

(* Of two numbers, the lesser. *)
LEMMA Lesser ==
    ASSUME NEW x \in Nat, NEW y \in Nat, x < y
    PROVE  Min({x, y}) = x /\ Min({y, x}) = x
<1>1. {x, y} = {y, x}
  OBVIOUS
<1>2. \A z \in {x, y} : (\A u \in {x, y} : z =< u) <=> z = x
  OBVIOUS
<1>3. Min({x, y}) \in {x, y} /\ \A u \in {x, y} : Min({x, y}) =< u
  <2>1. \E z \in {x, y} : \A u \in {x, y} : z =< u
    BY <1>2
  <2> QED
    BY <2>1, Zenon DEF Min
<1> QED
  BY <1>1, <1>2, <1>3

(* The nodes on a path. *)
LEMMA PartsOf ==
    ASSUME NEW U, NEW path \in Seq(U)
    PROVE  /\ Parts(path) = {SubSeq(path, 1, l) : l \in 1 .. Len(path)}
           /\ \A l \in 1 .. Len(path) : Len(SubSeq(path, 1, l)) = l
           /\ \A l \in 0 .. Len(path) : SubSeq(path, 1, l) \in Seq(U)
           /\ Len(path) \in Nat /\ SubSeq(path, 1, Len(path)) = path
<1>1. Len(path) \in Nat /\ \A k \in 1 .. Len(path) : path[k] \in U
  OBVIOUS
<1>2. /\ \A l \in 1 .. Len(path) : Len(SubSeq(path, 1, l)) = l
      /\ \A l \in 0 .. Len(path) : SubSeq(path, 1, l) \in Seq(U)
  OBVIOUS
<1>3. SubSeq(path, 1, 0) = <<>> /\ Len(<<>>) = 0
  OBVIOUS
<1>4. \A l \in 1 .. Len(path) : SubSeq(path, 1, l) # <<>>
  <2> SUFFICES ASSUME NEW l \in 1 .. Len(path) PROVE SubSeq(path, 1, l) # <<>>
    OBVIOUS
  <2>1. Len(SubSeq(path, 1, l)) = l /\ l # 0
    BY <1>1, <1>2
  <2> QED
    BY <1>3, <2>1
<1>5. \A l : l \in 0 .. Len(path) <=> l = 0 \/ l \in 1 .. Len(path)
  BY <1>1
<1>6. Parts(path) = {SubSeq(path, 1, l) : l \in 1 .. Len(path)}
  BY <1>3, <1>4, <1>5, Zenon DEF Parts, Prefixes
<1>7. SubSeq(path, 1, Len(path)) = path
  OBVIOUS
<1> QED
  BY <1>1, <1>2, <1>6, <1>7

(* The nodes of a path that the patterns of include say something of. *)
Said(path) == {l \in 1 .. Len(path) : Decision(request.include, SubSeq(path, 1, l)) # "none"}

LEMMA ExcludedBy ==
    ASSUME NEW U, NEW path \in Seq(U)
    PROVE  Excluded(path) <=> \E l \in 1 .. Len(path) : Decision(request.exclude, SubSeq(path, 1, l)) = "yes"
<1>1. Parts(path) = {SubSeq(path, 1, l) : l \in 1 .. Len(path)}
  BY PartsOf
<1>2. ASSUME Excluded(path)
      PROVE  \E l \in 1 .. Len(path) : Decision(request.exclude, SubSeq(path, 1, l)) = "yes"
  <2>1. PICK p \in Parts(path) : Decision(request.exclude, p) = "yes"
    BY <1>2 DEF Excluded
  <2>2. PICK l \in 1 .. Len(path) : p = SubSeq(path, 1, l)
    BY <1>1, <2>1
  <2> QED
    BY <2>1, <2>2
<1>3. ASSUME NEW l \in 1 .. Len(path), Decision(request.exclude, SubSeq(path, 1, l)) = "yes"
      PROVE  Excluded(path)
  <2>1. SubSeq(path, 1, l) \in Parts(path)
    BY <1>1
  <2> QED
    BY <1>3, <2>1 DEF Excluded
<1> QED
  BY <1>2, <1>3

LEMMA IncludedBy ==
    ASSUME NEW U, NEW path \in Seq(U)
    PROVE  Included(path) <=> IF Said(path) = {} THEN request.include = <<>>
                              ELSE Decision(request.include, SubSeq(path, 1, Max(Said(path)))) = "yes"
<1> DEFINE n == Len(path)
           S == {Len(p) : p \in {p \in Parts(path) : Decision(request.include, p) # "none"}}
<1>1. /\ Parts(path) = {SubSeq(path, 1, l) : l \in 1 .. n}
      /\ \A l \in 1 .. n : Len(SubSeq(path, 1, l)) = l
  BY PartsOf
<1>2. S = Said(path)
  <2>1. ASSUME NEW x \in S PROVE x \in Said(path)
    <3>1. PICK p \in Parts(path) : Decision(request.include, p) # "none" /\ x = Len(p)
      OBVIOUS
    <3>2. PICK l \in 1 .. n : p = SubSeq(path, 1, l)
      BY <1>1, <3>1
    <3> QED
      BY <1>1, <3>1, <3>2 DEF Said
  <2>2. ASSUME NEW l \in Said(path) PROVE l \in S
    <3>1. l \in 1 .. n /\ Decision(request.include, SubSeq(path, 1, l)) # "none"
      BY DEF Said
    <3>2. SubSeq(path, 1, l) \in Parts(path) /\ Len(SubSeq(path, 1, l)) = l
      BY <1>1, <3>1
    <3> QED
      BY <3>1, <3>2
  <2> HIDE DEF S
  <2> QED
    BY <2>1, <2>2
<1> QED
  BY <1>2, Zenon DEF Included

(* One path is another or leads on from it. *)
Begins(path, longer) == Len(path) <= Len(longer) /\ \A k \in 1 .. Len(path) : longer[k] = path[k]

LEMMA BeginsParts ==
    ASSUME NEW U, NEW path \in Seq(U), NEW longer \in Seq(U), Begins(path, longer)
    PROVE  \A l \in 1 .. Len(path) : l \in 1 .. Len(longer) /\ SubSeq(longer, 1, l) = SubSeq(path, 1, l)
<1> SUFFICES ASSUME NEW l \in 1 .. Len(path)
             PROVE  l \in 1 .. Len(longer) /\ SubSeq(longer, 1, l) = SubSeq(path, 1, l)
  OBVIOUS
<1>1. l \in 1 .. Len(longer) /\ \A k \in 1 .. l : longer[k] = path[k]
  BY DEF Begins
<1>2. /\ SubSeq(longer, 1, l) = [k \in 1 .. l |-> longer[k]]
      /\ SubSeq(path, 1, l) = [k \in 1 .. l |-> path[k]]
  BY <1>1
<1> QED
  BY <1>1, <1>2

(* What is below an excluded directory is excluded. *)
LEMMA ExcludedBelow ==
    ASSUME NEW U, NEW path \in Seq(U), NEW longer \in Seq(U), Begins(path, longer), Excluded(path)
    PROVE  Excluded(longer)
<1>1. PICK l \in 1 .. Len(path) : Decision(request.exclude, SubSeq(path, 1, l)) = "yes"
  BY ExcludedBy
<1>2. l \in 1 .. Len(longer) /\ SubSeq(longer, 1, l) = SubSeq(path, 1, l)
  BY BeginsParts
<1> QED
  BY <1>1, <1>2, ExcludedBy

(* One name more. *)
LEMMA OneMore ==
    ASSUME NEW U, NEW path \in Seq(U), NEW name \in U
    PROVE  /\ Append(path, name) \in Seq(U) /\ Append(path, name) # <<>>
           /\ Begins(path, Append(path, name)) /\ Len(path) \in Nat
           /\ Len(Append(path, name)) = Len(path) + 1
           /\ \A l \in 1 .. Len(path) : SubSeq(Append(path, name), 1, l) = SubSeq(path, 1, l)
           /\ SubSeq(Append(path, name), 1, Len(path) + 1) = Append(path, name)
<1> DEFINE q == Append(path, name)
<1>1. /\ q \in Seq(U) /\ Len(q) = Len(path) + 1 /\ Len(path) \in Nat
      /\ \A k \in 1 .. Len(path) : q[k] = path[k]
  OBVIOUS
<1>2. Len(<<>>) = 0
  OBVIOUS
<1> HIDE DEF q
<1>3. Begins(path, q)
  BY <1>1 DEF Begins
<1>4. SubSeq(q, 1, Len(q)) = q
  BY <1>1
<1>5. \A l \in 1 .. Len(path) : SubSeq(q, 1, l) = SubSeq(path, 1, l)
  BY <1>1, <1>3, BeginsParts
<1>6. q # <<>>
  BY <1>1, <1>2
<1> QED
  BY <1>1, <1>3, <1>4, <1>5, <1>6 DEF q

LEMMA ExcludedChild ==
    ASSUME NEW U, NEW path \in Seq(U), NEW name \in U
    PROVE  Excluded(Append(path, name)) <=>
              Excluded(path) \/ Decision(request.exclude, Append(path, name)) = "yes"
<1> DEFINE q == Append(path, name)
<1>1. /\ q \in Seq(U) /\ Len(q) = Len(path) + 1 /\ Len(path) \in Nat /\ Begins(path, q)
      /\ \A l \in 1 .. Len(path) : SubSeq(q, 1, l) = SubSeq(path, 1, l)
      /\ SubSeq(q, 1, Len(path) + 1) = q
  BY OneMore
<1> HIDE DEF q
<1>2. \A l : l \in 1 .. Len(q) <=> l \in 1 .. Len(path) \/ l = Len(path) + 1
  BY <1>1
<1>3. Excluded(q) <=> \E l \in 1 .. Len(q) : Decision(request.exclude, SubSeq(q, 1, l)) = "yes"
  BY <1>1, ExcludedBy
<1>4. Excluded(path) <=> \E l \in 1 .. Len(path) : Decision(request.exclude, SubSeq(path, 1, l)) = "yes"
  BY ExcludedBy
<1>5. Excluded(q) <=> Excluded(path) \/ Decision(request.exclude, q) = "yes"
  BY <1>1, <1>2, <1>3, <1>4, Zenon
<1> QED
  BY <1>5 DEF q

LEMMA IncludedChild ==
    ASSUME NEW U, NEW path \in Seq(U), NEW name \in U
    PROVE  Included(Append(path, name)) <=>
              IF Decision(request.include, Append(path, name)) = "none" THEN Included(path)
              ELSE Decision(request.include, Append(path, name)) = "yes"
<1> DEFINE q == Append(path, name)
           n == Len(path)
<1>1. /\ q \in Seq(U) /\ Len(q) = n + 1 /\ n \in Nat
      /\ \A l \in 1 .. n : SubSeq(q, 1, l) = SubSeq(path, 1, l)
      /\ SubSeq(q, 1, n + 1) = q
  BY OneMore
<1> HIDE DEF q
<1>2. \A l : l \in 1 .. Len(q) <=> l \in 1 .. n \/ l = n + 1
  BY <1>1
<1>3. /\ Included(q) <=> IF Said(q) = {} THEN request.include = <<>>
                         ELSE Decision(request.include, SubSeq(q, 1, Max(Said(q)))) = "yes"
      /\ Included(path) <=> IF Said(path) = {} THEN request.include = <<>>
                            ELSE Decision(request.include, SubSeq(path, 1, Max(Said(path)))) = "yes"
  BY <1>1, IncludedBy
<1>4. CASE Decision(request.include, q) = "none"
  <2>1. Said(q) = Said(path)
    <3>1. ASSUME NEW l PROVE l \in Said(q) <=> l \in Said(path)
      <4>1. l = n + 1 => l \notin Said(q)
        BY <1>1, <1>4 DEF Said
      <4>2. n + 1 \notin 1 .. n
        BY <1>1
      <4>3. l \in 1 .. n => (l \in Said(q) <=> l \in Said(path))
        BY <1>1, <1>2 DEF Said
      <4>4. l \in Said(path) => l \in 1 .. n
        BY DEF Said
      <4>5. l \in Said(q) => l \in 1 .. n \/ l = n + 1
        BY <1>2 DEF Said
      <4> QED
        BY <4>1, <4>2, <4>3, <4>4, <4>5
    <3> QED
      BY <3>1
  <2>2. Said(path) # {} => SubSeq(q, 1, Max(Said(path))) = SubSeq(path, 1, Max(Said(path)))
    <3>1. Said(path) \in SUBSET (0 .. n) /\ Said(path) \in SUBSET (1 .. n)
      BY <1>1 DEF Said
    <3>2. Said(path) # {} => Max(Said(path)) \in Said(path)
      BY <1>1, <3>1, Greatest
    <3> QED
      BY <1>1, <3>1, <3>2
  <2> QED
    BY <1>3, <1>4, <2>1, <2>2 DEF q
<1>5. CASE Decision(request.include, q) # "none"
  <2>1. n + 1 \in Said(q)
    BY <1>1, <1>2, <1>5 DEF Said
  <2>2. Max(Said(q)) = n + 1
    <3>1. Said(q) \in SUBSET (0 .. n + 1) /\ n + 1 \in Nat
      BY <1>1, <1>2 DEF Said
    <3>2. Max(Said(q)) \in Said(q) /\ \A y \in Said(q) : y <= Max(Said(q))
      BY <2>1, <3>1, Greatest
    <3>3. Max(Said(q)) \in 0 .. n + 1 /\ n + 1 <= Max(Said(q))
      BY <2>1, <3>1, <3>2
    <3> QED
      BY <3>1, <3>3
  <2> QED
    BY <1>1, <1>3, <1>5, <2>1, <2>2 DEF q
<1> QED
  BY <1>4, <1>5 DEF q

-----------------------------------------------------------------------------
(* A position is right for a path: it knows whether the path is excluded,  *)
(* and if not, whether it is included, and where the patterns stand.       *)
PosRight(pos, path) ==
    /\ pos.gone \in BOOLEAN /\ pos.selected \in BOOLEAN
    /\ pos.gone => Excluded(path)
    /\ ~pos.gone => /\ ~Excluded(path)
                    /\ pos.selected <=> Included(path)
                    /\ StateRight(request.include, pos.include, path)
                    /\ StateRight(request.exclude, pos.exclude, path)

Filtered ==
    /\ IsList(request.include) /\ IsFilter(request.include)
    /\ IsList(request.exclude) /\ IsFilter(request.exclude)

LEMMA TopRight ==
    ASSUME Filtered
    PROVE  PosRight(TopPos, <<>>) /\ ~TopPos.gone
<1>1. /\ TopPos.gone = FALSE /\ TopPos.selected = (request.include = <<>>)
      /\ TopPos.include = Start(request.include) /\ TopPos.exclude = Start(request.exclude)
  BY DEF TopPos
<1>2. <<>> \in Seq(PathNames) /\ Len(<<>>) = 0
  OBVIOUS
<1>3. ~Excluded(<<>>)
  <2>1. \A l \in 1 .. Len(<<>>) : FALSE
    BY <1>2
  <2>2. Excluded(<<>>) => \E l \in 1 .. Len(<<>>) : Decision(request.exclude, SubSeq(<<>>, 1, l)) = "yes"
    BY <1>2, ExcludedBy
  <2> QED
    BY <2>1, <2>2
<1>4. Included(<<>>) <=> request.include = <<>>
  <2>1. Said(<<>>) = {}
    BY <1>2 DEF Said
  <2> QED
    BY <1>2, <2>1, IncludedBy
<1>5. /\ StateRight(request.include, TopPos.include, <<>>)
      /\ StateRight(request.exclude, TopPos.exclude, <<>>)
  BY <1>1, FilterStarts DEF Filtered
<1> QED
  BY <1>1, <1>3, <1>4, <1>5 DEF PosRight

LEMMA ChildRight ==
    ASSUME Filtered, NEW pos, NEW path \in Seq(PathNames), NEW name \in PathNames,
           PosRight(pos, path), ~pos.gone
    PROVE  PosRight(ChildPos(pos, name), Append(path, name))
<1> DEFINE q == Append(path, name)
           exclude == Descend(request.exclude, pos.exclude, name)
           include == Descend(request.include, pos.include, name)
           selected == IF include.decision = "none" THEN pos.selected ELSE include.decision = "yes"
           next == ChildPos(pos, name)
<1>1. /\ path \in Seq(Seq(DOMAIN Lower)) /\ name \in Seq(DOMAIN Lower)
  BY DEF PathNames
<1>2. q # <<>>
  BY OneMore
<1>3. /\ StateRight(request.include, pos.include, path) /\ StateRight(request.exclude, pos.exclude, path)
      /\ ~Excluded(path) /\ (pos.selected <=> Included(path)) /\ pos.selected \in BOOLEAN
  BY DEF PosRight
<1>4. StateRight(request.include, include, q) /\ StateRight(request.exclude, exclude, q)
  BY <1>1, <1>3, FilterDescends DEF Filtered
<1>5. include.decision = Decision(request.include, q) /\ exclude.decision = Decision(request.exclude, q)
  BY <1>2, <1>4 DEF StateRight
<1>6. /\ Excluded(q) <=> exclude.decision = "yes"
      /\ Included(q) <=> IF include.decision = "none" THEN Included(path) ELSE include.decision = "yes"
  BY <1>3, <1>5, ExcludedChild, IncludedChild
<1>7. CASE exclude.decision = "yes"
  <2>1. next = NoPos
    BY <1>7 DEF ChildPos
  <2>2. NoPos.gone = TRUE /\ NoPos.selected = FALSE
    BY DEF NoPos
  <2>3. Excluded(q)
    BY <1>6, <1>7
  <2> HIDE DEF q, next, exclude, include, selected
  <2>4. PosRight(next, q)
    BY <2>1, <2>2, <2>3 DEF PosRight
  <2> QED
    BY <2>4 DEF next, q
<1>8. CASE exclude.decision # "yes"
  <2>1. next = [selected |-> selected, include |-> include, exclude |-> exclude,
                pending |-> (pos.pending \cup {p \in include.matched : Positive(p)}) \ hit,
                gone |-> FALSE]
    BY <1>8 DEF ChildPos
  <2>2. /\ next.gone = FALSE /\ next.selected = selected
        /\ next.include = include /\ next.exclude = exclude
    <3> HIDE DEF next, selected, include, exclude
    <3> QED
      BY <2>1
  <2>3. selected \in BOOLEAN /\ (selected <=> Included(q)) /\ ~Excluded(q)
    <3>1. selected \in BOOLEAN
      BY <1>3
    <3>2. selected <=> Included(q)
      BY <1>3, <1>6
    <3> QED
      BY <1>6, <1>8, <3>1, <3>2
  <2> HIDE DEF q, next, selected, include, exclude
  <2>4. PosRight(next, q)
    BY <1>4, <2>2, <2>3 DEF PosRight
  <2> QED
    BY <2>4 DEF next, q
<1> QED
  BY <1>7, <1>8

(* WalkTo.                                                                 *)
Further(pos, name) == IF pos.gone THEN NoPos ELSE ChildPos(pos, name)
Walking(g, names, m) ==
    g = [k \in 0 .. m |-> IF k = 0 THEN TopPos ELSE Further(g[k - 1], names[k])]
WalkingTo(g, names) ==
    g = [k \in 0 .. Len(names) |->
            IF k = 0 THEN TopPos ELSE IF g[k - 1].gone THEN NoPos ELSE ChildPos(g[k - 1], names[k])]

LEMMA WalkingExists ==
    ASSUME NEW names, NEW n \in Nat
    PROVE  \E g : Walking(g, names, n)
<1> DEFINE P == {m \in 0 .. n : \E g : Walking(g, names, m)}
<1>1. 0 \in P
  <2> DEFINE g == [k \in 0 .. 0 |-> TopPos]
  <2>1. Walking(g, names, 0)
    BY DEF Walking
  <2> QED
    BY <2>1
<1>2. ASSUME NEW m \in 0 .. n - 1, m \in P PROVE m + 1 \in P
  <2>1. PICK g : Walking(g, names, m)
    BY <1>2
  <2> DEFINE h == [k \in 0 .. m + 1 |-> IF k <= m THEN g[k] ELSE Further(g[m], names[k])]
  <2>2. \A k \in 0 .. m : g[k] = IF k = 0 THEN TopPos ELSE Further(g[k - 1], names[k])
    BY <2>1 DEF Walking
  <2>20. /\ m \in Nat /\ 0 \in 0 .. m /\ m \in 0 .. m /\ DOMAIN h = 0 .. m + 1 /\ h = [k \in 0 .. m + 1 |-> h[k]]
         /\ \A k \in 0 .. m : h[k] = g[k]
         /\ h[m + 1] = Further(g[m], names[m + 1])
    BY <1>2
  <2>3. \A k \in 0 .. m + 1 : h[k] = IF k = 0 THEN TopPos ELSE Further(h[k - 1], names[k])
    <3> SUFFICES ASSUME NEW k \in 0 .. m + 1
                 PROVE  h[k] = IF k = 0 THEN TopPos ELSE Further(h[k - 1], names[k])
      OBVIOUS
    <3> HIDE DEF h
    <3>1. CASE k = 0
      <4>1. h[0] = g[0] /\ g[0] = TopPos
        BY <2>2, <2>20
      <4> QED
        BY <3>1, <4>1
    <3>2. CASE k # 0 /\ k <= m
      <4>1. k \in 0 .. m /\ k - 1 \in 0 .. m
        BY <2>20, <3>2
      <4>2. h[k] = g[k] /\ h[k - 1] = g[k - 1]
        BY <2>20, <4>1
      <4>3. g[k] = Further(g[k - 1], names[k])
        BY <2>2, <3>2, <4>1
      <4> QED
        BY <3>2, <4>2, <4>3
    <3>3. CASE k = m + 1
      <4>1. k - 1 = m /\ k # 0
        BY <2>20, <3>3
      <4>2. h[m] = g[m]
        BY <2>20
      <4> QED
        BY <2>20, <3>3, <4>1, <4>2
    <3>4. k = 0 \/ (k # 0 /\ k <= m) \/ k = m + 1
      BY <2>20
    <3> QED
      BY <3>1, <3>2, <3>3, <3>4
  <2>4. h = [k \in 0 .. m + 1 |-> IF k = 0 THEN TopPos ELSE Further(h[k - 1], names[k])]
    <3> HIDE DEF h
    <3> QED
      BY <2>3, <2>20
  <2>5. Walking(h, names, m + 1)
    BY <2>4 DEF Walking
  <2> QED
    BY <2>5
<1> HIDE DEF P
<1>3. \A i \in 0 .. n : i \in P
  BY <1>1, <1>2, UpTo
<1> QED
  BY <1>3 DEF P

LEMMA WalkToRight ==
    ASSUME Filtered, NEW names \in Seq(PathNames)
    PROVE  PosRight(WalkTo(names), names)
<1> DEFINE n == Len(names)
           along == CHOOSE g : WalkingTo(g, names)
           P == {k \in 0 .. n : PosRight(along[k], SubSeq(names, 1, k))}
<1>1. n \in Nat /\ \A k \in 1 .. n : names[k] \in PathNames
  OBVIOUS
<1>2. WalkingTo(along, names)
  <2>1. \E g : Walking(g, names, n)
    BY <1>1, WalkingExists
  <2>2. \E g : WalkingTo(g, names)
    BY <2>1 DEF Walking, WalkingTo, Further
  <2> QED
    BY <2>2, Zenon
<1>3. WalkTo(names) = along[n]
  BY Zenon DEF WalkTo, WalkingTo
<1> HIDE DEF along
<1>4. along[0] = TopPos /\ \A k \in 1 .. n : along[k] = Further(along[k - 1], names[k])
  BY <1>1, <1>2 DEF WalkingTo, Further
<1>5. 0 \in P
  <2>1. SubSeq(names, 1, 0) = <<>> /\ 0 \in 0 .. n
    BY <1>1
  <2> QED
    BY <1>4, <2>1, TopRight
<1>6. ASSUME NEW k \in 0 .. n - 1, k \in P PROVE k + 1 \in P
  <2> DEFINE path == SubSeq(names, 1, k)
             name == names[k + 1]
             longer == SubSeq(names, 1, k + 1)
  <2>1. /\ path \in Seq(PathNames) /\ name \in PathNames /\ longer = Append(path, name)
        /\ k + 1 \in 1 .. n /\ k + 1 \in 0 .. n /\ (k + 1) - 1 = k
    BY <1>1
  <2>2. PosRight(along[k], path) /\ along[k + 1] = Further(along[k], name)
    BY <1>4, <1>6, <2>1
  <2> HIDE DEF path, name, longer
  <2>3. CASE along[k].gone
    <3>1. along[k + 1] = NoPos /\ NoPos.gone = TRUE /\ NoPos.selected = FALSE
      BY <2>2, <2>3 DEF Further, NoPos
    <3>2. Excluded(longer)
      BY <2>1, <2>2, <2>3, ExcludedChild DEF PosRight
    <3>3. PosRight(along[k + 1], longer)
      BY <3>1, <3>2 DEF PosRight
    <3> QED
      BY <2>1, <3>3 DEF longer
  <2>4. CASE ~along[k].gone
    <3>1. along[k + 1] = ChildPos(along[k], name)
      BY <2>2, <2>4 DEF Further
    <3>2. PosRight(along[k + 1], longer)
      BY <2>1, <2>2, <2>4, <3>1, ChildRight
    <3> QED
      BY <2>1, <3>2 DEF longer
  <2> QED
    BY <2>3, <2>4
<1> HIDE DEF P
<1>7. n \in P
  <2>1. \A k \in 0 .. n : k \in P
    BY <1>1, <1>5, <1>6, UpTo
  <2> QED
    BY <1>1, <2>1
<1>8. SubSeq(names, 1, n) = names
  OBVIOUS
<1> QED
  BY <1>3, <1>7, <1>8 DEF P

(* A position from which the walk does not go on leaves nothing out.       *)
LEMMA NothingLost ==
    ASSUME Filtered, NEW pos, NEW path \in Seq(PathNames), PosRight(pos, path), ~WorthWalking(pos),
           NEW longer \in Seq(PathNames), Begins(path, longer)
    PROVE  ~Chosen(longer)
<1> DEFINE n == Len(path)
           S == Said(longer)
<1>1. CASE pos.gone
  BY <1>1, ExcludedBelow DEF PosRight, Chosen
<1>2. CASE ~pos.gone
  <2>1. /\ ~Included(path) /\ StateRight(request.include, pos.include, path)
        /\ ~pos.include.mayMatchBelow
    BY <1>2 DEF PosRight, WorthWalking
  <2>2. n \in Nat /\ Len(longer) \in Nat /\ n <= Len(longer)
    BY DEF Begins
  <2>3. ASSUME NEW l \in 1 .. Len(longer), n < l
        PROVE  Decision(request.include, SubSeq(longer, 1, l)) # "yes"
    <3> DEFINE q == SubSeq(longer, 1, l)
               ps == Matching(request.include, q)
    <3>1. q \in Seq(PathNames) /\ Len(q) = l /\ \A k \in 1 .. l : q[k] = longer[k]
      BY <2>2
    <3>2. n < Len(q) /\ \A k \in 1 .. n : q[k] = path[k]
      BY <2>2, <2>3, <3>1 DEF Begins
    <3> HIDE DEF q
    <3>3. \A p \in ps : request.include[p].negated
      <4>1. path \in Seq(Seq(DOMAIN Lower)) /\ q \in Seq(Seq(DOMAIN Lower))
        BY <3>1 DEF PathNames
      <4> QED
        BY <2>1, <3>2, <4>1, NothingBelow DEF Filtered
    <3>4. ps # {} => Max(ps) \in ps
      <4>1. /\ ps \in SUBSET (0 .. Len(request.include)) /\ Len(request.include) \in Nat
        <5>1. ps \subseteq DOMAIN request.include
          BY DEF Matching
        <5>2. Len(request.include) \in Nat /\ DOMAIN request.include = 1 .. Len(request.include)
          BY ListFacts DEF Filtered
        <5> QED
          BY <5>1, <5>2
      <4> QED
        BY <4>1, Greatest
    <3>5. Decision(request.include, q) = IF ps = {} THEN "none"
                                         ELSE IF request.include[Max(ps)].negated THEN "no" ELSE "yes"
      BY DEF Decision
    <3> HIDE DEF ps
    <3>6. Decision(request.include, q) # "yes"
      BY <3>3, <3>4, <3>5
    <3> QED
      BY <3>6 DEF q
  <2>4. \A l \in 1 .. n : l \in 1 .. Len(longer) /\ SubSeq(longer, 1, l) = SubSeq(path, 1, l)
    BY BeginsParts
  <2>5. /\ Included(longer) <=> IF S = {} THEN request.include = <<>>
                                ELSE Decision(request.include, SubSeq(longer, 1, Max(S))) = "yes"
        /\ Included(path) <=> IF Said(path) = {} THEN request.include = <<>>
                              ELSE Decision(request.include, SubSeq(path, 1, Max(Said(path)))) = "yes"
    BY IncludedBy
  <2>6. S # {} => Max(S) \in S /\ \A y \in S : y <= Max(S)
    <3>1. S \in SUBSET (0 .. Len(longer))
      BY <2>2 DEF Said
    <3> QED
      BY <2>2, <3>1, Greatest
  <2>7. Said(path) # {} => Max(Said(path)) \in Said(path) /\ \A y \in Said(path) : y <= Max(Said(path))
    <3>1. Said(path) \in SUBSET (0 .. n)
      BY <2>2 DEF Said
    <3> QED
      BY <2>2, <3>1, Greatest
  <2>8. \A l \in 1 .. n : l \in S <=> l \in Said(path)
    BY <2>4 DEF Said
  <2>80. S \subseteq 1 .. Len(longer) /\ Said(path) \subseteq 1 .. n
    BY DEF Said
  <2> HIDE DEF S
  <2>9. CASE S = {}
    <3>1. Said(path) = {}
      BY <2>8, <2>9, <2>80
    <3> QED
      BY <2>1, <2>5, <2>9, <3>1 DEF Chosen
  <2>10. CASE S # {} /\ Max(S) > n
    <3>1. Max(S) \in 1 .. Len(longer) /\ n < Max(S)
      <4>1. Max(S) \in 1 .. Len(longer) /\ Max(S) > n
        BY <2>6, <2>10, <2>80
      <4> QED
        BY <2>2, <4>1
    <3> QED
      BY <2>3, <2>5, <2>10, <3>1 DEF Chosen
  <2>11. CASE S # {} /\ ~(Max(S) > n)
    <3>1. Max(S) \in 1 .. n
      <4>1. Max(S) \in 1 .. Len(longer) /\ ~(Max(S) > n)
        BY <2>6, <2>11, <2>80
      <4> QED
        BY <2>2, <4>1
    <3>2. Max(S) \in Said(path)
      BY <2>6, <2>8, <2>11, <3>1
    <3>3. Max(Said(path)) = Max(S)
      <4>1. Max(Said(path)) \in Said(path) /\ Max(S) <= Max(Said(path))
        BY <2>7, <3>2
      <4>2. Max(Said(path)) \in S
        BY <2>8, <2>80, <4>1
      <4>3. Max(Said(path)) <= Max(S)
        BY <2>6, <4>2
      <4>4. Max(Said(path)) \in 1 .. n
        BY <2>80, <4>1
      <4> QED
        BY <3>1, <4>1, <4>3, <4>4
    <3>4. SubSeq(longer, 1, Max(S)) = SubSeq(path, 1, Max(Said(path)))
      BY <2>4, <3>1, <3>3
    <3> QED
      BY <2>1, <2>5, <2>11, <3>2, <3>4 DEF Chosen
  <2> QED
    BY <2>9, <2>10, <2>11
<1> QED
  BY <1>1, <1>2 DEF PosRight

-----------------------------------------------------------------------------
(* Where roots are placed.                                                 *)

(* Sequences with the same elements are the same. *)
LEMMA SameSeq ==
    ASSUME NEW U, NEW s \in Seq(U), NEW t \in Seq(U), Len(s) = Len(t), \A k \in 1 .. Len(s) : s[k] = t[k]
    PROVE  s = t
<1>1. s = [k \in 1 .. Len(s) |-> s[k]] /\ t = [k \in 1 .. Len(t) |-> t[k]]
  OBVIOUS
<1> QED
  BY <1>1

(* All but the last, and the last. *)
LEMMA FrontAndLast ==
    ASSUME NEW U, NEW s \in Seq(U), s # <<>>
    PROVE  /\ Front(s) \in Seq(U) /\ Last(s) \in U /\ s = Append(Front(s), Last(s))
           /\ Len(Front(s)) = Len(s) - 1 /\ \A k \in 1 .. Len(s) - 1 : Front(s)[k] = s[k]
<1>1. Len(s) \in Nat \ {0}
  OBVIOUS
<1>2. /\ Len(Front(s)) = Len(s) - 1 /\ \A k \in 1 .. Len(s) - 1 : Front(s)[k] = s[k]
  BY SeqIsList, ListFront
<1>3. Front(s) \in Seq(U)
  <2>1. Front(s) = SubSeq(s, 1, Len(s) - 1)
    BY DEF Front
  <2> QED
    BY <1>1, <2>1
<1>4. Last(s) \in U /\ Last(s) = s[Len(s)]
  BY <1>1 DEF Last
<1> DEFINE f == Front(s)
           e == Last(s)
<1> HIDE DEF f, e
<1>5. /\ Append(f, e) \in Seq(U) /\ Len(Append(f, e)) = Len(f) + 1
      /\ \A k \in 1 .. Len(f) : Append(f, e)[k] = f[k]
      /\ Append(f, e)[Len(f) + 1] = e
  BY <1>3, <1>4 DEF f, e
<1>6. \A k \in 1 .. Len(s) : k \in 1 .. Len(s) - 1 \/ k = Len(s)
  BY <1>1
<1>7. Len(f) = Len(s) - 1 /\ Len(f) + 1 = Len(s) /\ \A k \in 1 .. Len(s) - 1 : f[k] = s[k]
  BY <1>1, <1>2 DEF f
<1>8. \A k \in 1 .. Len(s) : s[k] = Append(f, e)[k]
  BY <1>4, <1>5, <1>6, <1>7 DEF e
<1>9. s = Append(f, e)
  BY <1>5, <1>7, <1>8, SameSeq
<1> QED
  BY <1>2, <1>3, <1>4, <1>9 DEF f, e

(* A path that leads on from another, and what it has more. *)
LEMMA LeadsOn ==
    ASSUME NEW U, NEW s \in Seq(U), NEW at1 \in Seq(U), Len(s) < Len(at1),
           \A k \in 1 .. Len(s) : at1[k] = s[k]
    PROVE  LET rel == SubSeq(at1, Len(s) + 1, Len(at1))
           IN /\ rel \in Seq(U) /\ rel # <<>> /\ at1 # <<>>
              /\ s \o rel = at1 /\ s \o Front(rel) = Front(at1)
<1> DEFINE m == Len(s)
           n == Len(at1)
           rel == SubSeq(at1, m + 1, n)
<1>1. m \in Nat /\ n \in Nat /\ m < n
  OBVIOUS
<1>2. rel \in Seq(U) /\ Len(rel) = n - m /\ \A k \in 1 .. n - m : rel[k] = at1[m + k]
  BY <1>1
<1>3. Len(<<>>) = 0
  OBVIOUS
<1>4. rel # <<>> /\ at1 # <<>>
  <2> HIDE DEF rel
  <2> QED
    BY <1>1, <1>2, <1>3
<1> HIDE DEF rel
<1>5. s \o rel = at1
  <2>1. /\ s \o rel \in Seq(U) /\ Len(s \o rel) = m + (n - m)
        /\ \A k \in 1 .. n : (s \o rel)[k] = IF k <= m THEN s[k] ELSE rel[k - m]
    BY <1>1, <1>2
  <2>2. \A k \in 1 .. n : k <= m => k \in 1 .. m
    BY <1>1
  <2>3. \A k \in 1 .. n : ~(k <= m) => k - m \in 1 .. n - m /\ m + (k - m) = k
    BY <1>1
  <2>4. \A k \in 1 .. n : (s \o rel)[k] = at1[k]
    BY <1>2, <2>1, <2>2, <2>3
  <2>5. Len(s \o rel) = n
    BY <1>1, <2>1
  <2> QED
    BY <2>1, <2>4, <2>5, SameSeq
<1>6. s \o Front(rel) = Front(at1)
  <2> DEFINE f == Front(rel)
             h == Front(at1)
  <2>1. /\ f \in Seq(U) /\ Len(f) = n - m - 1 /\ \A k \in 1 .. n - m - 1 : f[k] = rel[k]
        /\ h \in Seq(U) /\ Len(h) = n - 1 /\ \A k \in 1 .. n - 1 : h[k] = at1[k]
    BY <1>2, <1>4, FrontAndLast
  <2> HIDE DEF f, h
  <2>2. /\ s \o f \in Seq(U) /\ Len(s \o f) = n - 1
        /\ \A k \in 1 .. n - 1 : (s \o f)[k] = IF k <= m THEN s[k] ELSE f[k - m]
    BY <1>1, <2>1
  <2>3. \A k \in 1 .. n - 1 : k <= m => k \in 1 .. m
    BY <1>1
  <2>4. \A k \in 1 .. n - 1 : ~(k <= m) => /\ k - m \in 1 .. n - m - 1 /\ k - m \in 1 .. n - m
                                           /\ m + (k - m) = k
    BY <1>1
  <2>5. ASSUME NEW k \in 1 .. n - 1 PROVE (s \o f)[k] = h[k]
    <3>1. h[k] = at1[k] /\ (s \o f)[k] = IF k <= m THEN s[k] ELSE f[k - m]
      BY <2>1, <2>2
    <3>2. CASE k <= m
      BY <2>3, <3>1, <3>2
    <3>3. CASE ~(k <= m)
      <4>1. k - m \in 1 .. n - m - 1 /\ k - m \in 1 .. n - m /\ m + (k - m) = k
        BY <2>4, <3>3
      <4>2. f[k - m] = rel[k - m] /\ rel[k - m] = at1[m + (k - m)]
        BY <1>2, <2>1, <4>1
      <4> QED
        BY <3>1, <3>3, <4>1, <4>2
    <3> QED
      BY <3>2, <3>3
  <2>6. s \o f = h
    BY <2>1, <2>2, <2>5, SameSeq
  <2> QED
    BY <2>6 DEF f, h
<1> QED
  BY <1>2, <1>4, <1>5, <1>6 DEF rel

(* One name more behind a path that is led on. *)
LEMMA OneMoreBehind ==
    ASSUME NEW U, NEW s \in Seq(U), NEW path \in Seq(U), NEW name \in U
    PROVE  s \o Append(path, name) = Append(s \o path, name) /\ s \o path \in Seq(U)
<1> DEFINE m == Len(s)
           n == Len(path)
           x == s \o Append(path, name)
           y == Append(s \o path, name)
<1>1. m \in Nat /\ n \in Nat
  OBVIOUS
<1>2. /\ Append(path, name) \in Seq(U) /\ Len(Append(path, name)) = n + 1
      /\ s \o path \in Seq(U) /\ Len(s \o path) = m + n
  OBVIOUS
<1>3. /\ x \in Seq(U) /\ Len(x) = m + (n + 1) /\ y \in Seq(U) /\ Len(y) = m + n + 1
  BY <1>1, <1>2
<1>4. \A k \in 1 .. m + n + 1 : x[k] = y[k]
  OBVIOUS
<1>5. Len(x) = Len(y) /\ \A k \in 1 .. Len(x) : x[k] = y[k]
  BY <1>1, <1>3, <1>4
<1> HIDE DEF x, y
<1>6. x = y
  BY <1>3, <1>5, SameSeq
<1> QED
  BY <1>2, <1>6 DEF x, y

(* A placement: what is to be restored there is asked for, as is a file    *)
(* root's directory.                                                       *)
PlaceRight(o) ==
    /\ o.rel \in Seq(PathNames) /\ o.tree \in DOMAIN snapshot.trees
    /\ PosRight(o.pos, request.subtree \o o.rel) /\ ~o.pos.gone
    /\ o.last # <<>> => /\ o.rel # <<>> /\ ~o.above.gone
                        /\ PosRight(o.above, request.subtree \o Front(o.rel))

LEMMA PlaceIsRight ==
    ASSUME snapshot \in Snapshots, request \in Requests,
           NEW root \in ToSet(snapshot.roots), PlaceRoot(root).kind = "here"
    PROVE  PlaceRight(PlaceRoot(root))
<1> DEFINE s == request.subtree
           above == WalkTo(Front(root.at))
           pos == ChildPos(above, Last(root.at))
           rel == SubSeq(root.at, Len(s) + 1, Len(root.at))
<1>1. /\ root.at \in Seq(PathNames) /\ s \in Seq(PathNames) /\ Filtered
      /\ root.tree \in DOMAIN snapshot.trees /\ Len(s) \in Nat /\ Len(root.at) \in Nat
  BY NamesAssumption, SnapshotsAssumption DEF Filtered
<1>2. /\ \A r, p, a1, l, t : /\ Here(r, p, a1, l, t).tree = t /\ Here(r, p, a1, l, t).rel = r
                            /\ Here(r, p, a1, l, t).pos = p /\ Here(r, p, a1, l, t).above = a1
                            /\ Here(r, p, a1, l, t).last = l
      /\ \A kind : Outcome(kind).kind = kind
  BY DEF Here, Outcome
<1>3. \A p : WorthWalking(p) => ~p.gone
  BY DEF WorthWalking
<1>30. ASSUME NEW r \in Seq(PathNames), NEW p, NEW a1, NEW l, NEW t \in DOMAIN snapshot.trees,
              PosRight(p, s \o r), ~p.gone,
              l # <<>> => r # <<>> /\ ~a1.gone /\ PosRight(a1, s \o Front(r))
       PROVE  PlaceRight(Here(r, p, a1, l, t))
  <2> DEFINE o == Here(r, p, a1, l, t)
  <2>1. o.tree = t /\ o.rel = r /\ o.pos = p /\ o.above = a1 /\ o.last = l
    BY <1>2
  <2> HIDE DEF o
  <2>2. PlaceRight(o)
    BY <1>30, <2>1 DEF PlaceRight
  <2> QED
    BY <2>2 DEF o
<1>4. ASSUME PlaceInside(root).kind = "here" PROVE PlaceRight(PlaceInside(root))
  <2>1. PICK t \in DOMAIN snapshot.trees :
           /\ PlaceInside(root) = Here(<<>>, WalkTo(s), NoPos, <<>>, t)
           /\ WorthWalking(WalkTo(s))
    BY <1>4, InsideHere
  <2>2. PosRight(WalkTo(s), s) /\ ~WalkTo(s).gone
    BY <1>1, <1>3, <2>1, WalkToRight
  <2>3. s \o <<>> = s /\ <<>> \in Seq(PathNames)
    BY <1>1
  <2>4. PlaceRight(Here(<<>>, WalkTo(s), NoPos, <<>>, t))
    BY <1>30, <2>2, <2>3
  <2> QED
    BY <2>1, <2>4
<1>5. ASSUME Len(s) < Len(root.at), \A k \in 1 .. Len(s) : root.at[k] = s[k],
             ~above.gone, WorthWalking(pos)
      PROVE  PlaceRight(Here(rel, pos, above, Last(root.at), root.tree))
  <2>1. /\ rel \in Seq(PathNames) /\ rel # <<>> /\ root.at # <<>>
        /\ s \o rel = root.at /\ s \o Front(rel) = Front(root.at)
    <3>1. ASSUME NEW a1 \in Seq(PathNames), NEW b1 \in Seq(PathNames), Len(a1) < Len(b1),
                 \A k \in 1 .. Len(a1) : b1[k] = a1[k]
          PROVE  LET r == SubSeq(b1, Len(a1) + 1, Len(b1))
                 IN /\ r \in Seq(PathNames) /\ r # <<>> /\ b1 # <<>>
                    /\ a1 \o r = b1 /\ a1 \o Front(r) = Front(b1)
      BY <3>1, LeadsOn
    <3> QED
      BY <1>1, <1>5, <3>1
  <2>2. /\ Front(root.at) \in Seq(PathNames) /\ Last(root.at) \in PathNames
        /\ root.at = Append(Front(root.at), Last(root.at))
    BY <1>1, <2>1, FrontAndLast
  <2>3. PosRight(above, Front(root.at))
    BY <1>1, <2>2, WalkToRight
  <2>4. PosRight(pos, Append(Front(root.at), Last(root.at)))
    BY <1>1, <1>5, <2>2, <2>3, ChildRight
  <2>5. PosRight(pos, root.at)
    BY <2>2, <2>4
  <2> HIDE DEF rel, pos, above
  <2> QED
    BY <1>1, <1>3, <1>5, <1>30, <2>1, <2>3, <2>5
<1>6. \/ PlaceRoot(root) = Outcome("elsewhere") \/ PlaceRoot(root) = Outcome("pruned")
      \/ PlaceRoot(root) = PlaceInside(root)
      \/ /\ ~(Len(s) >= Len(root.at)) /\ ~above.gone /\ WorthWalking(pos)
         /\ \A k \in 1 .. Min({Len(root.at), Len(s)}) : root.at[k] = s[k]
         /\ PlaceRoot(root) = Here(rel, pos, above, Last(root.at), root.tree)
  BY Zenon DEF PlaceRoot
<1> HIDE DEF rel, pos, above
<1>7. ~(Len(s) >= Len(root.at)) => Len(s) < Len(root.at) /\ Min({Len(root.at), Len(s)}) = Len(s)
  <2>1. \A x, y \in Nat : x < y => Min({y, x}) = x
    BY Lesser
  <2>2. ~(Len(s) >= Len(root.at)) => Len(s) < Len(root.at)
    BY <1>1
  <2> QED
    BY <1>1, <2>1, <2>2
<1> QED
  BY <1>2, <1>4, <1>5, <1>6, <1>7

(* Where the entries of a placement go. *)
LEMMA OpenedRight ==
    ASSUME NEW o, PlaceRight(o), request.subtree \in Seq(PathNames)
    PROVE  /\ Opened(o).rel \in Seq(PathNames) /\ ~Opened(o).pos.gone
           /\ PosRight(Opened(o).pos, request.subtree \o Opened(o).rel)
<1> DEFINE file == o.last # <<>> /\ IsFileRoot(o.last, Entries(o.tree))
<1>1. CASE file
  <2>1. Opened(o).rel = Front(o.rel) /\ Opened(o).pos = o.above
    BY <1>1 DEF Opened
  <2>2. o.rel \in Seq(PathNames) /\ o.rel # <<>>
    BY <1>1 DEF PlaceRight
  <2>3. Front(o.rel) \in Seq(PathNames)
    BY <2>2, FrontAndLast
  <2> QED
    BY <1>1, <2>1, <2>3 DEF PlaceRight
<1>2. CASE ~file
  <2>1. Opened(o).rel = o.rel /\ Opened(o).pos = o.pos
    BY <1>2 DEF Opened
  <2> QED
    BY <2>1 DEF PlaceRight
<1> QED
  BY <1>1, <1>2

PlacesRight(ps) == IsList(ps) /\ \A o \in ToSet(ps) : PlaceRight(o)

LEMMA PlacedRight ==
    ASSUME snapshot \in Snapshots, request \in Requests
    PROVE  PlacesRight(Placed)
<1>1. Placed \in Seq(Placements)
  BY PlacedAre
<1>2. IsList(Placed)
  BY <1>1, SeqIsList
<1>3. \A o \in ToSet(Placed) : o \in Placements
  BY <1>1 DEF ToSet
<1>4. \A o \in Placements : PlaceRight(o)
  BY PlaceIsRight DEF Placements
<1> QED
  BY <1>2, <1>3, <1>4 DEF PlacesRight

-----------------------------------------------------------------------------
(* The inductive invariant of what is selected.                            *)

(* Entries as the snapshot has them. *)
NamesOf(todo) ==
    /\ IsList(todo)
    /\ \A e \in ToSet(todo) : e.name \in PathNames /\ (e.kind = "dir" => e.sub \in DOMAIN snapshot.trees)

(* A level is never that of an excluded directory, and it knows where its *)
(* path stands.                                                            *)
WalkedLevel(l) ==
    /\ l.path \in Seq(PathNames) /\ NamesOf(l.todo)
    /\ PosRight(l.pos, request.subtree \o l.path) /\ ~l.pos.gone
Walked(levels) == IsList(levels) /\ \A k \in DOMAIN levels : WalkedLevel(levels[k])

(* What the dry run keeps of a level. *)
IsPlanLevel(l) ==
    l = [path |-> l.path, pos |-> l.pos, isDir |-> l.isDir, created |-> l.created, todo |-> l.todo]
PlanLevels(levels) == \A k \in DOMAIN levels : IsPlanLevel(levels[k])

IsSummary(s) ==
    s = [files |-> s.files, dirs |-> s.dirs, symlinks |-> s.symlinks, nodes |-> s.nodes,
         errors |-> s.errors, unmatched |-> s.unmatched]

NodesRight(nodes) ==
    \A n \in nodes : ~Excluded(request.subtree \o n[1]) /\ (n[2] # "dir" => Included(request.subtree \o n[1]))

MadeRight(modes) ==
    \A p \in DOMAIN modes : p \in DOMAIN world.before \/ ~Excluded(request.subtree \o p)

SelectionRight ==
    /\ PlacesRight(placed) /\ PlacesRight(places)
    /\ Walked(stack)
    /\ phase \in {"place", "plan"} => PlanLevels(stack)
    /\ IsSummary(summary) /\ NodesRight(summary.nodes) /\ NodesRight(planned.nodes)
    /\ MadeRight(mode)

(* The next state of it. *)
LEMMA SelectionOn ==
    ASSUME UNCHANGED <<snapshot, request, world>>,
           PlacesRight(placed'), PlacesRight(places'), Walked(stack'),
           phase' \in {"place", "plan"} => PlanLevels(stack'),
           IsSummary(summary'), NodesRight(summary'.nodes), NodesRight(planned'.nodes),
           MadeRight(mode')
    PROVE  SelectionRight'
<1>1. PlacesRight(placed)' /\ PlacesRight(places)'
  <2>1. \A path : (Excluded(path)' <=> Excluded(path)) /\ (Included(path)' <=> Included(path))
    BY DEF Excluded, Included
  <2>2. \A pos, path : PosRight(pos, path)' <=> PosRight(pos, path)
    BY <2>1 DEF PosRight
  <2>3. \A o : PlaceRight(o)' <=> PlaceRight(o)
    BY <2>2 DEF PlaceRight
  <2> QED
    BY <2>3 DEF PlacesRight
<1>2. Walked(stack)'
  BY DEF Walked, WalkedLevel, NamesOf, PosRight, Excluded, Included
<1>3. (phase \in {"place", "plan"} => PlanLevels(stack))' /\ IsSummary(summary)'
  BY DEF PlanLevels, IsPlanLevel, IsSummary
<1>4. NodesRight(summary.nodes)' /\ NodesRight(planned.nodes)' /\ MadeRight(mode)'
  BY DEF NodesRight, MadeRight, Excluded, Included
<1> QED
  BY <1>1, <1>2, <1>3, <1>4 DEF SelectionRight

(* What a summary is after an error, a node, directories and their counts. *)
LEMMA SummaryFacts ==
    ASSUME NEW s, IsSummary(s)
    PROVE  /\ \A path : IsSummary(Fail(s, path)) /\ Fail(s, path).nodes = s.nodes
           /\ \A path, kind : /\ IsSummary(Count(s, path, kind))
                              /\ Count(s, path, kind).nodes = s.nodes \cup {<<path, kind>>}
           /\ \A levels : /\ IsSummary(Report(s, levels))
                          /\ Report(s, levels).nodes = s.nodes \cup Reported(levels)
           /\ IsSummary([s EXCEPT !.dirs = @ + 1]) /\ [s EXCEPT !.dirs = @ + 1].nodes = s.nodes
           /\ \A x : IsSummary([s EXCEPT !.unmatched = x]) /\ [s EXCEPT !.unmatched = x].nodes = s.nodes
<1>1. PICK f, d, y, n, e, u : s = [files |-> f, dirs |-> d, symlinks |-> y, nodes |-> n,
                                   errors |-> e, unmatched |-> u]
  BY DEF IsSummary
<1>2. ASSUME NEW path PROVE IsSummary(Fail(s, path)) /\ Fail(s, path).nodes = s.nodes
  <2>1. Fail(s, path) = [files |-> f, dirs |-> d, symlinks |-> y, nodes |-> n,
                         errors |-> e \cup {path}, unmatched |-> u]
    BY <1>1 DEF Fail
  <2> QED
    BY <1>1, <2>1 DEF IsSummary
<1>3. ASSUME NEW path, NEW kind
      PROVE  /\ IsSummary(Count(s, path, kind))
             /\ Count(s, path, kind).nodes = s.nodes \cup {<<path, kind>>}
  <2> DEFINE f1 == IF kind = "file" THEN f + 1 ELSE f
             y1 == IF kind = "symlink" THEN y + 1 ELSE y
             n1 == n \cup {<<path, kind>>}
  <2>1. Count(s, path, kind) = [[[s EXCEPT !.files = f1] EXCEPT !.symlinks = y1] EXCEPT !.nodes = n1]
    BY <1>1 DEF Count
  <2> HIDE DEF f1, y1, n1
  <2>2. [s EXCEPT !.files = f1] = [files |-> f1, dirs |-> d, symlinks |-> y, nodes |-> n,
                                   errors |-> e, unmatched |-> u]
    BY <1>1
  <2>3. [[files |-> f1, dirs |-> d, symlinks |-> y, nodes |-> n, errors |-> e, unmatched |-> u]
           EXCEPT !.symlinks = y1]
          = [files |-> f1, dirs |-> d, symlinks |-> y1, nodes |-> n, errors |-> e, unmatched |-> u]
    OBVIOUS
  <2>4. [[files |-> f1, dirs |-> d, symlinks |-> y1, nodes |-> n, errors |-> e, unmatched |-> u]
           EXCEPT !.nodes = n1]
          = [files |-> f1, dirs |-> d, symlinks |-> y1, nodes |-> n1, errors |-> e, unmatched |-> u]
    OBVIOUS
  <2>5. Count(s, path, kind) = [files |-> f1, dirs |-> d, symlinks |-> y1, nodes |-> n1,
                                errors |-> e, unmatched |-> u]
    BY <2>1, <2>2, <2>3, <2>4
  <2> QED
    BY <1>1, <2>5 DEF IsSummary, n1
<1>4. ASSUME NEW levels
      PROVE  IsSummary(Report(s, levels)) /\ Report(s, levels).nodes = s.nodes \cup Reported(levels)
  <2>1. Report(s, levels) = [files |-> f, dirs |-> d, symlinks |-> y, nodes |-> n \cup Reported(levels),
                             errors |-> e, unmatched |-> u]
    BY <1>1 DEF Report
  <2> QED
    BY <1>1, <2>1 DEF IsSummary
<1>5. IsSummary([s EXCEPT !.dirs = @ + 1]) /\ [s EXCEPT !.dirs = @ + 1].nodes = s.nodes
  <2>1. [s EXCEPT !.dirs = @ + 1] = [files |-> f, dirs |-> d + 1, symlinks |-> y, nodes |-> n,
                                     errors |-> e, unmatched |-> u]
    BY <1>1
  <2> QED
    BY <1>1, <2>1 DEF IsSummary
<1>6. ASSUME NEW x
      PROVE  IsSummary([s EXCEPT !.unmatched = x]) /\ [s EXCEPT !.unmatched = x].nodes = s.nodes
  <2>1. [s EXCEPT !.unmatched = x] = [files |-> f, dirs |-> d, symlinks |-> y, nodes |-> n,
                                      errors |-> e, unmatched |-> x]
    BY <1>1
  <2> QED
    BY <1>1, <2>1 DEF IsSummary
<1> QED
  BY <1>2, <1>3, <1>4, <1>5, <1>6

(* Entries that a walk comes to are those of the snapshot. *)
LEMMA NamesFacts ==
    ASSUME snapshot \in Snapshots
    PROVE  NamesOf(<<>>) /\ \A t \in DOMAIN snapshot.trees : NamesOf(Entries(t))
<1>1. NamesOf(<<>>)
  <2>1. \A e \in ToSet(<<>>) : FALSE
    BY DEF ToSet
  <2> QED
    BY <2>1, NoLevels DEF NamesOf
<1>2. \A t \in DOMAIN snapshot.trees : NamesOf(Entries(t))
  BY SnapshotsAssumption, NamesAssumption DEF NamesOf, Entries
<1> QED
  BY <1>1, <1>2

(* One name further down. *)
LEMMA NextRight ==
    ASSUME Chosen3, Walked(stack), stack # <<>>, Top.todo # <<>>
    PROVE  /\ NextPath \in Seq(PathNames)
           /\ PosRight(NextPos, request.subtree \o NextPath)
           /\ NextEntry.kind = "dir" => NextEntry.sub \in DOMAIN snapshot.trees
           /\ NamesOf(Tail(Top.todo)) /\ WalkedLevel(Top)
           /\ Len(stack) \in Nat \ {0} /\ DOMAIN stack = 1 .. Len(stack)
           /\ request.subtree \in Seq(PathNames)
<1>1. Len(stack) \in Nat \ {0} /\ DOMAIN stack = 1 .. Len(stack)
  <2>1. stack \in Seq(ToSet(stack))
    BY DEF Walked, IsList
  <2> QED
    BY <2>1
<1>2. WalkedLevel(Top)
  BY <1>1 DEF Walked, Top
<1>3. /\ IsList(Tail(Top.todo)) /\ ToSet(Tail(Top.todo)) \subseteq ToSet(Top.todo)
      /\ NextEntry \in ToSet(Top.todo)
  BY <1>2, ListTail DEF WalkedLevel, NamesOf, NextEntry
<1>4. NamesOf(Tail(Top.todo)) /\ NextEntry.name \in PathNames
  BY <1>2, <1>3 DEF WalkedLevel, NamesOf
<1>5. request.subtree \in Seq(PathNames) /\ Filtered
  BY NamesAssumption DEF Chosen3, Filtered
<1>6. Top.path \in Seq(PathNames) /\ PosRight(Top.pos, request.subtree \o Top.path) /\ ~Top.pos.gone
  BY <1>2 DEF WalkedLevel
<1>7. /\ request.subtree \o NextPath = Append(request.subtree \o Top.path, NextEntry.name)
      /\ request.subtree \o Top.path \in Seq(PathNames)
  BY <1>4, <1>5, <1>6, OneMoreBehind DEF NextPath
<1>8. PosRight(NextPos, Append(request.subtree \o Top.path, NextEntry.name))
  BY <1>4, <1>5, <1>6, <1>7, ChildRight DEF NextPos
<1>9. NextPath \in Seq(PathNames)
  BY <1>4, <1>6 DEF NextPath
<1> QED
  BY <1>1, <1>2, <1>3, <1>4, <1>5, <1>7, <1>8, <1>9 DEF WalkedLevel, NamesOf

(* A node that is visited is none that is excluded, and what is not a      *)
(* directory is included.                                                  *)
LEMMA VisitedRight ==
    ASSUME Chosen3, Walked(stack), stack # <<>>, Top.todo # <<>>, Visited(NextEntry, NextPos)
    PROVE  /\ ~NextPos.gone /\ ~Excluded(request.subtree \o NextPath)
           /\ NextEntry.kind # "dir" => Included(request.subtree \o NextPath)
  BY NextRight DEF Visited, PosRight

(* The levels when the next entry is taken. *)
LEMMA WalkedOn ==
    ASSUME Chosen3, Walked(stack), stack # <<>>, Top.todo # <<>>, NEW next,
           next.path = Top.path, next.pos = Top.pos, next.todo = Tail(Top.todo),
           Advanced = [stack EXCEPT ![Len(stack)] = next]
    PROVE  /\ Walked(Advanced) /\ DOMAIN Advanced = DOMAIN stack
           /\ Advanced[Len(stack)] = next
           /\ \A k \in DOMAIN stack : k # Len(stack) => Advanced[k] = stack[k]
<1>1. /\ Len(stack) \in Nat \ {0} /\ DOMAIN stack = 1 .. Len(stack)
      /\ NamesOf(Tail(Top.todo)) /\ WalkedLevel(Top)
  BY NextRight
<1>2. WalkedLevel(next)
  BY <1>1 DEF WalkedLevel
<1>3. IsList(Advanced)
  BY ListExcept DEF Walked
<1>4. /\ DOMAIN Advanced = DOMAIN stack /\ Advanced[Len(stack)] = next
      /\ \A k \in DOMAIN stack : k # Len(stack) => Advanced[k] = stack[k]
  BY <1>1
<1>5. Walked(Advanced)
  BY <1>2, <1>3, <1>4 DEF Walked
<1> QED
  BY <1>4, <1>5

(* Levels of which the same holds. *)
LEMMA WalkedSame ==
    ASSUME NEW levels, NEW next, Walked(levels), IsList(next), DOMAIN next = DOMAIN levels,
           \A k \in DOMAIN levels : /\ next[k].path = levels[k].path /\ next[k].todo = levels[k].todo
                                    /\ next[k].pos = levels[k].pos
    PROVE  Walked(next)
  BY DEF Walked, WalkedLevel

(* One level, one more, and one less. *)
LEMMA WalkedOne ==
    ASSUME NEW l, WalkedLevel(l)
    PROVE  Walked(<<l>>) /\ DOMAIN <<l>> = {1} /\ <<l>>[1] = l
<1>1. <<l>> \in Seq({l}) /\ DOMAIN <<l>> = {1} /\ <<l>>[1] = l
  OBVIOUS
<1>2. IsList(<<l>>)
  BY <1>1, SeqIsList
<1> QED
  BY <1>1, <1>2 DEF Walked

LEMMA WalkedMore ==
    ASSUME NEW levels, Walked(levels), NEW l, WalkedLevel(l)
    PROVE  /\ Walked(Append(levels, l)) /\ Append(levels, l) # <<>>
           /\ \A k \in DOMAIN Append(levels, l) :
                 Append(levels, l)[k] = l \/ (k \in DOMAIN levels /\ Append(levels, l)[k] = levels[k])
<1> DEFINE more == Append(levels, l)
           n == Len(levels)
<1>1. IsList(levels)
  BY DEF Walked
<1>2. /\ IsList(more) /\ Len(more) = n + 1 /\ more[n + 1] = l
      /\ \A k \in 1 .. n : more[k] = levels[k]
      /\ n \in Nat /\ DOMAIN levels = 1 .. n
  BY <1>1, ListAppend, ListFacts
<1> HIDE DEF more, n
<1>3. DOMAIN more = 1 .. n + 1
  BY <1>2, ListFacts
<1>4. \A k \in DOMAIN more : k = n + 1 \/ k \in DOMAIN levels
  BY <1>2, <1>3
<1>5. Walked(more)
  BY <1>2, <1>4 DEF Walked
<1>6. more # <<>>
  <2>1. Len(<<>>) = 0
    OBVIOUS
  <2> QED
    BY <1>2, <2>1
<1>7. \A k \in DOMAIN more : more[k] = l \/ (k \in DOMAIN levels /\ more[k] = levels[k])
  BY <1>2, <1>4
<1> QED
  BY <1>5, <1>6, <1>7 DEF more

LEMMA WalkedLess ==
    ASSUME NEW levels, Walked(levels), levels # <<>>
    PROVE  /\ Walked(Front(levels))
           /\ \A k \in DOMAIN Front(levels) : k \in DOMAIN levels /\ Front(levels)[k] = levels[k]
<1>1. IsList(levels)
  BY DEF Walked
<1>2. /\ IsList(Front(levels)) /\ Len(Front(levels)) = Len(levels) - 1
      /\ \A k \in 1 .. Len(levels) - 1 : Front(levels)[k] = levels[k]
      /\ Len(levels) \in Nat /\ DOMAIN levels = 1 .. Len(levels)
  BY <1>1, ListFront, ListFacts
<1>3. DOMAIN Front(levels) = 1 .. Len(levels) - 1
  BY <1>2, ListFacts
<1>4. \A k \in DOMAIN Front(levels) : k \in DOMAIN levels /\ Front(levels)[k] = levels[k]
  BY <1>2, <1>3
<1> QED
  BY <1>2, <1>4 DEF Walked

(* The directories that the dry run reports. *)
LEMMA ReportedRight ==
    ASSUME NEW levels, Walked(levels)
    PROVE  NodesRight(Reported(levels))
<1> SUFFICES ASSUME NEW n \in Reported(levels)
             PROVE  ~Excluded(request.subtree \o n[1]) /\ n[2] = "dir"
  BY DEF NodesRight
<1>1. PICK k \in DOMAIN levels : n = <<levels[k].path, "dir">>
  BY DEF Reported
<1>2. n[1] = levels[k].path /\ n[2] = "dir"
  BY <1>1
<1>3. ~Excluded(request.subtree \o levels[k].path)
  BY DEF Walked, WalkedLevel, PosRight
<1> QED
  BY <1>2, <1>3

LEMMA NodesJoin ==
    ASSUME NEW nodes, NEW more, NodesRight(nodes), NodesRight(more)
    PROVE  NodesRight(nodes \cup more)
  BY DEF NodesRight

(* The levels of the dry run when they are made. *)
LEMMA PlanOpened ==
    ASSUME NEW levels, Walked(levels), PlanLevels(levels)
    PROVE  Walked(PlanOpen(levels)) /\ PlanLevels(PlanOpen(levels)) /\ DOMAIN PlanOpen(levels) = DOMAIN levels
<1> DEFINE next == PlanOpen(levels)
<1>1. DOMAIN next = DOMAIN levels
  BY DEF PlanOpen
<1>2. ASSUME NEW k \in DOMAIN levels
      PROVE  /\ next[k].path = levels[k].path /\ next[k].todo = levels[k].todo
             /\ next[k].pos = levels[k].pos /\ IsPlanLevel(next[k])
  <2>1. PICK p, o, i, c, t : levels[k] = [path |-> p, pos |-> o, isDir |-> i, created |-> c, todo |-> t]
    BY DEF PlanLevels, IsPlanLevel
  <2>2. next[k] = [levels[k] EXCEPT !.created = TRUE]
    BY DEF PlanOpen
  <2> HIDE DEF next
  <2>3. next[k] = [path |-> p, pos |-> o, isDir |-> i, created |-> TRUE, todo |-> t]
    <3>1. \A x : [[path |-> p, pos |-> o, isDir |-> i, created |-> c, todo |-> t] EXCEPT !.created = x]
                  = [path |-> p, pos |-> o, isDir |-> i, created |-> x, todo |-> t]
      OBVIOUS
    <3> QED
      BY <2>1, <2>2, <3>1
  <2> QED
    BY <2>1, <2>3 DEF IsPlanLevel
<1>3. IsList(next)
  <2>1. Len(levels) \in Nat /\ DOMAIN levels = 1 .. Len(levels)
    BY ListFacts DEF Walked
  <2>2. next \in Seq({next[k] : k \in DOMAIN levels})
    <3> HIDE DEF next
    <3>1. next = [k \in 1 .. Len(levels) |-> next[k]]
      <4>1. next = [k \in DOMAIN levels |-> [levels[k] EXCEPT !.created = TRUE]]
        BY DEF next, PlanOpen
      <4> QED
        BY <1>1, <2>1, <4>1
    <3> QED
      BY <2>1, <3>1
  <2> QED
    BY <2>2, SeqIsList
<1> HIDE DEF next
<1>4. Walked(next)
  BY <1>1, <1>2, <1>3, WalkedSame
<1>5. PlanLevels(next)
  BY <1>1, <1>2 DEF PlanLevels
<1> QED
  BY <1>1, <1>4, <1>5 DEF next

(* The levels of the dry run when the next entry is taken. *)
LEMMA PlanAdvanced ==
    ASSUME Chosen3, Walked(stack), PlanLevels(stack), stack # <<>>, Top.todo # <<>>
    PROVE  Walked(Advanced) /\ PlanLevels(Advanced)
<1> DEFINE n == Len(stack)
           next == [stack[n] EXCEPT !.todo = Tail(stack[n].todo)]
<1>1. n \in DOMAIN stack
  BY NextRight
<1>2. PICK p, o, i, c, t : stack[n] = [path |-> p, pos |-> o, isDir |-> i, created |-> c, todo |-> t]
  BY <1>1 DEF PlanLevels, IsPlanLevel
<1>3. next = [path |-> p, pos |-> o, isDir |-> i, created |-> c, todo |-> Tail(t)]
  <2>1. \A x : [[path |-> p, pos |-> o, isDir |-> i, created |-> c, todo |-> t] EXCEPT !.todo = x]
              = [path |-> p, pos |-> o, isDir |-> i, created |-> c, todo |-> x]
    OBVIOUS
  <2>2. stack[n].todo = t
    BY <1>2
  <2> QED
    BY <1>2, <2>1, <2>2
<1>4. Advanced = [stack EXCEPT ![n] = next]
  BY DEF Advanced
<1>5. /\ next.path = Top.path /\ next.pos = Top.pos /\ next.todo = Tail(Top.todo) /\ IsPlanLevel(next)
  <2> HIDE DEF next
  <2> QED
    BY <1>2, <1>3 DEF Top, IsPlanLevel
<1> HIDE DEF next
<1>6. /\ Walked(Advanced) /\ DOMAIN Advanced = DOMAIN stack /\ Advanced[n] = next
      /\ \A k \in DOMAIN stack : k # n => Advanced[k] = stack[k]
  BY <1>4, <1>5, WalkedOn
<1>7. PlanLevels(Advanced)
  BY <1>5, <1>6 DEF PlanLevels
<1> QED
  BY <1>6, <1>7

(* The levels of the restore when the next entry is taken. *)
LEMMA RestoreAdvanced ==
    ASSUME Chosen3, Walked(stack), Levels(stack), stack # <<>>, Top.todo # <<>>
    PROVE  Walked(Advanced)
<1> DEFINE n == Len(stack)
           next == [stack[n] EXCEPT !.todo = Tail(stack[n].todo)]
<1>1. IsLevel(stack[n])
  BY NextRight DEF Levels
<1>2. next = [path |-> stack[n].path, todo |-> Tail(stack[n].todo), pos |-> stack[n].pos,
              isDir |-> stack[n].isDir, recorded |-> stack[n].recorded, handle |-> stack[n].handle,
              prepared |-> stack[n].prepared, loosened |-> stack[n].loosened,
              createFailed |-> stack[n].createFailed]
  BY <1>1, ExceptTodo, Zenon
<1>3. Advanced = [stack EXCEPT ![n] = next]
  BY DEF Advanced
<1> HIDE DEF next
<1>4. next.path = Top.path /\ next.pos = Top.pos /\ next.todo = Tail(Top.todo)
  BY <1>2 DEF Top
<1> QED
  BY <1>3, <1>4, WalkedOn

(* What has been made leads to where the walk is. *)
LEMMA MadeOnly ==
    ASSUME request.subtree \in Seq(PathNames), NEW levels, Walked(levels),
           NEW modes, NEW next, MadeRight(modes), Made(levels, modes, next)
    PROVE  MadeRight(next)
<1> DEFINE s == request.subtree
<1> SUFFICES ASSUME NEW p \in DOMAIN next, p \notin DOMAIN modes
             PROVE  ~Excluded(s \o p)
  BY DEF MadeRight
<1>1. PICK k \in DOMAIN levels : p \in Prefixes(levels[k].path)
  BY DEF Made
<1> DEFINE path == levels[k].path
<1>2. path \in Seq(PathNames) /\ ~Excluded(s \o path)
  BY DEF Walked, WalkedLevel, PosRight
<1>3. PICK l \in 0 .. Len(path) : p = SubSeq(path, 1, l)
  BY <1>1 DEF Prefixes
<1> HIDE DEF path
<1>4. /\ p \in Seq(PathNames) /\ Len(p) = l /\ \A i \in 1 .. l : p[i] = path[i]
      /\ l \in Nat /\ Len(path) \in Nat /\ l <= Len(path)
  BY <1>2, <1>3
<1> HIDE DEF s
<1>5. s \in Seq(PathNames) /\ Len(s) \in Nat
  BY DEF s
<1>6. /\ s \o p \in Seq(PathNames) /\ Len(s \o p) = Len(s) + l
      /\ s \o path \in Seq(PathNames) /\ Len(s \o path) = Len(s) + Len(path)
      /\ \A i \in 1 .. Len(s) + l : (s \o p)[i] = IF i <= Len(s) THEN s[i] ELSE p[i - Len(s)]
      /\ \A i \in 1 .. Len(s) + Len(path) :
            (s \o path)[i] = IF i <= Len(s) THEN s[i] ELSE path[i - Len(s)]
  BY <1>2, <1>4, <1>5
<1>7. Begins(s \o p, s \o path)
  <2>1. \A i \in 1 .. Len(s) + l :
           i \in 1 .. Len(s) + Len(path) /\ (~(i <= Len(s)) => i - Len(s) \in 1 .. l)
    BY <1>4, <1>5
  <2>2. \A i \in 1 .. Len(s) + l : (s \o path)[i] = (s \o p)[i]
    BY <1>4, <1>6, <2>1
  <2>3. Len(s \o p) <= Len(s \o path)
    BY <1>4, <1>5, <1>6
  <2> QED
    BY <1>6, <2>2, <2>3 DEF Begins
<1>8. ~Excluded(s \o p)
  BY <1>2, <1>6, <1>7, ExcludedBelow
<1> QED
  BY <1>8

(* What ensuring leaves. *)
LEMMA EnsureRight ==
    ASSUME request.subtree \in Seq(PathNames), NEW levels, NEW modes, NEW w \in BOOLEAN,
           Levels(levels), Chained(levels), Held(levels, modes), Walked(levels), MadeRight(modes)
    PROVE  /\ Walked(Ensure(levels, modes, w).levels) /\ MadeRight(Ensure(levels, modes, w).modes)
           /\ DOMAIN Ensure(levels, modes, w).levels = DOMAIN levels
<1> DEFINE a == Ensure(levels, modes, w)
<1>1. After(levels, a, Len(levels)) /\ Made(levels, modes, a.modes)
  BY EnsureHolds
<1> HIDE DEF a
<1>2. Levels(a.levels) /\ SameLevels(levels, a.levels)
  BY <1>1 DEF After
<1>3. Walked(a.levels) /\ DOMAIN a.levels = DOMAIN levels
  BY <1>2, WalkedSame DEF Levels, SameLevels
<1>4. MadeRight(a.modes)
  BY <1>1, MadeOnly
<1> QED
  BY <1>3, <1>4 DEF a

-----------------------------------------------------------------------------
(* The steps of the walks.                                                 *)

LEMMA InitRight == WalkInit => SelectionRight
<1> SUFFICES ASSUME WalkInit PROVE SelectionRight
  OBVIOUS
<1>1. /\ \A o \in ToSet(<<>>) : FALSE
      /\ \A k \in DOMAIN <<>> : FALSE
      /\ IsList(<<>>)
  BY NoLevels DEF ToSet
<1>2. placed = <<>> /\ places = <<>> /\ stack = <<>> /\ summary = NoSummary /\ planned = NoSummary
      /\ mode = world.before
  BY DEF WalkInit
<1>3. IsSummary(NoSummary) /\ NodesRight(NoSummary.nodes)
  BY DEF IsSummary, NoSummary, NodesRight
<1> QED
  BY <1>1, <1>2, <1>3 DEF SelectionRight, PlacesRight, Walked, PlanLevels, MadeRight

(* The placements that are left. *)
LEMMA PlacesLeft ==
    ASSUME PlacesRight(places), places # <<>>
    PROVE  PlacesRight(Tail(places)) /\ PlaceRight(Head(places))
  BY ListTail DEF PlacesRight

(* A placement is entered. *)
LEMMA PlaceEntered ==
    ASSUME Chosen3, NEW o, PlaceRight(o), NEW l,
           l.path = Opened(o).rel, l.todo = Entries(o.tree), l.pos = Opened(o).pos
    PROVE  Walked(<<l>>) /\ DOMAIN <<l>> = {1} /\ <<l>>[1] = l
<1>1. request.subtree \in Seq(PathNames)
  BY NamesAssumption DEF Chosen3
<1>2. /\ Opened(o).rel \in Seq(PathNames) /\ ~Opened(o).pos.gone
      /\ PosRight(Opened(o).pos, request.subtree \o Opened(o).rel)
  BY <1>1, OpenedRight
<1>3. NamesOf(Entries(o.tree))
  BY NamesFacts DEF Chosen3, PlaceRight
<1>4. WalkedLevel(l)
  BY <1>2, <1>3 DEF WalkedLevel
<1> QED
  BY <1>4, WalkedOne

LEMMA PlaceKeeps ==
    ASSUME WalkKept, SelectionRight, Place
    PROVE  SelectionRight'
<1>1. /\ placed' = Placed /\ places' = Placed /\ stack' = stack /\ summary' = summary
      /\ planned' = planned /\ mode' = mode /\ phase = "place"
      /\ UNCHANGED <<snapshot, request, world>>
  BY DEF Place
<1>2. PlacesRight(Placed)
  BY PlacedRight DEF WalkKept, Chosen3
<1> QED
  BY <1>1, <1>2, SelectionOn DEF SelectionRight

LEMMA PlanPlaceKeeps ==
    ASSUME WalkKept, SelectionRight, PlanPlace
    PROVE  SelectionRight'
<1> DEFINE place == Head(places)
           to == Opened(place)
           level == [path |-> to.rel, todo |-> Entries(place.tree), pos |-> to.pos,
                     isDir |-> FALSE, created |-> to.pos.selected]
<1>1. /\ places' = Tail(places) /\ places # <<>> /\ summary' = summary /\ planned' = planned
      /\ mode' = mode /\ placed' = placed /\ phase = "plan"
      /\ UNCHANGED <<snapshot, request, world>>
      /\ stack' = <<level>> \/ stack' = stack
  BY DEF PlanPlace, rigid
<1>2. PlacesRight(Tail(places)) /\ PlaceRight(place)
  BY <1>1, PlacesLeft DEF SelectionRight
<1> HIDE DEF to, place
<1>3. /\ level.path = to.rel /\ level.todo = Entries(place.tree) /\ level.pos = to.pos
      /\ IsPlanLevel(level)
  BY DEF IsPlanLevel
<1> HIDE DEF level
<1>4. Walked(<<level>>) /\ DOMAIN <<level>> = {1} /\ <<level>>[1] = level
  <2>1. /\ level.path = Opened(place).rel /\ level.pos = Opened(place).pos
    BY <1>3 DEF to
  <2> QED
    BY <1>2, <1>3, <2>1, PlaceEntered DEF WalkKept
<1>5. PlanLevels(<<level>>)
  BY <1>3, <1>4 DEF PlanLevels
<1>6. Walked(stack') /\ PlanLevels(stack')
  BY <1>1, <1>4, <1>5 DEF SelectionRight
<1> QED
  BY <1>1, <1>2, <1>6, SelectionOn DEF SelectionRight

(* What there is when the dry run takes the next entry. *)
LEMMA AtPlan ==
    ASSUME WalkKept, SelectionRight, AtEntry("plan")
    PROVE  /\ phase = "plan" /\ stack # <<>> /\ Top.todo # <<>> /\ Chosen3
           /\ Walked(stack) /\ PlanLevels(stack) /\ Walked(Advanced) /\ PlanLevels(Advanced)
           /\ IsSummary(summary) /\ NodesRight(summary.nodes)
<1>1. /\ phase = "plan" /\ stack # <<>> /\ Top.todo # <<>> /\ Chosen3
      /\ Walked(stack) /\ PlanLevels(stack) /\ IsSummary(summary) /\ NodesRight(summary.nodes)
  BY DEF AtEntry, SelectionRight, WalkKept
<1> QED
  BY <1>1, PlanAdvanced

LEMMA PlanSkipKeeps ==
    ASSUME WalkKept, SelectionRight, PlanSkip
    PROVE  SelectionRight'
<1>1. /\ AtEntry("plan") /\ stack' = Advanced /\ UNCHANGED <<snapshot, request, world>>
      /\ placed' = placed /\ places' = places /\ summary' = summary /\ planned' = planned /\ mode' = mode
  BY DEF PlanSkip, rigid
<1>2. Walked(Advanced) /\ PlanLevels(Advanced)
  BY <1>1, AtPlan
<1> QED
  BY <1>1, <1>2, SelectionOn DEF SelectionRight

(* A node is told. *)
LEMMA OneNode ==
    ASSUME NEW path, NEW kind, ~Excluded(request.subtree \o path),
           kind # "dir" => Included(request.subtree \o path)
    PROVE  NodesRight({<<path, kind>>})
  BY DEF NodesRight

LEMMA PlanLeafKeeps ==
    ASSUME WalkKept, SelectionRight, PlanLeaf
    PROVE  SelectionRight'
<1> DEFINE opened == IF IsLeaf(NextEntry) \/ NextPos.selected THEN Report(summary, stack) ELSE summary
<1>1. /\ AtEntry("plan") /\ Visited(NextEntry, NextPos)
      /\ stack' = PlanOpen(Advanced) \/ stack' = Advanced
      /\ UNCHANGED <<snapshot, request, world>>
      /\ placed' = placed /\ places' = places /\ planned' = planned /\ mode' = mode
      /\ \/ IsLeaf(NextEntry) /\ summary' = Count(opened, NextPath, NextEntry.kind)
         \/ summary' = Fail(opened, NextPath)
  BY DEF PlanLeaf, rigid
<1>2. /\ stack # <<>> /\ Top.todo # <<>> /\ Chosen3
      /\ Walked(stack) /\ Walked(Advanced) /\ PlanLevels(Advanced)
      /\ IsSummary(summary) /\ NodesRight(summary.nodes)
  BY <1>1, AtPlan
<1>3. Walked(stack') /\ PlanLevels(stack')
  BY <1>1, <1>2, PlanOpened
<1>4. IsSummary(opened) /\ NodesRight(opened.nodes)
  <2>1. /\ IsSummary(Report(summary, stack))
        /\ Report(summary, stack).nodes = summary.nodes \cup Reported(stack)
    BY <1>2, SummaryFacts
  <2>2. NodesRight(Report(summary, stack).nodes)
    BY <1>2, <2>1, ReportedRight, NodesJoin
  <2> QED
    BY <1>2, <2>1, <2>2
<1> HIDE DEF opened
<1>5. CASE IsLeaf(NextEntry) /\ summary' = Count(opened, NextPath, NextEntry.kind)
  <2>1. NextEntry.kind # "dir"
    BY <1>5 DEF IsLeaf
  <2>2. NodesRight({<<NextPath, NextEntry.kind>>})
    BY <1>1, <1>2, <2>1, VisitedRight, OneNode
  <2>3. IsSummary(summary') /\ NodesRight(summary'.nodes)
    <3>1. /\ IsSummary(Count(opened, NextPath, NextEntry.kind))
          /\ Count(opened, NextPath, NextEntry.kind).nodes = opened.nodes \cup {<<NextPath, NextEntry.kind>>}
      <4>1. \A path, kind : /\ IsSummary(Count(opened, path, kind))
                            /\ Count(opened, path, kind).nodes = opened.nodes \cup {<<path, kind>>}
        BY <1>4, SummaryFacts
      <4> QED
        BY <4>1
    <3> QED
      BY <1>4, <1>5, <2>2, <3>1, NodesJoin
  <2> QED
    BY <1>1, <1>3, <2>3, SelectionOn DEF SelectionRight
<1>6. CASE summary' = Fail(opened, NextPath)
  <2>1. IsSummary(summary') /\ NodesRight(summary'.nodes)
    BY <1>4, <1>6, SummaryFacts
  <2> QED
    BY <1>1, <1>3, <2>1, SelectionOn DEF SelectionRight
<1> QED
  BY <1>1, <1>5, <1>6

LEMMA PlanDirKeeps ==
    ASSUME WalkKept, SelectionRight, PlanDir
    PROVE  SelectionRight'
<1> DEFINE todo == IF Readable(NextEntry.sub) THEN Entries(NextEntry.sub) ELSE <<>>
           level == [path |-> NextPath, pos |-> NextPos, isDir |-> TRUE, created |-> FALSE,
                     todo |-> todo]
           inside == Append(Advanced, level)
           opened == IF NextPos.selected THEN PlanOpen(inside) ELSE inside
           told == IF NextPos.selected THEN Report(summary, inside) ELSE summary
<1>1. /\ AtEntry("plan") /\ Visited(NextEntry, NextPos) /\ NextEntry.kind = "dir"
      /\ UNCHANGED <<snapshot, request, world>>
      /\ placed' = placed /\ places' = places /\ planned' = planned /\ mode' = mode
      /\ \/ stack' = opened /\ summary' = told
         \/ stack' = Front(opened) /\ summary' = Fail(told, NextPath)
  BY Zenon DEF PlanDir, rigid, Enters
<1>2. /\ stack # <<>> /\ Top.todo # <<>> /\ Chosen3
      /\ Walked(stack) /\ Walked(Advanced) /\ PlanLevels(Advanced)
      /\ IsSummary(summary) /\ NodesRight(summary.nodes)
  BY <1>1, AtPlan
<1>3. NamesOf(todo)
  BY <1>1, <1>2, NextRight, NamesFacts DEF Chosen3
<1> HIDE DEF todo
<1>4. level.path = NextPath /\ level.pos = NextPos /\ level.todo = todo /\ IsPlanLevel(level)
  BY DEF IsPlanLevel
<1> HIDE DEF level
<1>5. WalkedLevel(level)
  <2>1. NextPath \in Seq(PathNames) /\ PosRight(NextPos, request.subtree \o NextPath)
    BY <1>2, NextRight
  <2>2. ~NextPos.gone
    BY <1>1, <1>2, VisitedRight
  <2> QED
    BY <1>3, <1>4, <2>1, <2>2 DEF WalkedLevel
<1>6. Walked(inside) /\ PlanLevels(inside) /\ inside # <<>>
  <2>1. /\ Walked(inside) /\ inside # <<>>
        /\ \A k \in DOMAIN inside : inside[k] = level \/ (k \in DOMAIN Advanced /\ inside[k] = Advanced[k])
    BY <1>2, <1>5, WalkedMore
  <2> HIDE DEF inside
  <2>2. PlanLevels(inside)
    BY <1>2, <1>4, <2>1 DEF PlanLevels
  <2> QED
    BY <2>1, <2>2
<1> HIDE DEF inside
<1>7. Walked(opened) /\ PlanLevels(opened) /\ opened # <<>>
  <2>1. Walked(PlanOpen(inside)) /\ PlanLevels(PlanOpen(inside)) /\ DOMAIN PlanOpen(inside) = DOMAIN inside
    BY <1>6, PlanOpened
  <2>2. PlanOpen(inside) # <<>>
    <3>1. IsList(inside) /\ IsList(PlanOpen(inside))
      BY <1>6, <2>1 DEF Walked
    <3>2. DOMAIN inside # {}
      <4>1. Len(inside) \in Nat /\ DOMAIN inside = 1 .. Len(inside)
        BY <3>1, ListFacts
      <4>2. Len(inside) # 0
        <5>1. inside \in Seq(ToSet(inside))
          BY <3>1 DEF IsList
        <5> QED
          BY <1>6, <5>1
      <4>3. 1 \in 1 .. Len(inside)
        BY <4>1, <4>2
      <4> QED
        BY <4>1, <4>3
    <3>3. DOMAIN <<>> = {}
      OBVIOUS
    <3> QED
      BY <2>1, <3>2, <3>3
  <2> QED
    BY <1>6, <2>1, <2>2
<1>8. IsSummary(told) /\ NodesRight(told.nodes)
  <2>1. /\ IsSummary(Report(summary, inside))
        /\ Report(summary, inside).nodes = summary.nodes \cup Reported(inside)
    BY <1>2, SummaryFacts
  <2>2. NodesRight(Report(summary, inside).nodes)
    BY <1>2, <1>6, <2>1, ReportedRight, NodesJoin
  <2> QED
    BY <1>2, <2>1, <2>2
<1> HIDE DEF opened, told
<1>9. CASE stack' = opened /\ summary' = told
  BY <1>1, <1>7, <1>8, <1>9, SelectionOn DEF SelectionRight
<1>10. CASE stack' = Front(opened) /\ summary' = Fail(told, NextPath)
  <2>1. Walked(Front(opened)) /\ PlanLevels(Front(opened))
    BY <1>7, WalkedLess DEF PlanLevels
  <2>2. IsSummary(summary') /\ NodesRight(summary'.nodes)
    BY <1>8, <1>10, SummaryFacts
  <2> QED
    BY <1>1, <1>10, <2>1, <2>2, SelectionOn DEF SelectionRight
<1> QED
  BY <1>1, <1>9, <1>10

LEMMA PlanEndKeeps ==
    ASSUME WalkKept, SelectionRight, PlanLeave \/ PlanEnd
    PROVE  SelectionRight'
<1>1. CASE PlanLeave
  <2>1. /\ stack # <<>> /\ stack' = Front(stack) /\ phase = "plan"
        /\ UNCHANGED <<snapshot, request, world>>
        /\ placed' = placed /\ places' = places /\ planned' = planned /\ mode' = mode
        /\ summary' = summary \/ summary' = [summary EXCEPT !.dirs = @ + 1]
    BY <1>1 DEF PlanLeave, AtEnd, rigid
  <2>2. Walked(Front(stack)) /\ PlanLevels(Front(stack))
    BY <2>1, WalkedLess DEF PlanLevels, SelectionRight
  <2>3. IsSummary(summary') /\ NodesRight(summary'.nodes)
    <3>1. IsSummary(summary) /\ NodesRight(summary.nodes)
      BY DEF SelectionRight
    <3>2. IsSummary([summary EXCEPT !.dirs = @ + 1]) /\ [summary EXCEPT !.dirs = @ + 1].nodes = summary.nodes
      BY <3>1, SummaryFacts
    <3> QED
      BY <2>1, <3>1, <3>2
  <2> QED
    BY <2>1, <2>2, <2>3, SelectionOn DEF SelectionRight
<1>2. CASE PlanEnd
  <2>1. /\ stack' = stack /\ phase' = "restore" /\ UNCHANGED <<snapshot, request, world>>
        /\ placed' = placed /\ places' = placed /\ mode' = mode /\ summary' = NoSummary
        /\ planned' = [summary EXCEPT !.unmatched = Unmatched]
    BY <1>2 DEF PlanEnd, rigid
  <2>2. NodesRight(planned'.nodes)
    <3>1. \A x : [summary EXCEPT !.unmatched = x].nodes = summary.nodes
      BY SummaryFacts DEF SelectionRight
    <3> QED
      BY <2>1, <3>1 DEF SelectionRight
  <2>3. IsSummary(NoSummary) /\ NodesRight(NoSummary.nodes)
    BY DEF IsSummary, NoSummary, NodesRight
  <2> QED
    BY <2>1, <2>2, <2>3, SelectionOn DEF SelectionRight
<1> QED
  BY <1>1, <1>2

LEMMA RestorePlaceKeeps ==
    ASSUME WalkKept, SelectionRight, RestorePlace
    PROVE  SelectionRight'
<1> DEFINE to == Opened(Head(places))
           base == <<BaseLevel>>
           made == IF to.pos.selected THEN Ensure(base, mode, FALSE) ELSE Attempt(base, mode, TRUE)
<1>1. /\ phase = "restore" /\ stack = <<>> /\ places # <<>> /\ places' = Tail(places)
      /\ phase' \in {"restore", "failed"} /\ placed' = placed
      /\ UNCHANGED <<snapshot, request, world>> /\ summary' = summary /\ planned' = planned
      /\ \/ stack' = made.levels /\ mode' = made.modes
         \/ stack' = stack /\ mode' = mode
  BY DEF RestorePlace, BaseLevel, rigid
<1> HIDE DEF to
<1>2. PlacesRight(Tail(places)) /\ PlaceRight(Head(places))
  BY <1>1, PlacesLeft DEF SelectionRight
<1>3. /\ BaseLevel.path = Opened(Head(places)).rel /\ BaseLevel.todo = Entries(Head(places).tree)
      /\ BaseLevel.pos = Opened(Head(places)).pos
      /\ Levels(base) /\ Chained(base) /\ Held(base, mode)
  BY <1>1, BaseHeld
<1>4. Walked(base)
  BY <1>2, <1>3, PlaceEntered DEF WalkKept
<1>5. request.subtree \in Seq(PathNames) /\ MadeRight(mode)
  BY NamesAssumption DEF WalkKept, Chosen3, SelectionRight
<1> HIDE DEF base
<1>6. Walked(made.levels) /\ MadeRight(made.modes)
  <2>1. CASE to.pos.selected
    <3>1. FALSE \in BOOLEAN /\ made = Ensure(base, mode, FALSE)
      BY <2>1
    <3> HIDE DEF made
    <3> QED
      BY <1>3, <1>4, <1>5, <3>1, EnsureRight
  <2>2. CASE ~to.pos.selected
    BY <1>4, <1>5, <2>2 DEF Attempt
  <2> QED
    BY <2>1, <2>2
<1> HIDE DEF made
<1>7. Walked(stack') /\ MadeRight(mode')
  BY <1>1, <1>5, <1>6 DEF SelectionRight
<1> QED
  BY <1>1, <1>2, <1>7, SelectionOn DEF SelectionRight

(* What there is when the restore takes the next entry. *)
LEMMA AtRestore ==
    ASSUME WalkKept, SelectionRight, AtEntry("restore")
    PROVE  /\ phase = "restore" /\ stack # <<>> /\ Top.todo # <<>> /\ Chosen3
           /\ Walked(stack) /\ Walked(Advanced) /\ request.subtree \in Seq(PathNames)
           /\ Walked(Ready.levels) /\ MadeRight(Ready.modes) /\ Ready.levels # <<>>
<1>1. /\ phase = "restore" /\ stack # <<>> /\ Top.todo # <<>> /\ Chosen3 /\ Walked(stack)
      /\ MadeRight(mode)
  BY DEF AtEntry, WalkKept, SelectionRight
<1>2. Levels(stack) /\ Chained(stack) /\ Held(stack, mode) /\ Ready.levels # <<>>
  BY AtReady
<1>3. Walked(Advanced) /\ request.subtree \in Seq(PathNames)
  BY <1>1, <1>2, RestoreAdvanced, NextRight
<1>4. Levels(Advanced) /\ Chained(Advanced) /\ Held(Advanced, mode)
  BY <1>1, <1>2, AdvancedHeld
<1>5. Walked(Ready.levels) /\ MadeRight(Ready.modes)
  <2>1. CASE NextPos.selected
    <3>1. TRUE \in BOOLEAN /\ Ready = Ensure(Advanced, mode, TRUE)
      BY <2>1 DEF Ready
    <3> QED
      BY <1>1, <1>3, <1>4, <3>1, EnsureRight
  <2>2. CASE ~NextPos.selected
    <3>1. Ready = Attempt(Advanced, mode, TRUE)
      BY <2>2 DEF Ready
    <3> QED
      BY <1>1, <1>3, <3>1 DEF Attempt
  <2> QED
    BY <2>1, <2>2
<1> QED
  BY <1>1, <1>2, <1>3, <1>5

LEMMA RestoreSkipKeeps ==
    ASSUME WalkKept, SelectionRight, RestoreSkip
    PROVE  SelectionRight'
<1>1. /\ AtEntry("restore") /\ stack' = Advanced /\ phase' = phase
      /\ UNCHANGED <<snapshot, request, world>>
      /\ placed' = placed /\ places' = places /\ summary' = summary /\ planned' = planned /\ mode' = mode
  BY DEF RestoreSkip, rigid
<1>2. Walked(Advanced) /\ phase = "restore"
  BY <1>1, AtRestore
<1> QED
  BY <1>1, <1>2, SelectionOn DEF SelectionRight

LEMMA RestoreStuckKeeps ==
    ASSUME WalkKept, SelectionRight, RestoreStuck
    PROVE  SelectionRight'
<1>1. /\ AtEntry("restore") /\ mode' = Ready.modes /\ UNCHANGED <<snapshot, request, world>>
      /\ placed' = placed /\ places' = places /\ planned' = planned
      /\ \/ phase' = "failed" /\ stack' = stack /\ summary' = summary
         \/ phase' = phase /\ stack' = Front(Ready.levels) /\ summary' = Fail(summary, Top.path)
  BY DEF RestoreStuck, rigid
<1>2. /\ phase = "restore" /\ Walked(Ready.levels) /\ MadeRight(Ready.modes) /\ Ready.levels # <<>>
  BY <1>1, AtRestore
<1>3. Walked(Front(Ready.levels))
  BY <1>2, WalkedLess
<1>4. IsSummary(summary') /\ NodesRight(summary'.nodes)
  <2>1. IsSummary(summary) /\ NodesRight(summary.nodes)
    BY DEF SelectionRight
  <2>2. \A path : IsSummary(Fail(summary, path)) /\ Fail(summary, path).nodes = summary.nodes
    BY <2>1, SummaryFacts
  <2> QED
    BY <1>1, <2>1, <2>2
<1>5. Walked(stack') /\ phase' \notin {"place", "plan"}
  BY <1>1, <1>2, <1>3 DEF SelectionRight
<1> QED
  BY <1>1, <1>2, <1>4, <1>5, SelectionOn DEF SelectionRight

LEMMA RestoreLeafKeeps ==
    ASSUME WalkKept, SelectionRight, RestoreLeaf
    PROVE  SelectionRight'
<1>1. /\ AtEntry("restore") /\ Visited(NextEntry, NextPos) /\ mode' = Ready.modes
      /\ UNCHANGED <<snapshot, request, world>>
      /\ placed' = placed /\ places' = places /\ planned' = planned
      /\ phase' = phase /\ stack' = Ready.levels
      /\ \/ IsLeaf(NextEntry) /\ summary' = Count(summary, NextPath, NextEntry.kind)
         \/ summary' = Fail(summary, NextPath)
  BY DEF RestoreLeaf, rigid
<1>2. /\ phase = "restore" /\ stack # <<>> /\ Top.todo # <<>> /\ Chosen3 /\ Walked(stack)
      /\ Walked(Ready.levels) /\ MadeRight(Ready.modes)
  BY <1>1, AtRestore
<1>3. IsSummary(summary) /\ NodesRight(summary.nodes)
  BY DEF SelectionRight
<1>4. CASE IsLeaf(NextEntry) /\ summary' = Count(summary, NextPath, NextEntry.kind)
  <2>1. NextEntry.kind # "dir"
    BY <1>4 DEF IsLeaf
  <2>2. NodesRight({<<NextPath, NextEntry.kind>>})
    BY <1>1, <1>2, <2>1, VisitedRight, OneNode
  <2>3. IsSummary(summary') /\ NodesRight(summary'.nodes)
    <3>1. /\ IsSummary(Count(summary, NextPath, NextEntry.kind))
          /\ Count(summary, NextPath, NextEntry.kind).nodes = summary.nodes \cup {<<NextPath, NextEntry.kind>>}
      <4>1. \A path, kind : /\ IsSummary(Count(summary, path, kind))
                            /\ Count(summary, path, kind).nodes = summary.nodes \cup {<<path, kind>>}
        BY <1>3, SummaryFacts
      <4> QED
        BY <4>1
    <3> QED
      BY <1>3, <1>4, <2>2, <3>1, NodesJoin
  <2> QED
    BY <1>1, <1>2, <2>3, SelectionOn DEF SelectionRight
<1>5. CASE summary' = Fail(summary, NextPath)
  <2>1. IsSummary(summary') /\ NodesRight(summary'.nodes)
    BY <1>3, <1>5, SummaryFacts
  <2> QED
    BY <1>1, <1>2, <2>1, SelectionOn DEF SelectionRight
<1> QED
  BY <1>1, <1>4, <1>5

LEMMA RestoreDirKeeps ==
    ASSUME WalkKept, SelectionRight, RestoreDir
    PROVE  SelectionRight'
<1> DEFINE inside == DirInside
           into == IF NextPos.selected THEN Ensure(inside, Ready.modes, FALSE)
                   ELSE Attempt(inside, Ready.modes, TRUE)
<1>1. /\ AtEntry("restore") /\ Visited(NextEntry, NextPos) /\ NextEntry.kind = "dir"
      /\ UNCHANGED <<snapshot, request, world>>
      /\ placed' = placed /\ places' = places /\ planned' = planned /\ phase' = phase
      /\ mode' = into.modes
      /\ \/ stack' = into.levels /\ summary' = summary
         \/ stack' = Front(into.levels) /\ summary' = Fail(summary, NextPath)
  BY Zenon DEF RestoreDir, Enters, rigid, DirInside, DirLevel
<1>2. /\ phase = "restore" /\ stack # <<>> /\ Top.todo # <<>> /\ Chosen3 /\ Walked(stack)
      /\ Walked(Ready.levels) /\ MadeRight(Ready.modes) /\ request.subtree \in Seq(PathNames)
  BY <1>1, AtRestore
<1>3. /\ DirLevel.path = NextPath /\ DirLevel.pos = NextPos
      /\ DirLevel.todo = IF Readable(NextEntry.sub) THEN Entries(NextEntry.sub) ELSE <<>>
      /\ Levels(inside) /\ Chained(inside) /\ Held(inside, Ready.modes)
  BY <1>1, DirHeld
<1>4. WalkedLevel(DirLevel)
  <2>1. /\ NextPath \in Seq(PathNames) /\ PosRight(NextPos, request.subtree \o NextPath)
        /\ NextEntry.sub \in DOMAIN snapshot.trees
    BY <1>1, <1>2, NextRight
  <2>2. ~NextPos.gone
    BY <1>1, <1>2, VisitedRight
  <2>3. NamesOf(IF Readable(NextEntry.sub) THEN Entries(NextEntry.sub) ELSE <<>>)
    BY <1>2, <2>1, NamesFacts DEF Chosen3
  <2> QED
    BY <1>3, <2>1, <2>2, <2>3 DEF WalkedLevel
<1>5. Walked(inside) /\ inside # <<>>
  BY <1>2, <1>4, WalkedMore DEF DirInside
<1> HIDE DEF inside
<1>6. Walked(into.levels) /\ MadeRight(into.modes) /\ DOMAIN into.levels = DOMAIN inside
  <2>1. CASE NextPos.selected
    <3>1. FALSE \in BOOLEAN /\ into = Ensure(inside, Ready.modes, FALSE)
      BY <2>1
    <3> HIDE DEF into
    <3> QED
      BY <1>2, <1>3, <1>5, <3>1, EnsureRight
  <2>2. CASE ~NextPos.selected
    BY <1>2, <1>5, <2>2 DEF Attempt
  <2> QED
    BY <2>1, <2>2
<1> HIDE DEF into
<1>7. into.levels # <<>>
  <2>1. DOMAIN inside # {}
    <3>1. IsList(inside)
      BY <1>5 DEF Walked
    <3>2. Len(inside) \in Nat /\ DOMAIN inside = 1 .. Len(inside)
      BY <3>1, ListFacts
    <3>3. Len(inside) # 0
      <4>1. inside \in Seq(ToSet(inside))
        BY <3>1 DEF IsList
      <4> QED
        BY <1>5, <4>1
    <3>4. 1 \in 1 .. Len(inside)
      BY <3>2, <3>3
    <3> QED
      BY <3>2, <3>4
  <2>2. DOMAIN <<>> = {}
    OBVIOUS
  <2> QED
    BY <1>6, <2>1, <2>2
<1>8. IsSummary(summary') /\ NodesRight(summary'.nodes)
  <2>1. IsSummary(summary) /\ NodesRight(summary.nodes)
    BY DEF SelectionRight
  <2>2. \A path : IsSummary(Fail(summary, path)) /\ Fail(summary, path).nodes = summary.nodes
    BY <2>1, SummaryFacts
  <2> QED
    BY <1>1, <2>1, <2>2
<1>9. Walked(stack')
  BY <1>1, <1>6, <1>7, WalkedLess
<1> QED
  BY <1>1, <1>2, <1>6, <1>8, <1>9, SelectionOn DEF SelectionRight

LEMMA RestoreLeaveKeeps ==
    ASSUME WalkKept, SelectionRight, RestoreLeave
    PROVE  SelectionRight'
<1> DEFINE open == Ensure(stack, mode, TRUE)
           level == Last(open.levels)
           counted == [summary EXCEPT !.dirs = @ + 1]
<1>1. /\ AtEnd("restore") /\ stack' = Front(stack) /\ phase' = phase
      /\ UNCHANGED <<snapshot, request, world>>
      /\ placed' = placed /\ places' = places /\ planned' = planned
      /\ \/ summary' = summary \/ summary' = counted \/ summary' = Fail(counted, level.path)
      /\ \/ mode' = mode \/ mode' = open.modes
         \/ \E v : mode' = [open.modes EXCEPT ![level.path] = v]
  BY Zenon DEF RestoreLeave, rigid
<1>2. /\ phase = "restore" /\ stack # <<>> /\ Walked(stack) /\ MadeRight(mode)
      /\ Levels(stack) /\ Chained(stack) /\ Held(stack, mode)
      /\ IsSummary(summary) /\ NodesRight(summary.nodes)
  BY <1>1 DEF AtEnd, WalkKept, RestoreKept, SelectionRight
<1>3. request.subtree \in Seq(PathNames)
  BY NamesAssumption DEF WalkKept, Chosen3
<1>4. MadeRight(open.modes)
  <2>1. TRUE \in BOOLEAN
    OBVIOUS
  <2> QED
    BY <1>2, <1>3, <2>1, EnsureRight
<1>5. IsSummary(counted) /\ counted.nodes = summary.nodes
  BY <1>2, SummaryFacts
<1> HIDE DEF open, level, counted
<1>6. \A v : DOMAIN [open.modes EXCEPT ![level.path] = v] = DOMAIN open.modes
  OBVIOUS
<1>7. DOMAIN mode' = DOMAIN mode \/ DOMAIN mode' = DOMAIN open.modes
  BY <1>1, <1>6
<1>8. MadeRight(mode')
  BY <1>2, <1>4, <1>7 DEF MadeRight
<1>9. IsSummary(summary') /\ NodesRight(summary'.nodes)
  <2>1. IsSummary(Fail(counted, level.path)) /\ Fail(counted, level.path).nodes = counted.nodes
    BY <1>5, SummaryFacts
  <2> QED
    BY <1>1, <1>2, <1>5, <2>1
<1>10. Walked(stack')
  BY <1>1, <1>2, WalkedLess
<1> QED
  BY <1>1, <1>2, <1>8, <1>9, <1>10, SelectionOn DEF SelectionRight

LEMMA RestoreEndKeeps ==
    ASSUME WalkKept, SelectionRight, RestoreEnd \/ RestoreBlocked
    PROVE  SelectionRight'
<1>1. /\ phase' \in {"done", "failed"} /\ stack' = stack /\ mode' = mode
      /\ places' = places /\ placed' = placed /\ planned' = planned
      /\ UNCHANGED <<snapshot, request, world>>
      /\ summary' = summary \/ summary' = [summary EXCEPT !.unmatched = Unmatched]
  BY DEF RestoreEnd, RestoreBlocked, rigid
<1>2. IsSummary(summary') /\ NodesRight(summary'.nodes)
  <2>1. IsSummary(summary) /\ NodesRight(summary.nodes)
    BY DEF SelectionRight
  <2>2. \A x : IsSummary([summary EXCEPT !.unmatched = x]) /\ [summary EXCEPT !.unmatched = x].nodes = summary.nodes
    BY <2>1, SummaryFacts
  <2> QED
    BY <1>1, <2>1, <2>2
<1> QED
  BY <1>1, <1>2, SelectionOn DEF SelectionRight

(* Every step keeps it. *)
LEMMA StepRight ==
    ASSUME WalkKept, SelectionRight, [WalkNext]_walkVars
    PROVE  SelectionRight'
<1>1. CASE Place
  BY <1>1, PlaceKeeps
<1>2. CASE PlanPlace
  BY <1>2, PlanPlaceKeeps
<1>3. CASE PlanSkip
  BY <1>3, PlanSkipKeeps
<1>4. CASE PlanLeaf
  BY <1>4, PlanLeafKeeps
<1>5. CASE PlanDir
  BY <1>5, PlanDirKeeps
<1>6. CASE PlanLeave \/ PlanEnd
  BY <1>6, PlanEndKeeps
<1>7. CASE RestorePlace
  BY <1>7, RestorePlaceKeeps
<1>8. CASE RestoreSkip
  BY <1>8, RestoreSkipKeeps
<1>9. CASE RestoreStuck
  BY <1>9, RestoreStuckKeeps
<1>10. CASE RestoreLeaf
  BY <1>10, RestoreLeafKeeps
<1>11. CASE RestoreDir
  BY <1>11, RestoreDirKeeps
<1>12. CASE RestoreLeave
  BY <1>12, RestoreLeaveKeeps
<1>13. CASE RestoreEnd \/ RestoreBlocked
  BY <1>13, RestoreEndKeeps
<1>14. CASE UNCHANGED walkVars
  <2>1. /\ UNCHANGED <<snapshot, request, world>> /\ placed' = placed /\ places' = places
        /\ stack' = stack /\ phase' = phase /\ summary' = summary /\ planned' = planned /\ mode' = mode
    BY <1>14 DEF walkVars
  <2> QED
    BY <2>1, SelectionOn DEF SelectionRight
<1> QED
  BY <1>1, <1>2, <1>3, <1>4, <1>5, <1>6, <1>7, <1>8, <1>9, <1>10, <1>11, <1>12, <1>13, <1>14
  DEF WalkNext

(* Nothing is reported or restored that is not asked for: whichever        *)
(* snapshot, patterns and SNAPSHOT:PATH, and whatever fails meanwhile, no  *)
(* excluded directory is reported or made, and no other node is reported   *)
(* or restored that the patterns do not select.                            *)
THEOREM NothingUnaskedEver == WalkSpec => []NothingUnasked
<1>1. WalkInit => WalkKept /\ SelectionRight
  BY InitKept, InitRight
<1>2. WalkKept /\ SelectionRight /\ [WalkNext]_walkVars => (WalkKept /\ SelectionRight)'
  <2> SUFFICES ASSUME WalkKept, SelectionRight, [WalkNext]_walkVars
               PROVE  WalkKept' /\ SelectionRight'
    OBVIOUS
  <2> QED
    BY StepKept, StepRight
<1>3. SelectionRight => NothingUnasked
  BY DEF SelectionRight, NodesRight, MadeRight, NothingUnasked
<1> QED
  BY <1>1, <1>2, <1>3, PTL DEF WalkSpec
=============================================================================
