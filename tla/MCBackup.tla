------------------------------ MODULE MCBackup ------------------------------
(***************************************************************************)
(* Backups for TLC: the walk over a small file system, for the rules and   *)
(* the sources worth telling apart; and, apart from it, the content of     *)
(* files that change while they are backed up.                             *)
(***************************************************************************)
EXTENDS FileReuse, BackupWalk, MCPaths

ByteOrder == <<a, ab, b, h, x>>

AnyNode(of, size, dev) == [kind |-> of, size |-> size, dev |-> dev, head |-> "", twin |-> FALSE]
ADir(dev) == AnyNode("dir", 0, dev)
AFile(size, dev) == AnyNode("file", size, dev)

\* A marked directory; one that another file system is mounted on, with a
\* third in it; and a file that is.
Disk ==
    (<<>> :> ADir(1)) @@ (<<a>> :> ADir(1)) @@ (<<b>> :> AFile(2, 1))
    @@ (<<a, a>> :> ADir(1)) @@ (<<a, a, a>> :> AFile(1, 1)) @@ (<<a, a, ab>> :> ADir(1))
    @@ (<<a, a, ab, a>> :> AFile(1, 1)) @@ (<<a, a, ab, b>> :> AFile(2, 1))
    @@ (<<a, a, b>> :> AnyNode("symlink", 0, 1)) @@ (<<a, ab>> :> AFile(2, 1))
    @@ (<<a, b>> :> ADir(2)) @@ (<<a, b, a>> :> AFile(1, 2)) @@ (<<a, b, b>> :> ADir(3))
    @@ (<<a, b, b, a>> :> AFile(1, 3)) @@ (<<a, b, h>> :> AnyNode("other", 0, 2))
    @@ (<<a, h>> :> ADir(1)) @@ (<<a, h, a>> :> ADir(1)) @@ (<<a, h, a, b>> :> AFile(1, 1))
    @@ (<<a, h, h>> :> [AFile(1, 1) EXCEPT !.head = "tag"]) @@ (<<a, x>> :> AFile(1, 2))
\* One branch of it.
Corner == [p \in {<<>>, <<a>>, <<a, a>>, <<a, a, ab>>, <<a, a, ab, a>>, <<a, a, ab, b>>} |-> Disk[p]]
Bucket == [p \in {q \in DOMAIN Disk : Disk[q].kind \in {"dir", "file"}} |-> Disk[p]]
\* A directory whose first item has its name, alone in it or not.
OwnName == (<<>> :> ADir(1)) @@ (<<a>> :> ADir(1)) @@ (<<a, a>> :> AFile(1, 1))
OwnNames == OwnName @@ (<<a, b>> :> AFile(1, 1))

ExcludePatterns ==
    {<<>>,
     <<P(FALSE, FALSE, <<<<Lit("a"), Star>>>>)>>,
     <<P(FALSE, TRUE, <<<<Lit("a")>>, <<AnyChar>>>>)>>,
     <<P(FALSE, FALSE, <<<<Star>>>>), P(TRUE, FALSE, <<<<Lit("b")>>>>)>>}
MarkerSets == {{}, {[name |-> h, header |-> "tag"]}, {[name |-> a, header |-> ""]}}
AllRules ==
    {[patterns |-> p, ifPresent |-> m, largerThan |-> l, oneFileSystem |-> o] :
        p \in ExcludePatterns, m \in MarkerSets, l \in {1, 9}, o \in BOOLEAN}

SourceSets ==
    {{<<a>>}, {<<a>>, <<a, a, ab, b>>, <<a, b, b>>}, {<<a>>, <<a, h, a, b>>}, {<<a, a>>, <<b>>}, {<<>>}}

En(name, of) == [name |-> name, kind |-> of]
Part(reads, all) == [reads |-> reads, entries |-> all]
Earlier(top, low) ==
    (<<a>> :> <<Part(2, <<En(a, "dir"), En(ab, "dir")>>), Part(top, <<En(b, "file"), En(h, "dir")>>),
                Part(2, <<En(x, "file")>>)>>)
    @@ (<<a, a>> :> <<Part(2, <<En(ab, "dir"), En(b, "file")>>), Part(low, <<En(x, "file")>>)>>)
    @@ (<<a, ab>> :> <<Part(2, <<En(b, "file")>>)>>)
    @@ (<<a, h>> :> <<Part(2, <<En(a, "file"), En(h, "file")>>), Part(2, <<>>)>>)
    @@ (<<a, a, ab>> :> <<Part(2, <<En(a, "file"), En(b, "file")>>)>>)

NoTrouble ==
    [unlisted |-> {}, unread |-> {}, unprobed |-> {}, vanishing |-> {}, unchanged |-> {}]
Troubles ==
    {NoTrouble,
     [NoTrouble EXCEPT !.unlisted = {<<a, a, ab>>, <<a, b, b>>}, !.unread = {<<a, a, a>>, <<a, a, b>>, <<a, x>>},
                       !.unprobed = {<<a, h, h>>}, !.unchanged = {<<a, a, a>>, <<a, x>>}],
     [NoTrouble EXCEPT !.unlisted = {<<a>>}, !.vanishing = {<<a, a, a>>}, !.unread = {<<b>>}]}

Job(source, disk, paths, rules, parent, trouble) ==
    [source |-> source, fs |-> disk, paths |-> paths, rules |-> rules,
     parent |-> parent, parentRoots |-> {<<a>>}] @@ trouble
Plain == [patterns |-> <<>>, ifPresent |-> {}, largerThan |-> 9, oneFileSystem |-> FALSE]

\* Remote roots: an object beside a prefix, a file, nothing, and what its first
\* item makes look like a file, with and without an earlier snapshot of that.
RemoteRoots ==
    {Job(s, [Bucket EXCEPT ![<<a>>].twin = s = "s3"], {p}, Plain, Earlier(2, 2), t) :
        s \in {"s3", "sftp"}, p \in {<<>>, <<a>>, <<b>>, <<x>>}, t \in Troubles}
EarlierOwn(parts) == <<a>> :> parts
OwnBefore == EarlierOwn(<<Part(2, <<En(a, "file"), En(b, "file")>>)>>)
OwnRoots ==
    {Job(s, disk, {<<a>>}, Plain, before, [NoTrouble EXCEPT !.unchanged = u]) :
        s \in {"s3", "sftp"}, disk \in {OwnName, OwnNames},
        before \in {EarlierOwn(<<>>), OwnBefore}, u \in {{}, {<<a, a>>}}}

AllBackups ==
    {Job("local", Disk, p, r, Earlier(2, 2), t) : p \in SourceSets, r \in AllRules, t \in Troubles}
    \cup {Job("local", Disk, {<<a>>}, r, Earlier(1, 0), NoTrouble) : r \in AllRules}
    \cup {Job("local", Corner, {<<a>>, <<a, a, ab, b>>}, r, Earlier(2, 2), NoTrouble) : r \in AllRules}
    \cup {Job("s3", Bucket, {<<a>>}, r, Earlier(2, 2), t) : r \in AllRules, t \in Troubles}
    \cup RemoteRoots \cup OwnRoots

\* For the runs that are about FileReuse.
OneBackup == {Job("local", Corner, {<<a>>}, Plain, << >>, NoTrouble)}

\* One of the two is at work, the other has nothing to do.
NoJob == Job("local", << >>, {}, Plain, << >>, NoTrouble)
NoWalkOut ==
    /\ job = NoJob /\ status = "failed" /\ plans = <<>> /\ levels = <<>>
    /\ trees = << >> /\ report = NoReport /\ used = {}
NoFiles ==
    /\ kind = "posix" /\ clock = 0 /\ inode = <<>> /\ file = <<>> /\ changes = 0 /\ snaps = <<>>
    /\ step = "idle" /\ nth = 0 /\ start = 0 /\ items = <<>> /\ stat = NoStat
    /\ reading = NotReading /\ linked = NoLinks /\ entries = <<>> /\ had = <<>>
    /\ behind = <<>> /\ settled = {} /\ mixed = {}

\* No two files of a disk have equal contents, what one had at the start comes
\* back to no other, and nothing of an object depends on the clock.
FewFiles ==
    /\ kind = "posix" =>
          /\ \A i, j \in DOMAIN inode : i # j => inode[i].data # inode[j].data
          /\ \A i \in DOMAIN inode : inode[i].data = i \/ inode[i].data > FileCount
    /\ kind = "s3" => clock =< 1

MCBackupInit == (BackupInit /\ NoFiles) \/ (ReuseInit /\ NoWalkOut)
MCBackupNext ==
    \/ BackupNext /\ UNCHANGED reuseVars
    \/ clock > 0 /\ ReuseNext /\ UNCHANGED backupVars
MCBackupSpec == MCBackupInit /\ [][MCBackupNext]_<<reuseVars, backupVars>>
=============================================================================
