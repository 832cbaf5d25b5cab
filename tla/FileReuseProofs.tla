-------------------------- MODULE FileReuseProofs --------------------------
(***************************************************************************)
(* Proofs about FileReuse, for any number of names, changes and backups:   *)
(* which content a backup records, where the time stamps of files are as   *)
(* fine as the clock of the program.                                       *)
(***************************************************************************)
EXTENDS FileReuse, SequenceTheorems, FiniteSetTheorems, TLAPS

-----------------------------------------------------------------------------
(***************************************************************************)
(* The inductive invariant.                                                *)
(***************************************************************************)
DiskFile == [data : Nat \ {0}, mtime : Nat, ctime : Nat]
Entry == [is : BOOLEAN, data : Nat, size : Nat, mtime : Nat, ctime : Nat, ino : Nat]
ReuseType ==
    /\ clock \in Nat /\ changes \in Nat /\ start \in Nat
    /\ inode \in Seq(DiskFile)
    /\ file \in [FileNames -> 1 .. Len(inode)]
    /\ snaps \in Seq([start : Nat, entries : [FileNames -> Entry]])
    /\ step \in {"idle", "list", "stat", "decide", "read", "commit"}
    /\ nth \in FileNames
    /\ items \in [FileNames -> [size : Nat, etag : Nat]]
    /\ stat \in [mtime : Nat, ctime : Nat, ino : Nat, nlink : Nat]
    /\ reading \in [ino : Nat, data : Nat]
    /\ entries \in [FileNames -> Entry]
    /\ had \in [FileNames -> SUBSET Nat]
    /\ behind \in [FileNames -> SUBSET Nat]
    /\ settled \subseteq FileNames /\ mixed \subseteq FileNames

Ctime(n) == inode[file[n]].ctime

\* What the history variables say of the files.
Noted ==
    /\ InBackup => start =< clock
    /\ ~InBackup => linked = NoLinks
    /\ step \in {"list", "stat"} => Local
    /\ step = "read" => kind # "s3"
    /\ mixed # {} => kind = "s3"
    /\ InBackup => \A n \in FileNames : Content(n) \in had[n] /\ file[n] \in behind[n]
    \* Whatever happens to a file puts the time on it.
    /\ InBackup /\ Local => \A n \in FileNames \ settled : Ctime(n) >= start

\* A file that has not changed since a backup started has in its entry what it
\* has now; the fingerprint of an object is its content's unless it was replaced
\* between listing and reading.
SnapsExact ==
    \A s \in 1 .. Len(snaps) :
        /\ snaps[s].start =< clock
        /\ \A n \in FileNames :
              LET e == snaps[s].entries[n] IN
              e.is =>
                /\ Local /\ Ctime(n) < snaps[s].start => e.data = Content(n)
                /\ kind = "s3" /\ n \notin mixed => e.mtime = e.data

\* What this backup has recorded, and what it has learnt of the names to come.
Known(n, data) ==
    \/ \E m \in Kin(n) : data \in had[m]
    \/ data = Torn /\ n \notin settled
EntriesOwn ==
    /\ InBackup => \A n \in FileNames \ mixed : entries[n].is =>
          /\ Known(n, entries[n].data)
          /\ n \in settled => entries[n].data = Content(n)
          /\ kind = "s3" => entries[n].mtime = entries[n].data
    /\ kind = "s3" /\ step = "decide" => \A n \in nth .. FileCount :
          /\ items[n].etag \in had[n]
          /\ n \in settled => items[n].etag = Content(n)

\* From its lstat on, a name and the others of its file go together.
StatOwn ==
    Local /\ step \in {"decide", "read"} =>
        /\ stat.ino \in behind[nth]
        /\ \A n \in settled : file[n] = stat.ino \/ n = nth => file[nth] = stat.ino
        /\ ParentEntry.is /\ stat.ctime < Parent.start =>
              /\ ParentEntry.data \in had[nth]
              /\ nth \in settled => ParentEntry.data = Content(nth)

ReadingOwn ==
    step = "read" =>
        /\ reading.ino \in 1 .. Len(inode)
        /\ reading.data \in had[nth]
        /\ \A n \in settled : n = nth \/ (Local /\ file[n] = stat.ino) =>
              reading = [ino |-> file[n], data |-> Content(n)]

\* The table of hard links has, under a file that is settled, its content.
LinkedOwn ==
    /\ linked \in [DOMAIN linked -> Nat]
    /\ \A i \in DOMAIN linked :
          /\ linked[i] = Torn \/ \E m \in FileNames : i \in behind[m] /\ linked[i] \in had[m]
          /\ \A n \in settled : file[n] = i => linked[i] = Content(n)

IInv == ReuseType /\ Noted /\ SnapsExact /\ EntriesOwn /\ StatOwn /\ ReadingOwn /\ LinkedOwn

-----------------------------------------------------------------------------
(***************************************************************************)
(* The files change.                                                       *)
(***************************************************************************)
\* A change puts the time on every name of the files it touches and leaves the
\* others alone.
Touches(names) ==
    /\ Changed(names)
    /\ UNCHANGED clock
    /\ inode' \in Seq(DiskFile) /\ Len(inode) =< Len(inode')
    /\ file' \in [FileNames -> 1 .. Len(inode')]
    /\ \A n \in FileNames \ names : file'[n] = file[n] /\ inode'[file[n]] = inode[file[n]]
    /\ \A n \in names : /\ inode'[file'[n]].ctime = clock
                        /\ \A m \in FileNames : file[m] = file[n] => m \in names

\* The types of the files, one by one.
LEMMA FilesTyped ==
    ASSUME ReuseType
    PROVE  /\ inode \in Seq(DiskFile) /\ Len(inode) \in Nat
           /\ \A i \in 1 .. Len(inode) : /\ inode[i] \in DiskFile
                                         /\ inode[i].data \in Nat \ {0} /\ inode[i].ctime \in Nat
           /\ file \in [FileNames -> 1 .. Len(inode)]
           /\ \A n \in FileNames : file[n] \in 1 .. Len(inode)
           /\ clock \in Nat /\ Contents \subseteq Nat \ {0}
<1>1. inode \in Seq(DiskFile) /\ file \in [FileNames -> 1 .. Len(inode)] /\ clock \in Nat
  BY DEF ReuseType
<1>2. Contents \subseteq Nat \ {0}
  BY GrainAssumption DEF ReuseType, NewContent, Contents
<1>3. \A i \in 1 .. Len(inode) : inode[i] \in DiskFile
  BY <1>1
<1>4. \A i \in 1 .. Len(inode) : inode[i].data \in Nat \ {0} /\ inode[i].ctime \in Nat
  BY <1>3 DEF DiskFile
<1> QED BY <1>1, <1>2, <1>3, <1>4

\* The stamp of a change is the time, where stamps are that fine.
LEMMA StampNow == ASSUME Tick = 1, clock \in Nat PROVE Stamp = clock
<1>1. clock % 1 = 0
  OBVIOUS
<1> QED BY <1>1 DEF Stamp

\* A write touches all the names of a file.
LEMMA WriteTouches ==
    ASSUME ReuseType, Tick = 1, NEW n \in FileNames, WriteFile(n)
    PROVE  Touches(Group(n))
<1> DEFINE i == file[n]
<1>1. PICK data \in Contents, mtime \in {Stamp, inode[i].mtime} :
         inode' = [inode EXCEPT ![i] = OnDisk(data, mtime, Stamp)]
  BY DEF WriteFile
<1>2. UNCHANGED <<file, clock>> /\ Changed(Group(n))
  BY DEF WriteFile, Changed
<1>3. i \in 1 .. Len(inode) /\ inode[i] \in DiskFile /\ Stamp = clock
  BY StampNow, FilesTyped
<1> DEFINE new == OnDisk(data, mtime, Stamp)
<1>4. new \in DiskFile /\ new.ctime = clock
  BY <1>3, FilesTyped DEF OnDisk, DiskFile
<1> HIDE DEF new
<1>5. /\ inode' \in Seq(DiskFile) /\ Len(inode') = Len(inode)
      /\ \A j \in 1 .. Len(inode) : inode'[j] = IF j = i THEN new ELSE inode[j]
  <2>1. inode' = [inode EXCEPT ![i] = new]
    BY <1>1 DEF new
  <2> QED BY <1>3, <1>4, <2>1, FilesTyped, ExceptSeq
<1>6. \A m \in FileNames : m \in Group(n) <=> file[m] = i
  BY DEF Group
<1>7. \A m \in FileNames : file[m] \in 1 .. Len(inode) /\ file'[m] = file[m]
  BY <1>2 DEF ReuseType
<1>8. \A m \in FileNames \ Group(n) : inode'[file[m]] = inode[file[m]]
  BY <1>5, <1>6, <1>7
<1>9. \A m \in Group(n) : /\ m \in FileNames /\ inode'[file'[m]].ctime = clock
                          /\ \A l \in FileNames : file[l] = file[m] => l \in Group(n)
  BY <1>4, <1>5, <1>6, <1>7 DEF Group
<1>10. file' \in [FileNames -> 1 .. Len(inode')]
  BY <1>2, <1>5 DEF ReuseType
<1> QED BY <1>2, <1>5, <1>7, <1>8, <1>9, <1>10, FilesTyped DEF Touches

\* A file renamed over a name touches the names of the old one.
LEMMA ReplaceTouches ==
    ASSUME ReuseType, Tick = 1, NEW n \in FileNames, ReplaceFile(n)
    PROVE  Touches(Group(n))
<1> DEFINE i == file[n]
           last == Len(inode) + 1
<1>1. PICK data \in Contents, mtime \in {Stamp, inode[i].mtime} :
         inode' = Append([inode EXCEPT ![i].ctime = Stamp], OnDisk(data, mtime, Stamp))
  BY DEF ReplaceFile
<1>2. file' = [file EXCEPT ![n] = last] /\ UNCHANGED clock /\ Changed(Group(n))
  BY DEF ReplaceFile, Changed
<1>3. i \in 1 .. Len(inode) /\ inode[i] \in DiskFile /\ Stamp = clock /\ clock \in Nat
  BY StampNow, FilesTyped
<1> DEFINE new == OnDisk(data, mtime, Stamp)
           old == [inode[i] EXCEPT !.ctime = Stamp]
           front == [inode EXCEPT ![i] = old]
<1>5. new \in DiskFile /\ new.ctime = clock
  BY <1>3, FilesTyped DEF OnDisk, DiskFile
<1>6. old \in DiskFile /\ old.ctime = clock
  BY <1>3 DEF DiskFile
<1>7. inode' = Append(front, new)
  BY <1>1
<1> HIDE DEF new, old
<1>8. /\ front \in Seq(DiskFile) /\ Len(front) = Len(inode)
      /\ \A j \in 1 .. Len(inode) : front[j] = IF j = i THEN old ELSE inode[j]
  BY <1>3, <1>6, FilesTyped, ExceptSeq
<1> HIDE DEF front
<1>9. /\ inode' \in Seq(DiskFile) /\ Len(inode') = last /\ inode'[last] = new
      /\ \A j \in 1 .. Len(inode) : inode'[j] = IF j = i THEN old ELSE inode[j]
  BY <1>5, <1>7, <1>8
<1>12. \A m \in FileNames : m \in Group(n) <=> file[m] = i
  BY DEF Group
<1>13. \A m \in FileNames : /\ file[m] \in 1 .. Len(inode)
                            /\ file'[m] = IF m = n THEN last ELSE file[m]
  BY <1>2 DEF ReuseType
<1>14. \A m \in FileNames \ Group(n) : file'[m] = file[m] /\ inode'[file[m]] = inode[file[m]]
  BY <1>9, <1>12, <1>13
<1>15. \A m \in Group(n) : /\ m \in FileNames /\ inode'[file'[m]].ctime = clock
                           /\ \A l \in FileNames : file[l] = file[m] => l \in Group(n)
  BY <1>5, <1>6, <1>9, <1>12, <1>13 DEF Group
<1>17. file' \in [FileNames -> 1 .. Len(inode')]
  BY <1>2, <1>9, FilesTyped
<1> QED BY <1>2, <1>9, <1>14, <1>15, <1>17, FilesTyped DEF Touches

\* A link over a name touches the names of both files.
LEMMA LinkTouches ==
    ASSUME ReuseType, Tick = 1, NEW n \in FileNames, NEW m \in FileNames, LinkFile(n, m)
    PROVE  Touches(Group(n) \cup Group(m))
<1> DEFINE i == file[n]
           j == file[m]
           touched == Group(n) \cup Group(m)
<1>1. /\ Local /\ i # j
      /\ inode' = [inode EXCEPT ![i].ctime = Stamp, ![j].ctime = Stamp]
      /\ file' = [file EXCEPT ![n] = j] /\ UNCHANGED clock /\ Changed(touched)
  BY DEF LinkFile, Changed
<1>2. i \in 1 .. Len(inode) /\ j \in 1 .. Len(inode) /\ Stamp = clock /\ clock \in Nat
  BY StampNow, FilesTyped
<1> DEFINE oldI == [inode[i] EXCEPT !.ctime = Stamp]
           oldJ == [inode[j] EXCEPT !.ctime = Stamp]
<1>4. inode[i] \in DiskFile /\ inode[j] \in DiskFile
  BY <1>2, FilesTyped
<1>5. /\ oldI \in DiskFile /\ oldI.ctime = clock
      /\ oldJ \in DiskFile /\ oldJ.ctime = clock
  BY <1>2, <1>4 DEF DiskFile
<1>6. inode' = [inode EXCEPT ![i] = oldI, ![j] = oldJ]
  BY <1>1, <1>2 DEF ReuseType
<1> HIDE DEF oldI, oldJ
<1>7. /\ inode' \in Seq(DiskFile) /\ Len(inode') = Len(inode)
      /\ \A k \in 1 .. Len(inode) :
            inode'[k] = IF k = j THEN oldJ ELSE IF k = i THEN oldI ELSE inode[k]
  <2> DEFINE front == [inode EXCEPT ![i] = oldI]
  <2>1. /\ front \in Seq(DiskFile) /\ Len(front) = Len(inode)
        /\ \A k \in 1 .. Len(inode) : front[k] = IF k = i THEN oldI ELSE inode[k]
    BY <1>2, <1>5, FilesTyped, ExceptSeq
  <2>2. inode' = [front EXCEPT ![j] = oldJ]
    BY <1>6
  <2> HIDE DEF front
  <2> QED BY <1>2, <1>5, <2>1, <2>2, ExceptSeq
<1>9. \A l \in FileNames : l \in touched <=> file[l] = i \/ file[l] = j
  BY DEF Group
<1>10. \A l \in FileNames : /\ file[l] \in 1 .. Len(inode)
                            /\ file'[l] = IF l = n THEN j ELSE file[l]
  BY <1>1 DEF ReuseType
<1>11. touched \subseteq FileNames /\ n \in touched
  BY DEF Group
<1> HIDE DEF touched
<1>12. \A l \in FileNames \ touched : file'[l] = file[l] /\ inode'[file[l]] = inode[file[l]]
  BY <1>7, <1>9, <1>10, <1>11
<1>13. \A l \in touched : /\ inode'[file'[l]].ctime = clock
                          /\ \A k \in FileNames : file[k] = file[l] => k \in touched
  BY <1>2, <1>5, <1>7, <1>9, <1>10, <1>11
<1>14. file' \in [FileNames -> 1 .. Len(inode')]
  BY <1>1, <1>2, <1>7 DEF ReuseType
<1>15. Touches(touched)
  <2>1. Local /\ UNCHANGED clock /\ Changed(touched)
    BY <1>1 DEF touched
  <2> QED BY <2>1, <1>7, <1>12, <1>13, <1>14, FilesTyped DEF Touches
<1> QED BY <1>15 DEF touched

\* What a change leaves alone, and what the backup in progress notes of it.
LEMMA TouchFacts ==
    ASSUME ReuseType, NEW names \in SUBSET FileNames, Touches(names)
    PROVE  /\ UNCHANGED <<kind, clock, snaps, step, nth, start, items, stat, reading, linked, entries, mixed>>
           /\ settled' = settled \ names
           /\ \A n \in FileNames \ names : /\ file'[n] = file[n] /\ Content(n)' = Content(n)
                                           /\ Ctime(n)' = Ctime(n)
           /\ \A n \in names : Ctime(n)' = clock
           /\ \A n \in FileNames : Content(n)' \in Nat \ {0} /\ file'[n] \in Nat
           /\ InBackup => \A n \in FileNames :
                 /\ had[n] \subseteq had'[n] /\ behind[n] \subseteq behind'[n]
                 /\ Content(n)' \in had'[n] /\ file'[n] \in behind'[n]
<1>1. /\ UNCHANGED <<kind, clock, snaps, step, nth, start, items, stat, reading, linked, entries, mixed>>
      /\ settled' = settled \ names
  BY DEF Touches, Changed
<1>2. \A n \in FileNames \ names : /\ file'[n] = file[n] /\ Content(n)' = Content(n)
                                   /\ Ctime(n)' = Ctime(n)
  BY DEF Touches, Content, Ctime
<1>3. \A n \in names : Ctime(n)' = clock
  BY DEF Touches, Ctime
<1>4. \A n \in FileNames : Content(n)' \in Nat \ {0} /\ file'[n] \in Nat
  <2> SUFFICES ASSUME NEW n \in FileNames PROVE Content(n)' \in Nat \ {0} /\ file'[n] \in Nat
    OBVIOUS
  <2>1. file'[n] \in 1 .. Len(inode') /\ inode' \in Seq(DiskFile)
    BY DEF Touches
  <2>2. inode'[file'[n]] \in DiskFile
    BY <2>1
  <2> QED BY <2>1, <2>2 DEF Content, DiskFile
<1>5. InBackup => \A n \in FileNames :
         /\ had[n] \subseteq had'[n] /\ behind[n] \subseteq behind'[n]
         /\ Content(n)' \in had'[n] /\ file'[n] \in behind'[n]
  BY DEF Touches, Changed, Content
<1> QED BY <1>1, <1>2, <1>3, <1>4, <1>5

\* A change keeps the types.
LEMMA TouchType ==
    ASSUME ReuseType, NEW names \in SUBSET FileNames, Touches(names)
    PROVE  ReuseType'
<1>1. inode' \in Seq(DiskFile) /\ file' \in [FileNames -> 1 .. Len(inode')]
  BY DEF Touches
<1>2. changes' \in Nat
  BY DEF Touches, Changed, ReuseType
<1>3. had' \in [FileNames -> SUBSET Nat] /\ behind' \in [FileNames -> SUBSET Nat]
  <2>1. \A n \in FileNames : inode'[file'[n]].data \in Nat /\ file'[n] \in Nat
    BY TouchFacts DEF Content
  <2>2. had \in [FileNames -> SUBSET Nat] /\ behind \in [FileNames -> SUBSET Nat]
    BY DEF ReuseType
  <2> QED BY <2>1, <2>2 DEF Touches, Changed
<1> QED BY <1>1, <1>2, <1>3, TouchFacts DEF ReuseType

\* It is noted.
LEMMA TouchNoted ==
    ASSUME ReuseType, Noted, NEW names \in SUBSET FileNames, Touches(names)
    PROVE  Noted'
<1>1. InBackup' = InBackup /\ Local' = Local
  BY TouchFacts DEF InBackup, Local
<1>2. InBackup => \A n \in FileNames : Content(n)' \in had'[n] /\ file'[n] \in behind'[n]
  BY TouchFacts
<1>3. InBackup /\ Local => \A n \in FileNames \ settled' : Ctime(n)' >= start'
  <2> SUFFICES ASSUME InBackup, Local, NEW n \in FileNames, n \notin settled'
               PROVE  Ctime(n)' >= start
    BY TouchFacts
  <2>1. CASE n \in names
    BY <2>1, TouchFacts DEF Noted, ReuseType
  <2>2. CASE n \notin names
    BY <2>2, TouchFacts DEF Noted
  <2> QED BY <2>1, <2>2
<1> QED BY <1>1, <1>2, <1>3, TouchFacts DEF Noted

\* What earlier snapshots have of a name stays exact, or the name is newer now.
LEMMA TouchSnaps ==
    ASSUME ReuseType, SnapsExact, NEW names \in SUBSET FileNames, Touches(names)
    PROVE  SnapsExact'
<1>1. UNCHANGED <<snaps, clock, kind, mixed>>
  BY TouchFacts
<1> SUFFICES ASSUME NEW s \in 1 .. Len(snaps), NEW n \in FileNames, snaps[s].entries[n].is
             PROVE  /\ Local /\ Ctime(n)' < snaps[s].start => snaps[s].entries[n].data = Content(n)'
                    /\ kind = "s3" /\ n \notin mixed =>
                          snaps[s].entries[n].mtime = snaps[s].entries[n].data
  BY <1>1 DEF SnapsExact, Local
<1> DEFINE e == snaps[s].entries[n]
<1>2. /\ snaps[s].start =< clock
      /\ Local /\ Ctime(n) < snaps[s].start => e.data = Content(n)
      /\ kind = "s3" /\ n \notin mixed => e.mtime = e.data
  BY DEF SnapsExact
<1>3. snaps[s].start \in Nat /\ e.data \in Nat /\ clock \in Nat
  <2>1. snaps \in Seq([start : Nat, entries : [FileNames -> Entry]])
    BY DEF ReuseType
  <2>2. snaps[s] \in [start : Nat, entries : [FileNames -> Entry]]
    BY <2>1, ElementOfSeq
  <2> QED BY <2>2, FilesTyped DEF Entry
<1> HIDE DEF e
<1>4. Local /\ Ctime(n)' < snaps[s].start => e.data = Content(n)'
  <2>1. CASE n \in names
    BY <1>2, <1>3, <2>1, TouchFacts
  <2>2. CASE n \notin names
    BY <1>2, <2>2, TouchFacts
  <2> QED BY <2>1, <2>2
<1> QED BY <1>2, <1>4 DEF e

\* So does what this backup knows.
LEMMA TouchKnown ==
    ASSUME ReuseType, InBackup, NEW names \in SUBSET FileNames, Touches(names),
           NEW n \in FileNames, NEW data, Known(n, data)
    PROVE  (\E m \in FileNames : behind'[m] \cap behind'[n] # {} /\ data \in had'[m])
           \/ (data = Torn /\ n \notin settled')
<1>1. CASE data = Torn /\ n \notin settled
  BY <1>1, TouchFacts
<1>2. CASE \E m \in Kin(n) : data \in had[m]
  <2>1. PICK m \in FileNames : behind[m] \cap behind[n] # {} /\ data \in had[m]
    BY <1>2 DEF Kin
  <2>2. behind[m] \subseteq behind'[m] /\ behind[n] \subseteq behind'[n] /\ had[m] \subseteq had'[m]
    BY TouchFacts
  <2> QED BY <2>1, <2>2
<1> QED BY <1>1, <1>2 DEF Known

\* What has been recorded stays what it is.
LEMMA TouchEntries ==
    ASSUME ReuseType, EntriesOwn, NEW names \in SUBSET FileNames, Touches(names)
    PROVE  EntriesOwn'
<1>1. UNCHANGED <<kind, snaps, step, nth, items, entries, mixed>> /\ settled' = settled \ names
  BY TouchFacts
<1>2. InBackup' = InBackup
  BY <1>1 DEF InBackup
<1>3. ASSUME InBackup, NEW n \in FileNames \ mixed, entries[n].is
      PROVE  /\ Known(n, entries[n].data)'
             /\ n \in settled' => entries[n].data = Content(n)'
             /\ kind = "s3" => entries[n].mtime = entries[n].data
  <2>1. /\ Known(n, entries[n].data)
        /\ n \in settled => entries[n].data = Content(n)
        /\ kind = "s3" => entries[n].mtime = entries[n].data
    BY <1>3 DEF EntriesOwn
  <2>2. Known(n, entries[n].data)'
    BY <1>1, <1>3, <2>1, TouchKnown DEF Known, Kin
  <2>3. n \in settled' => entries[n].data = Content(n)'
    BY <1>1, <2>1, TouchFacts
  <2> QED BY <2>1, <2>2, <2>3
<1>4. ASSUME kind = "s3", step = "decide", NEW n \in nth .. FileCount
      PROVE  /\ items[n].etag \in had'[n]
             /\ n \in settled' => items[n].etag = Content(n)'
  <2>1. n \in FileNames
    BY GrainAssumption DEF ReuseType, FileNames
  <2>2. /\ items[n].etag \in had[n]
        /\ n \in settled => items[n].etag = Content(n)
    BY <1>4 DEF EntriesOwn
  <2>3. InBackup
    BY <1>4 DEF InBackup
  <2>4. had[n] \subseteq had'[n]
    BY <2>1, <2>3, TouchFacts
  <2>5. n \in settled' => n \in settled /\ Content(n)' = Content(n)
    BY <2>1, TouchFacts
  <2> QED BY <2>2, <2>4, <2>5
<1> QED BY <1>1, <1>2, <1>3, <1>4 DEF EntriesOwn

\* So does what has been learnt of the name the backup is at.
LEMMA TouchAtHand ==
    ASSUME IInv, NEW names \in SUBSET FileNames, Touches(names)
    PROVE  StatOwn' /\ ReadingOwn' /\ LinkedOwn'
<1>1. ReuseType
  BY DEF IInv
<1>2. /\ UNCHANGED <<kind, snaps, step, nth, stat, reading, linked>> /\ settled' = settled \ names
      /\ \A n \in settled' : /\ n \in settled /\ n \in FileNames /\ n \notin names
                             /\ file'[n] = file[n] /\ Content(n)' = Content(n)
  BY <1>1, TouchFacts DEF ReuseType
<1>3. nth \in FileNames
  BY <1>1 DEF ReuseType
<1>4. InBackup => \A n \in FileNames : had[n] \subseteq had'[n] /\ behind[n] \subseteq behind'[n]
  BY <1>1, TouchFacts
<1>5. StatOwn'
  <2> SUFFICES ASSUME Local, step \in {"decide", "read"}
               PROVE  /\ stat.ino \in behind'[nth]
                      /\ \A n \in settled' : file'[n] = stat.ino \/ n = nth => file'[nth] = stat.ino
                      /\ ParentEntry.is /\ stat.ctime < Parent.start =>
                            /\ ParentEntry.data \in had'[nth]
                            /\ nth \in settled' => ParentEntry.data = Content(nth)'
    BY <1>2 DEF StatOwn, Local, ParentEntry, Parent
  <2>1. InBackup
    BY DEF InBackup
  <2>2. /\ stat.ino \in behind[nth]
        /\ \A n \in settled : file[n] = stat.ino \/ n = nth => file[nth] = stat.ino
        /\ ParentEntry.is /\ stat.ctime < Parent.start =>
              /\ ParentEntry.data \in had[nth]
              /\ nth \in settled => ParentEntry.data = Content(nth)
    BY DEF IInv, StatOwn
  <2>3. ASSUME NEW n \in settled', file'[n] = stat.ino \/ n = nth
        PROVE  file'[nth] = stat.ino
    <3>1. file[n] = stat.ino \/ n = nth
      BY <1>2, <2>3
    <3>2. file[nth] = stat.ino /\ file[n] = stat.ino
      BY <1>2, <2>2, <3>1
    <3>3. nth \notin names
      BY <1>2, <1>3, <3>2 DEF Touches
    <3> QED BY <1>1, <1>3, <3>2, <3>3, TouchFacts
  <2> QED BY <1>2, <1>3, <1>4, <2>1, <2>2, <2>3
<1>6. ReadingOwn'
  <2> SUFFICES ASSUME step = "read"
               PROVE  /\ reading.ino \in 1 .. Len(inode')
                      /\ reading.data \in had'[nth]
                      /\ \A n \in settled' : n = nth \/ (Local /\ file'[n] = stat.ino) =>
                            reading = [ino |-> file'[n], data |-> Content(n)']
    BY <1>2 DEF ReadingOwn, Local
  <2>1. InBackup
    BY DEF InBackup
  <2>2. /\ reading.ino \in 1 .. Len(inode)
        /\ reading.data \in had[nth]
        /\ \A n \in settled : n = nth \/ (Local /\ file[n] = stat.ino) =>
              reading = [ino |-> file[n], data |-> Content(n)]
    BY DEF IInv, ReadingOwn
  <2>3. Len(inode) =< Len(inode') /\ Len(inode) \in Nat /\ Len(inode') \in Nat
    BY <1>1, FilesTyped DEF Touches
  <2>4. reading.ino \in 1 .. Len(inode')
    BY <2>2, <2>3
  <2> QED BY <1>2, <1>3, <1>4, <2>1, <2>2, <2>4
<1>7. LinkedOwn'
  <2>1. LinkedOwn
    BY DEF IInv
  <2>2. ASSUME NEW i \in DOMAIN linked
        PROVE  /\ \/ linked[i] = Torn
                  \/ \E m \in FileNames : i \in behind'[m] /\ linked[i] \in had'[m]
               /\ \A n \in settled' : file'[n] = i => linked[i] = Content(n)'
    <3>1. InBackup
      BY <2>2 DEF IInv, Noted, NoLinks
    <3>2. \A n \in settled' : file'[n] = i => linked[i] = Content(n)'
      BY <1>2, <2>1 DEF LinkedOwn
    <3>3. linked[i] = Torn \/ \E m \in FileNames : i \in behind[m] /\ linked[i] \in had[m]
      BY <2>1 DEF LinkedOwn
    <3> QED BY <1>4, <3>1, <3>2, <3>3
  <2> QED BY <1>2, <2>1, <2>2 DEF LinkedOwn
<1> QED BY <1>5, <1>6, <1>7

\* A change of the files keeps the invariant.
LEMMA TouchStep ==
    ASSUME IInv, NEW names \in SUBSET FileNames, Touches(names)
    PROVE  IInv'
<1>1. ReuseType /\ Noted /\ SnapsExact /\ EntriesOwn
  BY DEF IInv
<1> QED BY <1>1, TouchType, TouchNoted, TouchSnaps, TouchEntries, TouchAtHand DEF IInv

-----------------------------------------------------------------------------
(***************************************************************************)
(* The backup.                                                             *)
(***************************************************************************)
\* What stays while the backup only works on its own state.
FilesStay == UNCHANGED <<kind, clock, inode, file, changes, had, behind, settled>>

\* An entry with what is known of its name keeps the invariant; so does one of
\* an object that is noted as replaced.
LEMMA RecordStep ==
    ASSUME IInv, step \in {"list", "stat", "decide", "read"}, NEW e \in Entry, Record(e),
           LinkedOwn',
           mixed \subseteq mixed', mixed' \subseteq FileNames, kind # "s3" => mixed' = mixed,
           e.is /\ nth \notin mixed' =>
                   /\ Known(nth, e.data)
                   /\ nth \in settled => e.data = Content(nth)
                   /\ kind = "s3" => e.mtime = e.data
    PROVE  IInv'
<1>1. ReuseType /\ Noted /\ SnapsExact /\ EntriesOwn
  BY DEF IInv
<1>2. FilesStay /\ UNCHANGED <<snaps, start>>
  BY DEF FilesStay, Record, ToNextName, outside
<1>3. /\ items' = [items EXCEPT ![nth] = NoItem] /\ stat' = NoStat /\ reading' = NotReading
      /\ entries' = [entries EXCEPT ![nth] = e]
      /\ step' = IF nth = FileCount THEN "commit" ELSE IF Local THEN "list" ELSE "decide"
      /\ nth' = IF nth = FileCount THEN nth ELSE nth + 1
  BY DEF Record, ToNextName
<1>4. nth \in FileNames /\ FileCount \in Nat /\ nth \in 1 .. FileCount
  BY <1>1, GrainAssumption DEF ReuseType, FileNames
<1>5. ReuseType'
  <2>1. NoItem \in [size : Nat, etag : Nat] /\ NoStat \in [mtime : Nat, ctime : Nat, ino : Nat, nlink : Nat]
        /\ NotReading \in [ino : Nat, data : Nat]
    BY DEF NoItem, NoStat, NotReading
  <2>2. items' \in [FileNames -> [size : Nat, etag : Nat]] /\ entries' \in [FileNames -> Entry]
    BY <1>1, <1>3, <2>1 DEF ReuseType
  <2>3. nth' \in FileNames
    BY <1>3, <1>4 DEF FileNames
  <2>4. step' \in {"idle", "list", "stat", "decide", "read", "commit"}
    BY <1>3
  <2> QED BY <1>1, <1>2, <1>3, <2>1, <2>2, <2>3, <2>4 DEF ReuseType, FilesStay
<1>6. InBackup /\ InBackup'
  BY <1>3 DEF InBackup
<1>7. Noted'
  <2>1. step' \in {"list", "stat"} => Local'
    BY <1>2, <1>3 DEF FilesStay, Local
  <2>2. step' # "read"
    BY <1>3
  <2> QED BY <1>1, <1>2, <1>6, <2>1, <2>2 DEF Noted, FilesStay, Local, Content, Ctime
<1>8. SnapsExact'
  BY <1>1, <1>2 DEF SnapsExact, FilesStay, Local, Content, Ctime
<1>9. EntriesOwn'
  <2>1. ASSUME NEW n \in FileNames \ mixed', entries'[n].is
        PROVE  /\ Known(n, entries'[n].data)
               /\ n \in settled => entries'[n].data = Content(n)
               /\ kind = "s3" => entries'[n].mtime = entries'[n].data
    <3>1. CASE n = nth
      <4>1. entries'[n] = e
        BY <1>1, <1>3, <3>1 DEF ReuseType
      <4> QED BY <2>1, <3>1, <4>1
    <3>2. CASE n # nth
      <4>1. entries'[n] = entries[n] /\ n \in FileNames \ mixed
        BY <1>1, <1>3, <2>1, <3>2 DEF ReuseType
      <4> QED BY <1>1, <1>6, <2>1, <4>1 DEF EntriesOwn
    <3> QED BY <3>1, <3>2
  <2>2. ASSUME kind = "s3", step' = "decide", NEW n \in nth' .. FileCount
        PROVE  /\ items'[n].etag \in had[n]
               /\ n \in settled => items'[n].etag = Content(n)
    <3>1. nth' = nth + 1 /\ n \in nth .. FileCount /\ n # nth /\ n \in FileNames
      BY <1>3, <1>4, <2>2 DEF FileNames
    <3>2. items'[n] = items[n]
      BY <1>1, <1>3, <3>1 DEF ReuseType
    <3>3. step = "decide"
      BY <1>1, <2>2 DEF Noted, Local
    <3> QED BY <1>1, <2>2, <3>1, <3>2, <3>3 DEF EntriesOwn
  <2>3. \A n \in FileNames : /\ Known(n, entries'[n].data) <=> Known(n, entries[n].data)'
                             /\ Content(n)' = Content(n)
    BY <1>2 DEF FilesStay, Known, Kin, Content
  <2>4. \A n \in nth' .. FileCount : n \in FileNames
    BY <1>5, <1>4 DEF ReuseType, FileNames
  <2> QED BY <1>2, <1>6, <2>1, <2>2, <2>3, <2>4 DEF EntriesOwn, FilesStay
<1>10. StatOwn'
  BY <1>2, <1>3 DEF StatOwn, FilesStay, Local
<1>11. ReadingOwn'
  BY <1>3 DEF ReadingOwn
<1> QED BY <1>5, <1>7, <1>8, <1>9, <1>10, <1>11 DEF IInv

\* The table of hard links keeps what it has.
LEMMA LinkedStays ==
    ASSUME LinkedOwn, FilesStay, UNCHANGED linked
    PROVE  LinkedOwn'
  BY DEF LinkedOwn, FilesStay, Content

\* Where the parent has an entry there is a parent.
LEMMA ParentFacts ==
    ASSUME IInv, ParentEntry.is
    PROVE  /\ snaps # <<>> /\ Len(snaps) \in 1 .. Len(snaps) /\ ParentEntry = Parent.entries[nth]
           /\ ParentEntry \in Entry /\ Parent.start \in Nat
<1>1. snaps # <<>> /\ ParentEntry = Parent.entries[nth]
  BY DEF ParentEntry, NoEntry
<1>2. snaps \in Seq([start : Nat, entries : [FileNames -> Entry]]) /\ nth \in FileNames
  BY DEF IInv, ReuseType
<1>3. Len(snaps) \in 1 .. Len(snaps)
  BY <1>1, <1>2, EmptySeq
<1>4. Parent \in [start : Nat, entries : [FileNames -> Entry]]
  BY <1>2, <1>3, ElementOfSeq DEF Parent
<1> QED BY <1>1, <1>2, <1>3, <1>4

\* Reuse: the entry of the parent is what the name had when it was looked at.
LEMMA ReuseStep == ASSUME IInv, Reuse PROVE IInv'
<1>1. step = "decide" /\ Proven /\ UNCHANGED <<linked, mixed>> /\ mixed \subseteq FileNames
  BY DEF Reuse, IInv, ReuseType
<1>2. ParentEntry.is
  BY <1>1 DEF Proven
<1>3. ReuseType /\ EntriesOwn /\ SnapsExact
  BY DEF IInv
<1>4. InBackup /\ nth \in FileNames
  BY <1>1, <1>3 DEF InBackup, ReuseType
<1> DEFINE p == ParentEntry
           e == IF Local THEN RecordOf(p.data, p.size) ELSE p
<1>5. Record(e)
  BY DEF Reuse
<1>6. FilesStay
  BY DEF Reuse, Record, ToNextName, outside, FilesStay
<1>7. LinkedOwn'
  BY <1>1, <1>6, LinkedStays DEF IInv
<1>8. p \in Entry
  BY <1>2, ParentFacts
<1>9. e \in Entry /\ e.data = p.data
  BY <1>3, <1>8 DEF RecordOf, ReuseType, Entry
<1>10. nth \in Kin(nth) \/ behind[nth] = {}
  BY <1>4 DEF Kin
<1>11. behind[nth] # {}
  BY <1>4 DEF IInv, Noted
<1>12. CASE Local
  <2>1. stat.ctime < Parent.start
    BY <1>1, <1>12 DEF Proven, Unchanged, Local
  <2>2. p.data \in had[nth] /\ (nth \in settled => p.data = Content(nth))
    BY <1>1, <1>2, <1>12, <2>1 DEF IInv, StatOwn
  <2>3. kind # "s3"
    BY <1>12 DEF Local
  <2>4. Known(nth, e.data)
    BY <1>9, <1>10, <1>11, <2>2 DEF Known
  <2> HIDE DEF e, p
  <2> QED BY <1>1, <1>5, <1>7, <1>9, <2>2, <2>3, <2>4, RecordStep
<1>13. CASE ~Local
  <2>1. kind = "s3" /\ p.mtime = items[nth].etag
    BY <1>1, <1>13 DEF Proven, Local
  <2>2. nth \in nth .. FileCount
    BY <1>4, GrainAssumption DEF FileNames
  <2>3. /\ items[nth].etag \in had[nth]
        /\ nth \in settled => items[nth].etag = Content(nth)
    BY <1>1, <1>3, <2>1, <2>2 DEF EntriesOwn
  <2>4. nth \notin mixed => p.mtime = p.data
    BY <1>2, <1>3, <1>4, <2>1, ParentFacts DEF SnapsExact, Parent
  <2>5. e = p
    BY <1>13
  <2>6. nth \notin mixed => Known(nth, e.data)
    BY <1>9, <1>10, <1>11, <2>1, <2>3, <2>4 DEF Known
  <2> HIDE DEF e, p
  <2> QED BY <1>1, <1>5, <1>7, <1>9, <2>1, <2>3, <2>4, <2>5, <2>6, RecordStep
<1> QED BY <1>12, <1>13

\* HardLink: what has been read under a file this name has been a name of.
LEMMA HardLinkStep == ASSUME IInv, HardLink PROVE IInv'
<1>1. /\ step = "decide" /\ Local /\ stat.ino \in DOMAIN linked
      /\ UNCHANGED <<linked, mixed>> /\ mixed \subseteq FileNames
  BY DEF HardLink, LinkKnown, IsLinked, Key, IInv, ReuseType
<1> DEFINE data == linked[stat.ino]
           e == RecordOf(data, Size(data))
<1>2. Record(e)
  BY DEF HardLink, Key
<1>3. FilesStay
  BY DEF HardLink, Record, ToNextName, outside, FilesStay
<1>4. LinkedOwn'
  BY <1>1, <1>3, LinkedStays DEF IInv
<1>5. ReuseType /\ nth \in FileNames /\ InBackup
  BY <1>1 DEF IInv, ReuseType, InBackup
<1>6. data \in Nat
  BY <1>1 DEF IInv, LinkedOwn
<1>7. e \in Entry /\ e.data = data
  BY <1>5, <1>6 DEF RecordOf, ReuseType, Entry, Size
<1>8. stat.ino \in behind[nth] /\ (nth \in settled => file[nth] = stat.ino)
  BY <1>1 DEF IInv, StatOwn
<1>9. nth \in settled => data = Content(nth)
  BY <1>1, <1>8 DEF IInv, LinkedOwn
<1>10. Known(nth, data)
  <2>1. CASE data = Torn
    <3>1. Content(nth) # Torn
      BY <1>5, FilesTyped DEF Content, Torn
    <3> QED BY <1>9, <2>1, <3>1 DEF Known
  <2>2. CASE \E m \in FileNames : stat.ino \in behind[m] /\ data \in had[m]
    BY <1>8, <2>2 DEF Known, Kin
  <2> QED BY <1>1, <2>1, <2>2 DEF IInv, LinkedOwn
<1>11. kind # "s3"
  BY <1>1 DEF Local
<1> HIDE DEF e, data
<1> QED BY <1>1, <1>2, <1>4, <1>7, <1>9, <1>10, <1>11, RecordStep

\* Skip: there is no entry.
LEMMA SkipStep == ASSUME IInv, Skip PROVE IInv'
<1>1. /\ step \in {"list", "stat", "decide", "read"} /\ Record(NoEntry)
      /\ UNCHANGED <<linked, mixed>> /\ mixed \subseteq FileNames
  BY DEF Skip, IInv, ReuseType
<1>2. LinkedOwn'
  BY <1>1, LinkedStays DEF Record, ToNextName, outside, FilesStay, IInv
<1>3. NoEntry \in Entry /\ ~NoEntry.is
  BY DEF NoEntry, Entry
<1> QED BY <1>1, <1>2, <1>3, RecordStep

\* ReadOn: what was read is what the file had, or torn.
LEMMA ReadOnStep == ASSUME IInv, ReadOn PROVE IInv'
<1>1. /\ ReuseType /\ nth \in FileNames /\ InBackup /\ step = "read"
      /\ UNCHANGED mixed /\ mixed \subseteq FileNames
  BY DEF IInv, ReuseType, InBackup, ReadOn
<1> DEFINE data == IF inode[reading.ino].data = reading.data THEN reading.data ELSE Torn
           e == RecordOf(data, Size(data))
<1>2. /\ Record(e)
      /\ linked' = IF IsLinked THEN [k \in DOMAIN linked \cup {Key} |-> IF k = Key THEN data ELSE linked[k]]
                   ELSE linked
  BY DEF ReadOn
<1>3. data \in Nat
  BY <1>1 DEF ReuseType, Torn
<1>4. e \in Entry /\ e.data = data
  BY <1>1, <1>3 DEF RecordOf, ReuseType, Entry, Size
<1>5. /\ reading.ino \in 1 .. Len(inode)
      /\ reading.data \in had[nth]
      /\ \A n \in settled : n = nth \/ (Local /\ file[n] = stat.ino) =>
            reading = [ino |-> file[n], data |-> Content(n)]
  BY <1>1 DEF IInv, ReadingOwn
<1>6. \A n \in settled : n = nth \/ (Local /\ file[n] = stat.ino) => data = Content(n)
  BY <1>5 DEF Content
<1>7. data = Torn \/ data \in had[nth]
  BY <1>5
<1>8. file[nth] \in behind[nth]
  BY <1>1 DEF IInv, Noted
<1>9. Known(nth, data)
  <2>1. CASE data = Torn
    <3>1. Content(nth) # Torn
      BY <1>1, FilesTyped DEF Content, Torn
    <3> QED BY <1>6, <2>1, <3>1 DEF Known
  <2>2. CASE data \in had[nth]
    BY <1>1, <1>8, <2>2 DEF Known, Kin
  <2> QED BY <1>7, <2>1, <2>2
<1>10. kind # "s3"
  BY <1>1 DEF IInv, Noted
<1>11. FilesStay
  BY <1>2 DEF Record, ToNextName, outside, FilesStay
<1> HIDE DEF data
<1>12. LinkedOwn'
  <2>1. LinkedOwn
    BY DEF IInv
  <2>2. CASE ~IsLinked
    BY <1>2, <1>11, <2>1, <2>2, LinkedStays
  <2>3. CASE IsLinked
    <3>1. Local /\ stat.ino \in behind[nth]
      BY <1>1, <2>3 DEF IsLinked, IInv, StatOwn
    <3>2. linked' = [k \in DOMAIN linked \cup {stat.ino} |-> IF k = stat.ino THEN data ELSE linked[k]]
      BY <1>2, <2>3 DEF Key
    <3>3. linked' \in [DOMAIN linked' -> Nat]
      BY <1>3, <2>1, <3>2 DEF LinkedOwn
    <3>4. ASSUME NEW i \in DOMAIN linked'
          PROVE  /\ linked'[i] = Torn \/ \E m \in FileNames : i \in behind[m] /\ linked'[i] \in had[m]
                 /\ \A n \in settled : file[n] = i => linked'[i] = Content(n)
      <4>1. CASE i = stat.ino
        <5>1. linked'[i] = data
          BY <3>2, <4>1
        <5> QED BY <1>1, <1>6, <1>7, <3>1, <4>1, <5>1
      <4>2. CASE i # stat.ino
        <5>1. i \in DOMAIN linked /\ linked'[i] = linked[i]
          BY <3>2, <4>2
        <5> QED BY <2>1, <5>1 DEF LinkedOwn
      <4> QED BY <4>1, <4>2
    <3> QED BY <1>11, <3>3, <3>4 DEF LinkedOwn, FilesStay, Content
  <2> QED BY <2>2, <2>3
<1> HIDE DEF e
<1> QED BY <1>1, <1>2, <1>4, <1>6, <1>9, <1>10, <1>12, RecordStep

\* Read: an object is there as a whole, and has the fingerprint of the listing or
\* is noted as replaced; the reading of a file begins.
LEMMA ReadStep == ASSUME IInv, Read PROVE IInv'
<1>1. ReuseType /\ nth \in FileNames /\ InBackup /\ step = "decide" /\ UNCHANGED linked
  BY DEF IInv, ReuseType, InBackup, Read
<1>2. Content(nth) \in Nat \ {0} /\ Content(nth) \in had[nth] /\ file[nth] \in behind[nth]
  BY <1>1, FilesTyped DEF Content, IInv, Noted
<1>3. CASE kind = "s3"
  <2> DEFINE e == [NoEntry EXCEPT !.is = TRUE, !.data = Content(nth),
                                  !.size = Size(Content(nth)), !.mtime = items[nth].etag]
  <2>1. Record(e)
    BY <1>3 DEF Read
  <2>2. LinkedOwn'
    BY <1>1, <2>1, LinkedStays DEF Record, ToNextName, outside, FilesStay, IInv
  <2>3. items[nth].etag \in Nat
    BY <1>1 DEF ReuseType
  <2>4. e \in Entry /\ e.data = Content(nth) /\ e.mtime = items[nth].etag
    BY <1>2, <2>3 DEF NoEntry, Entry, Size
  <2>5. Known(nth, Content(nth))
    BY <1>1, <1>2 DEF Known, Kin
  <2>6. /\ mixed \subseteq mixed' /\ mixed' \subseteq FileNames
        /\ nth \notin mixed' => Content(nth) = items[nth].etag
    BY <1>1, <1>3 DEF Read, ReuseType
  <2> HIDE DEF e
  <2> QED BY <1>1, <1>2, <1>3, <2>1, <2>2, <2>4, <2>5, <2>6, RecordStep
<1>4. CASE kind # "s3"
  <2>1. /\ reading' = [ino |-> file[nth], data |-> Content(nth)] /\ step' = "read"
        /\ FilesStay /\ UNCHANGED <<snaps, nth, start, items, stat, entries, linked, mixed>>
    BY <1>4 DEF Read, outside, FilesStay
  <2>2. InBackup'
    BY <2>1 DEF InBackup
  <2>3. ReuseType'
    <3>1. reading' \in [ino : Nat, data : Nat]
      BY <1>1, <1>2, <2>1, FilesTyped
    <3> QED BY <1>1, <2>1, <3>1 DEF ReuseType, FilesStay
  <2>4. Noted'
    BY <1>1, <1>4, <2>1, <2>2 DEF IInv, Noted, FilesStay, Local, Content, Ctime
  <2>5. SnapsExact'
    BY <2>1 DEF IInv, SnapsExact, FilesStay, Local, Content, Ctime
  <2>6. EntriesOwn'
    BY <1>1, <1>4, <2>1, <2>2 DEF IInv, EntriesOwn, FilesStay, Known, Kin, Content, Parent
  <2>7. StatOwn'
    BY <1>1, <2>1 DEF IInv, StatOwn, FilesStay, Local, Parent, ParentEntry, Content
  <2>8. ReadingOwn'
    <3>1. file[nth] \in 1 .. Len(inode)
      BY <1>1, FilesTyped
    <3>2. ASSUME NEW n \in settled, n = nth \/ (Local /\ file[n] = stat.ino)
          PROVE  file[n] = file[nth] /\ Content(n) = Content(nth)
      BY <1>1, <3>2 DEF IInv, StatOwn, Content
    <3> QED BY <1>2, <2>1, <3>1, <3>2 DEF ReadingOwn, FilesStay, Content, Local
  <2>9. LinkedOwn'
    BY <2>1, LinkedStays DEF IInv
  <2> QED BY <2>3, <2>4, <2>5, <2>6, <2>7, <2>8, <2>9 DEF IInv
<1> QED BY <1>3, <1>4

\* List and Stat: the name is looked at.
LEMMA LookStep == ASSUME IInv, List \/ Stat PROVE IInv'
<1>1. ReuseType /\ nth \in FileNames /\ InBackup /\ Local /\ kind # "s3"
  BY DEF IInv, ReuseType, InBackup, List, Stat, Noted, Local
<1>2. FilesStay /\ UNCHANGED <<snaps, nth, start, reading, linked, entries, mixed>>
  BY DEF List, Stat, outside, FilesStay
<1>3. step' \in {"stat", "decide"} /\ InBackup'
  BY DEF List, Stat, InBackup
<1>4. file[nth] \in 1 .. Len(inode) /\ Content(nth) \in Nat /\ Ctime(nth) \in Nat
  BY <1>1, FilesTyped DEF Content, Ctime
<1>5. ReuseType'
  <2>1. CASE List
    <3>1. Listed(nth) \in [size : Nat, etag : Nat]
      BY <1>4 DEF Listed, Size
    <3> QED BY <1>1, <1>2, <1>3, <2>1, <3>1 DEF List, ReuseType, FilesStay
  <2>2. CASE Stat
    <3>1. inode[file[nth]] \in DiskFile
      BY <1>1, <1>4, FilesTyped
    <3>2. Nlink(file[nth]) \in Nat
      <4>1. IsFiniteSet({n \in FileNames : file[n] = file[nth]})
        <5>1. IsFiniteSet(FileNames)
          BY FS_Interval, GrainAssumption DEF FileNames
        <5> QED BY <5>1, FS_Subset
      <4> QED BY <4>1, FS_CardinalityType DEF Nlink
    <3>3. stat' \in [mtime : Nat, ctime : Nat, ino : Nat, nlink : Nat]
      BY <1>4, <2>2, <3>1, <3>2 DEF Stat, DiskFile
    <3> QED BY <1>1, <1>2, <1>3, <2>2, <3>3 DEF Stat, ReuseType, FilesStay
  <2> QED BY <2>1, <2>2
<1>6. Noted'
  BY <1>1, <1>2, <1>3 DEF IInv, Noted, FilesStay, Local, Content, Ctime
<1>7. SnapsExact'
  BY <1>2 DEF IInv, SnapsExact, FilesStay, Local, Content, Ctime
<1>8. EntriesOwn'
  BY <1>1, <1>2, <1>3 DEF IInv, EntriesOwn, FilesStay, Known, Kin, Content, Parent
<1>9. StatOwn'
  <2>1. CASE List
    BY <2>1 DEF List, StatOwn
  <2>2. CASE Stat
    <3>1. stat'.ino = file[nth] /\ stat'.ctime = Ctime(nth)
      BY <2>2 DEF Stat, Ctime
    <3>2. file[nth] \in behind[nth] /\ Content(nth) \in had[nth]
      BY <1>1 DEF IInv, Noted
    <3>3. ParentEntry.is /\ Ctime(nth) < Parent.start => ParentEntry.data = Content(nth)
      BY <1>1, ParentFacts DEF IInv, SnapsExact, Parent
    <3> QED BY <1>2, <3>1, <3>2, <3>3 DEF StatOwn, FilesStay, Local, Parent, ParentEntry, Content
  <2> QED BY <2>1, <2>2
<1>10. ReadingOwn'
  BY <1>3 DEF ReadingOwn
<1>11. LinkedOwn'
  BY <1>2, LinkedStays DEF IInv
<1> QED BY <1>5, <1>6, <1>7, <1>8, <1>9, <1>10, <1>11 DEF IInv

\* StartBackup: nothing is recorded, every name is settled.
LEMMA StartStep == ASSUME IInv, StartBackup PROVE IInv'
<1>1. ReuseType /\ Noted /\ SnapsExact /\ ~InBackup
  BY DEF IInv, StartBackup, InBackup
<1>2. /\ UNCHANGED <<kind, clock, inode, file, changes, snaps, reading, linked, mixed>>
      /\ step' = (IF Local THEN "list" ELSE "decide") /\ nth' = 1 /\ start' = clock
      /\ items' = [n \in FileNames |-> IF Local THEN NoItem ELSE Listed(n)]
      /\ stat' = NoStat /\ entries' = NothingRecorded
      /\ had' = [n \in FileNames |-> {Content(n)}] /\ behind' = [n \in FileNames |-> {file[n]}]
      /\ settled' = FileNames
  BY DEF StartBackup
<1>3. \A n \in FileNames : file[n] \in Nat /\ Content(n) \in Nat
  BY <1>1, FilesTyped DEF Content
<1>4. InBackup' /\ step' \in {"list", "decide"}
  BY <1>2 DEF InBackup
<1>5. ReuseType'
  <2>1. NoItem \in [size : Nat, etag : Nat] /\ NoStat \in [mtime : Nat, ctime : Nat, ino : Nat, nlink : Nat]
        /\ NoEntry \in Entry
    BY DEF NoItem, NoStat, NoEntry, Entry
  <2>2. items' \in [FileNames -> [size : Nat, etag : Nat]]
    BY <1>2, <1>3, <2>1 DEF Listed, Size
  <2>3. entries' \in [FileNames -> Entry]
    BY <1>2, <2>1 DEF NothingRecorded
  <2>4. had' \in [FileNames -> SUBSET Nat] /\ behind' \in [FileNames -> SUBSET Nat]
    BY <1>2, <1>3
  <2>5. nth' \in FileNames
    BY <1>2, GrainAssumption DEF FileNames
  <2> QED BY <1>1, <1>2, <1>4, <2>1, <2>2, <2>3, <2>4, <2>5 DEF ReuseType
<1>6. Noted'
  BY <1>1, <1>2, <1>4 DEF Noted, Local, Content, ReuseType
<1>7. SnapsExact'
  BY <1>1, <1>2 DEF SnapsExact, Local, Content, Ctime
<1>8. EntriesOwn'
  <2>1. \A n \in FileNames : ~entries'[n].is
    BY <1>2 DEF NothingRecorded, NoEntry
  <2>2. \A n \in FileNames : Content(n)' = Content(n)
    BY <1>2 DEF Content
  <2>3. ASSUME kind = "s3", NEW n \in nth' .. FileCount
        PROVE  items'[n].etag \in had'[n] /\ items'[n].etag = Content(n)'
    <3>1. n \in FileNames
      BY <1>2, <2>3 DEF FileNames
    <3> QED BY <1>2, <2>2, <2>3, <3>1 DEF Local, Listed
  <2> QED BY <1>2, <2>1, <2>3 DEF EntriesOwn
<1>9. StatOwn'
  BY <1>2 DEF StatOwn, Local
<1>10. ReadingOwn'
  BY <1>4 DEF ReadingOwn
<1>11. LinkedOwn'
  <2>1. linked' = NoLinks
    BY <1>1, <1>2 DEF Noted
  <2> QED BY <2>1 DEF LinkedOwn, NoLinks
<1> QED BY <1>5, <1>6, <1>7, <1>8, <1>9, <1>10, <1>11 DEF IInv

\* The backup is over; its snapshot, if there is one, is exact.
LEMMA EndStep == ASSUME IInv, CommitEntries \/ Abort PROVE IInv'
<1>1. ReuseType /\ Noted /\ SnapsExact /\ EntriesOwn /\ InBackup
  BY DEF IInv, CommitEntries, Abort, InBackup
<1>2. /\ UNCHANGED <<kind, clock, inode, file, changes, mixed>>
      /\ step' = "idle" /\ nth' = 1 /\ start' = 0
      /\ items' = [n \in FileNames |-> NoItem] /\ stat' = NoStat /\ reading' = NotReading
      /\ linked' = NoLinks /\ entries' = NothingRecorded
      /\ had' = [n \in FileNames |-> {}] /\ behind' = [n \in FileNames |-> {}] /\ settled' = {}
  BY DEF CommitEntries, Abort, BackupEnded
<1> DEFINE snap == [start |-> start, entries |-> entries]
           Snap == [start : Nat, entries : [FileNames -> Entry]]
<1>3. snaps' = snaps \/ snaps' = Append(snaps, snap)
  BY DEF CommitEntries, Abort
<1>4. snap \in Snap /\ snaps \in Seq(Snap)
  BY <1>1 DEF ReuseType
<1>5. ~InBackup'
  BY <1>2 DEF InBackup
<1>6. ReuseType'
  <2>1. NoItem \in [size : Nat, etag : Nat] /\ NoStat \in [mtime : Nat, ctime : Nat, ino : Nat, nlink : Nat]
        /\ NoEntry \in Entry /\ NotReading \in [ino : Nat, data : Nat]
    BY DEF NoItem, NoStat, NoEntry, Entry, NotReading
  <2>2. entries' \in [FileNames -> Entry] /\ items' \in [FileNames -> [size : Nat, etag : Nat]]
    BY <1>2, <2>1 DEF NothingRecorded
  <2>3. had' \in [FileNames -> SUBSET Nat] /\ behind' \in [FileNames -> SUBSET Nat]
    BY <1>2
  <2>4. nth' \in FileNames
    BY <1>2, GrainAssumption DEF FileNames
  <2>5. snaps' \in Seq(Snap)
    <3> HIDE DEF snap, Snap
    <3> QED BY <1>3, <1>4
  <2> QED BY <1>1, <1>2, <2>1, <2>2, <2>3, <2>4, <2>5 DEF ReuseType
<1>7. Noted'
  BY <1>1, <1>2, <1>5 DEF Noted
<1>8. SnapsExact'
  <2>1. ASSUME NEW n \in FileNames, entries[n].is
        PROVE  /\ Local /\ Ctime(n) < start => entries[n].data = Content(n)
               /\ kind = "s3" /\ n \notin mixed => entries[n].mtime = entries[n].data
    <3>1. ASSUME Local, Ctime(n) < start PROVE n \in settled /\ n \notin mixed
      <4>1. Ctime(n) \in Nat /\ start \in Nat
        BY <1>1, FilesTyped DEF Ctime, ReuseType
      <4> QED BY <1>1, <3>1, <4>1 DEF Noted, Local
    <3> QED BY <1>1, <2>1, <3>1 DEF EntriesOwn
  <2>2. start =< clock
    BY <1>1 DEF Noted
  <2>3. ASSUME NEW s \in 1 .. Len(snaps')
        PROVE  (s \in 1 .. Len(snaps) /\ snaps'[s] = snaps[s]) \/ snaps'[s] = snap
    <3> HIDE DEF snap, Snap
    <3> QED BY <1>3, <1>4, <2>3
  <2> HIDE DEF snap
  <2>4. ASSUME NEW s \in 1 .. Len(snaps')
        PROVE  /\ snaps'[s].start =< clock
               /\ \A n \in FileNames : snaps'[s].entries[n].is =>
                     /\ Local /\ Ctime(n) < snaps'[s].start => snaps'[s].entries[n].data = Content(n)
                     /\ kind = "s3" /\ n \notin mixed =>
                           snaps'[s].entries[n].mtime = snaps'[s].entries[n].data
    <3>1. CASE s \in 1 .. Len(snaps) /\ snaps'[s] = snaps[s]
      BY <1>1, <3>1 DEF SnapsExact
    <3>2. CASE snaps'[s] = snap
      BY <2>1, <2>2, <3>2 DEF snap
    <3> QED BY <2>3, <3>1, <3>2
  <2> QED BY <1>2, <2>4 DEF SnapsExact, Local, Content, Ctime
<1>9. EntriesOwn'
  BY <1>2, <1>5 DEF EntriesOwn
<1>10. StatOwn' /\ ReadingOwn'
  BY <1>2 DEF StatOwn, ReadingOwn
<1>11. LinkedOwn'
  BY <1>2 DEF LinkedOwn, NoLinks
<1> QED BY <1>6, <1>7, <1>8, <1>9, <1>10, <1>11 DEF IInv

\* Time passes.
LEMMA PassesStep == ASSUME IInv, Passes PROVE IInv'
<1>1. clock' = clock + 1 /\ UNCHANGED <<kind, inode, file, changes, snaps, step, nth, start, items,
                                        stat, reading, linked, entries, had, behind, settled, mixed>>
  BY DEF Passes
<1>2. ReuseType /\ clock \in Nat /\ start \in Nat
  BY DEF IInv, ReuseType
<1>3. ReuseType'
  BY <1>1, <1>2 DEF ReuseType
<1>4. Noted'
  BY <1>1, <1>2 DEF IInv, Noted, InBackup, Local, Content, Ctime
<1>5. SnapsExact'
  <2> DEFINE Snap == [start : Nat, entries : [FileNames -> Entry]]
  <2>1. \A s \in 1 .. Len(snaps) : snaps[s].start \in Nat
    <3>1. snaps \in Seq(Snap)
      BY <1>2 DEF ReuseType
    <3>2. \A s \in 1 .. Len(snaps) : snaps[s] \in Snap
      BY <3>1, ElementOfSeq
    <3> QED BY <3>2
  <2> QED BY <1>1, <1>2, <2>1 DEF IInv, SnapsExact, Local, Content, Ctime
<1>6. EntriesOwn'
  BY <1>1 DEF IInv, EntriesOwn, InBackup, Known, Kin, Content, Parent
<1>7. StatOwn' /\ ReadingOwn' /\ LinkedOwn'
  BY <1>1 DEF IInv, StatOwn, ReadingOwn, LinkedOwn, Local, Content, Parent, ParentEntry
<1> QED BY <1>3, <1>4, <1>5, <1>6, <1>7 DEF IInv

-----------------------------------------------------------------------------
(***************************************************************************)
(* The theorems.                                                           *)
(***************************************************************************)
\* IInv holds at the start.
LEMMA ReuseInvInit == ReuseInit => IInv
<1> SUFFICES ASSUME ReuseInit PROVE IInv
  OBVIOUS
<1>1. /\ inode = [i \in FileNames |-> OnDisk(i, 0, 0)] /\ file \in [FileNames -> FileNames]
      /\ clock = 1 /\ changes = 0 /\ snaps = <<>> /\ step = "idle" /\ nth = 1 /\ start = 0
      /\ items = [n \in FileNames |-> NoItem] /\ stat = NoStat /\ reading = NotReading
      /\ linked = NoLinks /\ entries = NothingRecorded
      /\ had = [n \in FileNames |-> {}] /\ behind = [n \in FileNames |-> {}] /\ settled = {}
      /\ mixed = {}
  BY DEF ReuseInit
<1>2. FileCount \in Nat \ {0} /\ FileNames = 1 .. FileCount
  BY GrainAssumption DEF FileNames
<1>3. inode \in Seq(DiskFile) /\ Len(inode) = FileCount
  <2>1. \A i \in FileNames : OnDisk(i, 0, 0) \in DiskFile
    BY <1>2 DEF OnDisk, DiskFile
  <2> QED BY <1>1, <1>2, <2>1
<1>4. ReuseType
  <2>1. NoItem \in [size : Nat, etag : Nat] /\ NoStat \in [mtime : Nat, ctime : Nat, ino : Nat, nlink : Nat]
        /\ NoEntry \in Entry /\ NotReading \in [ino : Nat, data : Nat]
    BY DEF NoItem, NoStat, NoEntry, Entry, NotReading
  <2>2. entries \in [FileNames -> Entry] /\ items \in [FileNames -> [size : Nat, etag : Nat]]
    BY <1>1, <2>1 DEF NothingRecorded
  <2>3. had \in [FileNames -> SUBSET Nat] /\ behind \in [FileNames -> SUBSET Nat]
    BY <1>1
  <2>4. nth \in FileNames /\ file \in [FileNames -> 1 .. Len(inode)]
    BY <1>1, <1>2, <1>3
  <2> QED BY <1>1, <1>3, <2>1, <2>2, <2>3, <2>4 DEF ReuseType
<1>5. Noted
  <2>1. ~InBackup /\ linked = NoLinks /\ step \notin {"list", "stat", "read"}
    BY <1>1 DEF InBackup
  <2> QED BY <1>1, <2>1 DEF Noted
<1>6. SnapsExact
  BY <1>1 DEF SnapsExact
<1>7. EntriesOwn /\ StatOwn /\ ReadingOwn
  BY <1>1 DEF EntriesOwn, StatOwn, ReadingOwn, InBackup
<1>8. LinkedOwn
  BY <1>1 DEF LinkedOwn, NoLinks
<1> QED BY <1>4, <1>5, <1>6, <1>7, <1>8 DEF IInv

\* IInv is inductive, where stamps are as fine as the clock.
LEMMA ReuseInvStep == ASSUME Tick = 1 PROVE IInv /\ [ReuseNext]_reuseVars => IInv'
<1> SUFFICES ASSUME IInv, [ReuseNext]_reuseVars PROVE IInv'
  OBVIOUS
<1>1. CASE UNCHANGED reuseVars
  <2>1. UNCHANGED <<kind, clock, inode, file, changes, snaps, step, nth, start, items, stat, reading,
                    linked, entries, had, behind, settled, mixed>>
    BY <1>1 DEF reuseVars
  <2>2. ReuseType' /\ Noted' /\ SnapsExact'
    <3>1. ReuseType'
      BY <2>1 DEF IInv, ReuseType
    <3>2. Noted'
      BY <2>1 DEF IInv, Noted, InBackup, Local, Content, Ctime
    <3>3. SnapsExact'
      BY <2>1 DEF IInv, SnapsExact, Local, Content, Ctime
    <3> QED BY <3>1, <3>2, <3>3
  <2>3. EntriesOwn'
    BY <2>1 DEF IInv, EntriesOwn, InBackup, Known, Kin, Content, Parent
  <2>4. StatOwn' /\ ReadingOwn' /\ LinkedOwn'
    BY <2>1 DEF IInv, StatOwn, ReadingOwn, LinkedOwn, Local, Content, Parent, ParentEntry
  <2> QED BY <2>2, <2>3, <2>4 DEF IInv
<1>2. ReuseType /\ Noted
  BY DEF IInv
<1>3. ASSUME NEW n \in FileNames, WriteFile(n) \/ ReplaceFile(n) PROVE IInv'
  <2>1. Touches(Group(n)) /\ Group(n) \in SUBSET FileNames
    BY <1>2, <1>3, WriteTouches, ReplaceTouches DEF Group
  <2> QED BY <2>1, TouchStep
<1>4. ASSUME NEW n \in FileNames, NEW m \in FileNames, LinkFile(n, m) PROVE IInv'
  <2>1. Touches(Group(n) \cup Group(m)) /\ Group(n) \cup Group(m) \in SUBSET FileNames
    BY <1>2, <1>4, LinkTouches DEF Group
  <2> QED BY <2>1, TouchStep
<1> QED BY <1>1, <1>3, <1>4, PassesStep, StartStep, LookStep, ReuseStep, HardLinkStep, ReadStep,
           ReadOnStep, SkipStep, EndStep
        DEF ReuseNext

\* The invariant holds in every reachable state.
THEOREM ReuseInvariance == ASSUME Tick = 1 PROVE ReuseSpec => []IInv
<1>1. IInv /\ [ReuseNext]_reuseVars => IInv'
  BY ReuseInvStep
<1> QED BY <1>1, ReuseInvInit, PTL DEF ReuseSpec

\* A file that nothing happens to during a backup is recorded with what it has,
\* for any number of names, changes and backups, if the stamps of the file
\* system are as fine as the clock that the start of a backup is taken from.
\* Contents may come back.  An object that was once replaced between its listing
\* and its GET is excepted: there the code goes wrong (EtagProves).
THEOREM QuietFilesExact == ASSUME Tick = 1 PROVE ReuseSpec => []QuietFileExact
<1>1. IInv => QuietFileExact
  BY DEF IInv, EntriesOwn, QuietFileExact, Recorded
<1> QED BY <1>1, ReuseInvariance, PTL

\* What is recorded for any other name is of this backup: had by the name, or by
\* another that was a name of the same file, or torn.  Objects once replaced
\* between listing and GET are excepted, as above.
THEOREM NothingForeign == ASSUME Tick = 1 PROVE ReuseSpec => []ContentOfThisBackup
<1>1. IInv => ContentOfThisBackup
  BY DEF IInv, EntriesOwn, ContentOfThisBackup, Recorded, Known
<1> QED BY <1>1, ReuseInvariance, PTL
=============================================================================
