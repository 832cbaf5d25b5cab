-------------------------- MODULE IndexCacheProofs --------------------------
(***************************************************************************)
(* Proofs about IndexCache: the index never names a pack that is gone, a   *)
(* loaded index is complete, a cache nobody was killed in names only packs *)
(* that are listed, and a reader without a cache loses no chunk to prune.  *)
(*                                                                         *)
(* The cache needs one reader at a time: two that share its files lose     *)
(* records, which a run shows.  Without a cache any number may read.       *)
(***************************************************************************)
EXTENDS IndexCache, WellFoundedInduction, FiniteSetTheorems, SequenceTheorems, TLAPS

(* The cache is used by one process at a time, or not at all. *)
Alone == Modes = {"uncached"} \/ \A r, s \in Reader : r = s

Loading == {"manifest", "table", "fetch", "write", "rename", "reopen", "describe", "publish"}
Writing == {"write", "rename", "reopen", "describe", "publish"}
Opened == {"reopen", "describe", "publish"}

(* The blobs that some index blob ever written supersedes. *)
Sup == Superseded(Written)
Current == blobs \ Sup

(* What a reader may do. *)
ReaderMoves(r) ==
    \/ Open(r) \/ Refresh(r) \/ ListIndexes(r) \/ ReadManifest(r)
    \/ UseTable(r) \/ OpenTable(r)
    \/ FetchUncached(r) \/ FetchRebuild(r) \/ FetchMerge(r) \/ FetchFails(r)
    \/ WriteTable(r) \/ RenameTable(r) \/ ReopenTable(r)
    \/ WriteManifest(r) \/ RenameManifest(r) \/ WriteFails(r)
    \/ \E x \in Chunk : Miss(r, x)
    \/ RetryFound(r) \/ RetryLost(r) \/ MinutePasses(r) \/ Stop(r)

(* The repository. *)
RepoType ==
    /\ mode \in Modes /\ prunePc \in {"idle", "index", "delete"}
    /\ Written \subseteq Blob /\ DOMAIN supersedes = Written
    /\ \A b \in Written : lists[b] \in Seq(Pack) /\ supersedes[b] \subseteq Written
    /\ packs \subseteq Pack /\ blobs \subseteq Written /\ pruneSeen \subseteq Written
    /\ pruneDrop \in [packs : SUBSET packs, blobs : SUBSET Sup]

(* Of the superseded blobs that are left, the newest rewritten index       *)
(* supersedes every one; and prune knows them before it rewrites again.    *)
NewestRules ==
    /\ Sup \cap blobs = {} \/ \E s \in Current : Sup \cap blobs \subseteq supersedes[s]
    /\ prunePc = "index" => Sup \cap blobs \subseteq pruneSeen

(* No current blob names a pack that is gone, or that is about to go.      *)
IndexedStored ==
    /\ Listed(Current) \subseteq packs
    /\ prunePc = "index" => Listed(Current \ pruneSeen) \cap pruneDrop.packs = {}
    /\ prunePc # "index" => Listed(Current) \cap pruneDrop.packs = {}

(* What a table says of the blobs bs, or of the ones that count.           *)
Covers(t, bs) == Chunks(bs) \subseteq DOMAIN t
Names(t, bs) == Range(t) \subseteq Listed(bs)

(* The variables of the readers. *)
ReaderType ==
    /\ manifest \in (SUBSET Written) \cup {NoFile}
    /\ tmpManifest \in (SUBSET Written) \cup {NoFile}
    /\ table \in Table \cup {NoFile}
    /\ tmpTable \in Table \cup {NoFile}
    /\ pc \in [Reader -> Loading \cup {"idle", "list", "ready"}]
    /\ live \in [Reader -> SUBSET Written] /\ view \in [Reader -> SUBSET Written]
    /\ known \in [Reader -> (SUBSET Written) \cup {NoFile}]
    /\ base \in [Reader -> Table \cup {NoFile}]
    /\ index \in [Reader -> Table \cup {NoFile}]
    /\ want \in [Reader -> Chunk \cup {NoChunk}]
    /\ limited \in [Reader -> BOOLEAN]

(* A reader has what it goes on with. *)
Equipped(r) ==
    /\ pc[r] = "ready" => index[r] # NoFile
    /\ Cached /\ pc[r] = "fetch" => known[r] # NoFile
    /\ pc[r] \in Writing => known[r] # NoFile /\ base[r] # NoFile

(* Without a cache nothing of it is used. *)
Uncached(r) ==
    ~Cached =>
        /\ pc[r] \in {"idle", "list", "fetch", "ready"}
        /\ index[r] # NoFile => index[r] = Smallest(Effective(view[r]))

(* With the cache files the current blobs of the manifest are in the table. *)
FilesCover == manifest # NoFile /\ table # NoFile => Covers(table, manifest \cap Current)

(* What a load has in its hands is complete for what it knows; its listing *)
(* has every blob of the manifest that is still there.                     *)
LoadCovers(r) ==
    /\ pc[r] \in Loading /\ manifest # NoFile => manifest \cap blobs \subseteq live[r]
    /\ pc[r] = "manifest" /\ manifest # NoFile /\ table # NoFile
          => Covers(table, manifest \cap Effective(live[r]))
    /\ pc[r] = "table" /\ known[r] # NoFile /\ table # NoFile
          => Covers(table, known[r] \cap Effective(live[r]))
    /\ pc[r] \in {"fetch"} \cup Writing => known[r] \subseteq live[r]
    /\ pc[r] = "fetch" /\ base[r] # NoFile => Covers(base[r], known[r] \cap Effective(live[r]))
    /\ pc[r] \in Writing => Covers(base[r], Effective(live[r]))

(* The files a writer has written are the ones it finds. *)
OwnFiles(r) ==
    /\ pc[r] = "rename" => tmpTable = base[r]
    /\ pc[r] \in Opened => table = NoFile \/ table = base[r]
    /\ pc[r] = "publish" => tmpManifest = known[r]

(* Of a cache nobody was killed in: the table names only packs of blobs of *)
(* the manifest, and so does a load.                                       *)
FilesName(r) ==
    ~Faults =>
        /\ index[r] # NoFile => Names(index[r], view[r])
        /\ table # NoFile /\ pc[r] \notin Opened => manifest # NoFile /\ Names(table, manifest)
        /\ pc[r] \in Opened => table # NoFile
        /\ pc[r] = "table" => known[r] = manifest
        /\ pc[r] = "fetch" /\ base[r] # NoFile => Names(base[r], known[r])
        /\ pc[r] \in Writing => Names(base[r], known[r])

IndexCovers(r) == index[r] # NoFile => Covers(index[r], Effective(view[r]))

ReaderInv(r) == LoadCovers(r) /\ OwnFiles(r) /\ FilesName(r) /\ IndexCovers(r)
CacheInv == Cached => FilesCover /\ \A r \in Reader : ReaderInv(r)

RepoInv == RepoType /\ NewestRules /\ IndexedStored
ReadInv == ReaderType /\ \A r \in Reader : Equipped(r) /\ Uncached(r)
IInv == RepoInv /\ ReadInv

(***************************************************************************)
(* What a repository step may do to what has been written: nothing.        *)
(***************************************************************************)

(* What a set of blobs says does not change. *)
SaidStays ==
    \A bs \in SUBSET Written :
        /\ Listed(bs)' = Listed(bs) /\ Superseded(bs)' = Superseded(bs)
        /\ Chunks(bs)' = Chunks(bs) /\ Effective(bs)' = Effective(bs)

(* Blobs are written and deleted once, and superseded for good. *)
RepoMoves ==
    /\ SaidStays
    /\ Written \subseteq Written' /\ blobs' \cap Written \subseteq blobs
    /\ Current' \cap Written \subseteq Current
    /\ mode' = mode

(* A set of natural numbers that has a member has a least one. *)
LEMMA LeastOf == ASSUME NEW S \in SUBSET Nat, S # {} PROVE Min(S) \in S
<1>1. PICK x \in S : \A y \in S : ~ (<<y, x>> \in OpToRel(<, Nat))
  <2>1. IsWellFoundedOn(OpToRel(<, Nat), Nat)
    BY NatLessThanWellFounded
  <2> QED  BY <2>1, WFMin
<1>2. \A y \in S : x <= y
  <2> SUFFICES ASSUME NEW y \in S PROVE x <= y
    OBVIOUS
  <2>1. <<y, x>> \in Nat \X Nat
    OBVIOUS
  <2>2. ~ (y < x)
    BY <1>1, <2>1 DEF OpToRel
  <2> QED  BY <2>2
<1> QED  BY <1>2 DEF Min

(* The orders of a set of packs are sequences of its packs. *)
LEMMA OrderOf ==
    ASSUME NEW ps \in SUBSET Pack, NEW s \in InOrder(ps)
    PROVE  s \in Seq(Pack) /\ Range(s) = ps
<1>1. Cardinality(ps) \in Nat
  BY ReaderConstants, FS_Subset, FS_CardinalityType
<1>2. s \in [1 .. Cardinality(ps) -> Pack] /\ Range(s) = ps
  BY DEF InOrder
<1> QED  BY <1>1, <1>2

(* Sequences of packs one after the other name the packs of each. *)
LEMMA RangeOf ==
    ASSUME NEW s \in Seq(Pack), NEW t \in Seq(Pack)
    PROVE  s \o t \in Seq(Pack) /\ Range(s \o t) = Range(s) \cup Range(t)
<1>1. s \o t \in Seq(Pack) /\ Len(s \o t) = Len(s) + Len(t)
  OBVIOUS
<1>2. \A i \in 1 .. Len(s) + Len(t) :
         (s \o t)[i] = IF i <= Len(s) THEN s[i] ELSE t[i - Len(s)]
  OBVIOUS
<1>3. Range(s \o t) \subseteq Range(s) \cup Range(t)
  <2> SUFFICES ASSUME NEW i \in 1 .. Len(s) + Len(t) PROVE (s \o t)[i] \in Range(s) \cup Range(t)
    BY <1>1 DEF Range
  <2>1. CASE i <= Len(s)
    BY <1>2, <2>1 DEF Range
  <2>2. CASE ~ (i <= Len(s))
    <3>1. i - Len(s) \in 1 .. Len(t)
      BY <2>2
    <3> QED  BY <1>2, <2>2, <3>1 DEF Range
  <2> QED  BY <2>1, <2>2
<1>4. Range(s) \subseteq Range(s \o t)
  <2> SUFFICES ASSUME NEW i \in 1 .. Len(s) PROVE s[i] \in Range(s \o t)
    BY DEF Range
  <2>1. i \in 1 .. Len(s) + Len(t) /\ (s \o t)[i] = s[i]
    BY <1>2
  <2> QED  BY <1>1, <2>1 DEF Range
<1>5. Range(t) \subseteq Range(s \o t)
  <2> SUFFICES ASSUME NEW i \in 1 .. Len(t) PROVE t[i] \in Range(s \o t)
    <3>1. \A i \in DOMAIN t : i \in 1 .. Len(t)
      OBVIOUS
    <3> QED  BY <3>1 DEF Range
  <2>1. i + Len(s) \in 1 .. Len(s) + Len(t) /\ (s \o t)[i + Len(s)] = t[i]
    BY <1>2
  <2> QED  BY <1>1, <2>1 DEF Range
<1> QED  BY <1>1, <1>3, <1>4, <1>5

(* A blob that is written is new, and changes nothing the others say. *)
LEMMA Writes ==
    ASSUME RepoType, NEW b, NEW ps \in Seq(Pack), NEW old \in SUBSET Written, WriteIndex(b, ps, old)
    PROVE  /\ b \in Blob /\ b \notin Written
           /\ Written' = Written \cup {b} /\ DOMAIN supersedes' = Written'
           /\ blobs' = blobs \cup {b}
           /\ \A c \in Written : lists'[c] = lists[c] /\ supersedes'[c] = supersedes[c]
           /\ lists'[b] = ps /\ supersedes'[b] = old
           /\ SaidStays /\ Sup' = Sup \cup old
<1>1. b \in Blob /\ b \notin Written /\ blobs' = blobs \cup {b}
  BY DEF WriteIndex
<1>2. lists' = Over([c \in {b} |-> ps], lists) /\ supersedes' = Over([c \in {b} |-> old], supersedes)
  BY DEF WriteIndex
<1>3. /\ DOMAIN lists' = Written \cup {b} /\ lists'[b] = ps
      /\ \A c \in Written : lists'[c] = lists[c]
  BY <1>1, <1>2 DEF Written, Over
<1>4. /\ DOMAIN supersedes' = Written \cup {b} /\ supersedes'[b] = old
      /\ \A c \in Written : supersedes'[c] = supersedes[c]
  BY <1>1, <1>2 DEF Written, Over, RepoType
<1>5. Written' = Written \cup {b}
  BY <1>3 DEF Written
<1>6. ASSUME NEW bs \in SUBSET Written
      PROVE  /\ Listed(bs)' = Listed(bs) /\ Superseded(bs)' = Superseded(bs)
             /\ Chunks(bs)' = Chunks(bs) /\ Effective(bs)' = Effective(bs)
  <2>1. Listed(bs)' = Listed(bs)
    BY <1>3 DEF Listed
  <2>2. Superseded(bs)' = Superseded(bs)
    BY <1>4 DEF Superseded
  <2> QED  BY <2>1, <2>2 DEF Chunks, HeldBy, Effective
<1>7. Sup' = Sup \cup old
  BY <1>4, <1>5 DEF Sup, Superseded
<1> QED  BY <1>1, <1>3, <1>4, <1>5, <1>6, <1>7 DEF SaidStays

(***************************************************************************)
(* The repository side.                                                    *)
(***************************************************************************)

(* At first there is one pack and one blob, and nothing is superseded. *)
LEMMA RepoInit == Init => RepoInv
<1> SUFFICES ASSUME Init PROVE RepoInv
  OBVIOUS
<1>1. /\ DOMAIN lists = {FirstBlob} /\ DOMAIN supersedes = {FirstBlob}
      /\ lists[FirstBlob] = <<FirstPack>> /\ supersedes[FirstBlob] = {}
  BY DEF Init
<1>2. <<FirstPack>> \in Seq(Pack) /\ Range(<<FirstPack>>) = {FirstPack}
  BY ReaderConstants DEF Range
<1>3. Sup = {} /\ Listed(Current) = {FirstPack}
  BY <1>1, <1>2 DEF Init, Sup, Superseded, Written, Current, Listed
<1>4. RepoType
  BY <1>1, <1>2, ReaderConstants DEF Init, RepoType, Written
<1> QED  BY <1>3, <1>4 DEF Init, RepoInv, NewestRules, IndexedStored

(* When nothing is written and no blob comes, what is said stays.          *)
LEMMA Unwritten ==
    ASSUME UNCHANGED <<lists, supersedes>>
    PROVE  SaidStays /\ Written' = Written /\ Sup' = Sup /\ Current' = blobs' \ Sup
BY DEF SaidStays, Listed, Superseded, Chunks, HeldBy, Effective, Written, Sup, Current

(* A backup lists a pack that was not there. *)
LEMMA BackupKeeps ==
    ASSUME RepoInv, NEW p \in Pack, NEW b \in Blob, Backup(p, b)
    PROVE  RepoInv' /\ RepoMoves
<1> USE DEF RepoInv
<1>1. /\ p \notin packs /\ packs' = packs \cup {p} /\ WriteIndex(b, <<p>>, {})
      /\ UNCHANGED <<mode, prunePc, pruneSeen, pruneDrop>>
  BY DEF Backup
<1>2. <<p>> \in Seq(Pack) /\ Range(<<p>>) = {p}
  BY DEF Range
<1>3. /\ b \in Blob /\ b \notin Written
      /\ Written' = Written \cup {b} /\ DOMAIN supersedes' = Written'
      /\ blobs' = blobs \cup {b}
      /\ \A c \in Written : lists'[c] = lists[c] /\ supersedes'[c] = supersedes[c]
      /\ lists'[b] = <<p>> /\ supersedes'[b] = {}
      /\ SaidStays /\ Sup' = Sup \cup {}
  <2>1. {} \in SUBSET Written /\ RepoType
    OBVIOUS
  <2>2. WriteIndex(b, <<p>>, {})
    BY <1>1
  <2> QED  BY <1>2, <2>1, <2>2, Writes
<1>4. Sup \subseteq Written
  BY DEF Sup, Superseded, RepoType
<1>5. Current' = Current \cup {b}
  BY <1>3, <1>4 DEF Current
<1>6. Listed(Current)' = Listed(Current) \cup {p}
  BY <1>2, <1>3, <1>5 DEF Listed, Current, RepoType
<1>7. RepoType'
  BY <1>1, <1>2, <1>3 DEF RepoType
<1>8. NewestRules'
  BY <1>1, <1>3, <1>4, <1>5 DEF NewestRules, RepoType, Current
<1>9. IndexedStored'
  <2>1. Listed(Current \ pruneSeen)' \subseteq Listed(Current \ pruneSeen) \cup {p}
    BY <1>1, <1>2, <1>3, <1>5 DEF Listed, Current, RepoType
  <2> QED  BY <1>1, <1>6, <2>1 DEF IndexedStored, RepoType
<1>10. RepoMoves
  BY <1>1, <1>3, <1>5 DEF RepoMoves, RepoType
<1> QED  BY <1>7, <1>8, <1>9, <1>10

(* Prune knows every superseded blob it will leave behind. *)
LEMMA PlanKeeps ==
    ASSUME RepoInv, NEW drop \in SUBSET packs, PrunePlan(drop)
    PROVE  RepoInv' /\ RepoMoves
<1> USE DEF RepoInv
<1>1. /\ prunePc = "idle" /\ drop \subseteq IndexedPacks
      /\ prunePc' = "index" /\ pruneSeen' = blobs
      /\ pruneDrop' = [packs |-> drop, blobs |-> blobs \ Effective(blobs)]
      /\ UNCHANGED <<mode, packs, blobs, lists, supersedes>>
  BY DEF PrunePlan
<1>2. SaidStays /\ Written' = Written /\ Sup' = Sup /\ Current' = Current
  BY <1>1, Unwritten DEF Current
<1>3. blobs \ Effective(blobs) \subseteq Sup
  BY DEF Effective, Superseded, Sup, RepoType
<1>4. RepoType'
  BY <1>1, <1>2, <1>3 DEF RepoType
<1>5. NewestRules'
  BY <1>1, <1>2 DEF NewestRules
<1>6. IndexedStored'
  <2>1. Listed(Current \ pruneSeen)' = {}
    BY <1>1, <1>2 DEF Listed, Current
  <2>2. Listed(Current)' = Listed(Current)
    BY <1>1, <1>2 DEF Listed
  <2> QED  BY <1>1, <2>1, <2>2 DEF IndexedStored
<1> QED  BY <1>1, <1>2, <1>4, <1>5, <1>6 DEF RepoMoves

(* The rewritten index lists packs that stay, and supersedes what is left. *)
LEMMA RewriteKeeps ==
    ASSUME RepoInv, NEW b \in Blob, NEW new \in SUBSET Pack, NEW marked \in SUBSET packs,
           PruneIndex(b, new, marked)
    PROVE  RepoInv' /\ RepoMoves
<1> USE DEF RepoInv
<1> DEFINE kept == (Listed(Effective(pruneSeen)) \cap packs) \ pruneDrop.packs
<1>1. /\ prunePc = "index" /\ new \cap packs = {} /\ marked \subseteq kept
      /\ packs' = packs \cup new /\ prunePc' = "delete"
      /\ UNCHANGED <<mode, pruneSeen, pruneDrop>>
  BY DEF PruneIndex
<1>2. PICK n \in InOrder(new), k \in InOrder(kept \ marked), m \in InOrder(marked) :
         WriteIndex(b, n \o k \o m, pruneSeen)
  BY DEF PruneIndex
<1> DEFINE ps == n \o k \o m
<1>3. ps \in Seq(Pack) /\ Range(ps) = new \cup kept
  <2>1. kept \in SUBSET Pack /\ kept \ marked \in SUBSET Pack /\ marked \in SUBSET Pack
    BY DEF RepoType
  <2>2. /\ n \in Seq(Pack) /\ Range(n) = new
        /\ k \in Seq(Pack) /\ Range(k) = kept \ marked
        /\ m \in Seq(Pack) /\ Range(m) = marked
    BY <1>2, <2>1, OrderOf
  <2>3. n \o k \in Seq(Pack) /\ Range(n \o k) = new \cup (kept \ marked)
    BY <2>2, RangeOf
  <2>4. ps \in Seq(Pack) /\ Range(ps) = Range(n \o k) \cup Range(m)
    BY <2>2, <2>3, RangeOf
  <2> QED  BY <1>1, <2>2, <2>3, <2>4
<1>4. /\ b \in Blob /\ b \notin Written
      /\ Written' = Written \cup {b} /\ DOMAIN supersedes' = Written'
      /\ blobs' = blobs \cup {b}
      /\ \A c \in Written : lists'[c] = lists[c] /\ supersedes'[c] = supersedes[c]
      /\ lists'[b] = ps /\ supersedes'[b] = pruneSeen
      /\ SaidStays /\ Sup' = Sup \cup pruneSeen
  <2> HIDE DEF ps
  <2>1. pruneSeen \in SUBSET Written /\ RepoType
    BY DEF RepoType
  <2>2. WriteIndex(b, ps, pruneSeen)
    BY <1>2 DEF ps
  <2> QED  BY <1>3, <2>1, <2>2, Writes
<1> HIDE DEF ps
<1>5. Sup \subseteq Written
  BY DEF Sup, Superseded, RepoType
<1>6. Current' = (Current \ pruneSeen) \cup {b}
  BY <1>4, <1>5 DEF Current, RepoType
<1>7. Listed(Current)' \subseteq Listed(Current \ pruneSeen) \cup new \cup kept
  BY <1>3, <1>4, <1>6 DEF Listed, Current, RepoType
<1>8. RepoType'
  BY <1>1, <1>3, <1>4 DEF RepoType
<1>9. NewestRules'
  BY <1>1, <1>4, <1>5, <1>6 DEF NewestRules, RepoType, Current
<1>10. IndexedStored'
  <2>1. Listed(Current \ pruneSeen) \subseteq Listed(Current)
    BY DEF Listed
  <2> QED  BY <1>1, <1>7, <2>1 DEF IndexedStored, RepoType
<1>11. RepoMoves
  BY <1>1, <1>4, <1>6 DEF RepoMoves, RepoType
<1> QED  BY <1>8, <1>9, <1>10, <1>11

(* Prune goes on, or ends, without a change of the index. *)
LEMMA NoRewriteKeeps ==
    ASSUME RepoInv, PruneNoIndex \/ PruneEnds
    PROVE  RepoInv' /\ RepoMoves
<1> USE DEF RepoInv
<1>1. UNCHANGED <<mode, packs, blobs, lists, supersedes>>
  BY DEF PruneNoIndex, PruneEnds
<1>2. SaidStays /\ Written' = Written /\ Sup' = Sup /\ Current' = Current
  BY <1>1, Unwritten DEF Current
<1>3. Listed(Current)' = Listed(Current)
  BY <1>1, <1>2 DEF Listed
<1>4. /\ prunePc' # "index" /\ pruneSeen' \subseteq Written
      /\ pruneDrop'.packs = {} /\ pruneDrop' \in [packs : SUBSET packs, blobs : SUBSET Sup]
  BY DEF PruneNoIndex, PruneEnds, RepoType
<1>5. RepoType'
  <2>1. prunePc' \in {"idle", "index", "delete"}
    BY DEF PruneNoIndex, PruneEnds
  <2> QED  BY <1>1, <1>2, <1>4, <2>1 DEF RepoType
<1>6. NewestRules' /\ IndexedStored'
  BY <1>1, <1>2, <1>3, <1>4 DEF NewestRules, IndexedStored
<1> QED  BY <1>1, <1>2, <1>5, <1>6 DEF RepoMoves

(* What prune deletes is listed by no current blob, or is superseded. *)
LEMMA DeleteKeeps ==
    ASSUME RepoInv, PruneDelete
    PROVE  RepoInv' /\ RepoMoves
<1> USE DEF RepoInv
<1>1. prunePc = "delete" /\ UNCHANGED <<mode, lists, supersedes, prunePc, pruneSeen>>
  BY DEF PruneDelete
<1>2. SaidStays /\ Written' = Written /\ Sup' = Sup /\ Current' = blobs' \ Sup
  BY <1>1, Unwritten
<1>3. CASE \E p \in pruneDrop.packs :
              /\ packs' = packs \ {p} /\ blobs' = blobs
              /\ pruneDrop' = [packs |-> pruneDrop.packs \ {p}, blobs |-> pruneDrop.blobs]
  <2>1. PICK p \in pruneDrop.packs :
           /\ packs' = packs \ {p} /\ blobs' = blobs
           /\ pruneDrop' = [packs |-> pruneDrop.packs \ {p}, blobs |-> pruneDrop.blobs]
    BY <1>3
  <2>2. Current' = Current /\ Listed(Current)' = Listed(Current)
    BY <1>1, <1>2, <2>1 DEF Current, Listed
  <2>3. RepoType'
    BY <1>1, <1>2, <2>1 DEF RepoType
  <2>4. NewestRules' /\ IndexedStored'
    BY <1>1, <1>2, <2>1, <2>2 DEF RepoType, NewestRules, IndexedStored
  <2> QED
    BY <1>1, <1>2, <2>1, <2>2, <2>3, <2>4 DEF RepoMoves
<1>4. CASE \E d \in pruneDrop.blobs :
              /\ blobs' = blobs \ {d} /\ packs' = packs
              /\ pruneDrop' = [packs |-> pruneDrop.packs, blobs |-> pruneDrop.blobs \ {d}]
  <2>1. PICK d \in pruneDrop.blobs :
           /\ blobs' = blobs \ {d} /\ packs' = packs
           /\ pruneDrop' = [packs |-> pruneDrop.packs, blobs |-> pruneDrop.blobs \ {d}]
    BY <1>4
  <2>2. Current' = Current /\ Listed(Current)' = Listed(Current)
    BY <1>1, <1>2, <2>1 DEF Current, Listed, RepoType
  <2>3. RepoType'
    BY <1>1, <1>2, <2>1 DEF RepoType
  <2>4. NewestRules'
    BY <1>1, <1>2, <2>1, <2>2 DEF NewestRules
  <2>5. IndexedStored'
    BY <1>1, <2>1, <2>2 DEF IndexedStored
  <2> QED
    BY <1>1, <1>2, <2>1, <2>2, <2>3, <2>4, <2>5 DEF RepoMoves
<1>5. \/ \E p \in pruneDrop.packs :
            /\ packs' = packs \ {p} /\ blobs' = blobs
            /\ pruneDrop' = [packs |-> pruneDrop.packs \ {p}, blobs |-> pruneDrop.blobs]
      \/ \E d \in pruneDrop.blobs :
            /\ blobs' = blobs \ {d} /\ packs' = packs
            /\ pruneDrop' = [packs |-> pruneDrop.packs, blobs |-> pruneDrop.blobs \ {d}]
  BY DEF PruneDelete, RepoType
<1> QED  BY <1>3, <1>4, <1>5

(* A reader leaves the repository as it is. *)
LEMMA ReadersOnlyRead ==
    ASSUME NEW r \in Reader, ReaderMoves(r)
    PROVE  UNCHANGED <<mode, packs, blobs, lists, supersedes, prunePc, pruneSeen, pruneDrop>>
BY DEF ReaderMoves, repoVars, Open, Refresh, ListIndexes, ReadManifest, UseTable, OpenTable,
   FetchUncached, FetchRebuild, FetchMerge, FetchFails, LoadFails, WriteTable, RenameTable,
   ReopenTable, WriteManifest, RenameManifest, WriteFails, Miss, RetryFound, RetryLost,
   MinutePasses, Stop

(* A file of the cache is lost, or nothing happens. *)
FilesLost ==
    /\ UNCHANGED <<mode, packs, blobs, lists, supersedes, prunePc, pruneSeen, pruneDrop>>
    /\ UNCHANGED readerVars /\ UNCHANGED <<tmpManifest, tmpTable>>
    /\ Faults \/ UNCHANGED <<manifest, table>>
    /\ manifest' \in {manifest, NoFile} /\ table' \in {table, NoFile}

(* What happens to the repository. *)
RepoActs ==
    \/ \E p \in Pack, b \in Blob : Backup(p, b)
    \/ \E drop \in SUBSET packs : PrunePlan(drop)
    \/ \E b \in Blob, new \in SUBSET Pack, marked \in SUBSET packs : PruneIndex(b, new, marked)
    \/ PruneNoIndex \/ PruneDelete \/ PruneEnds

(* A step is one of the repository, of a file that is lost, or of a reader. *)
LEMMA StepKinds ==
    ASSUME [Next]_vars
    PROVE  \/ RepoActs /\ UNCHANGED <<fileVars, readerVars>>
           \/ FilesLost
           \/ \E r \in Reader : ReaderMoves(r)
<1>1. CASE RepoActs
  <2>1. UNCHANGED <<fileVars, readerVars>>
    BY <1>1 DEF RepoActs, Backup, PrunePlan, PruneIndex, PruneNoIndex, PruneDelete, PruneEnds
  <2> QED  BY <1>1, <2>1
<1>2. CASE LoseFile
  BY <1>2 DEF LoseFile, FilesLost, repoVars
<1>3. CASE UNCHANGED vars
  BY <1>3 DEF vars, FilesLost, repoVars, fileVars
<1>4. CASE \E r \in Reader : ReaderMoves(r)
  BY <1>4
<1> QED
  BY <1>1, <1>2, <1>3, <1>4 DEF Next, RepoActs, ReaderMoves

(* The repository side of every step. *)
LEMMA RepoStep == ASSUME RepoInv, [Next]_vars PROVE RepoInv' /\ RepoMoves
<1>1. ASSUME UNCHANGED <<mode, packs, blobs, lists, supersedes, prunePc, pruneSeen, pruneDrop>>
      PROVE  RepoInv' /\ RepoMoves
  <2>1. SaidStays /\ Written' = Written /\ Sup' = Sup /\ Current' = Current
    BY <1>1, Unwritten DEF Current
  <2>2. /\ Listed(Current)' = Listed(Current)
        /\ Listed(Current \ pruneSeen)' = Listed(Current \ pruneSeen)
    BY <1>1, <2>1 DEF Listed
  <2> QED
    BY <1>1, <2>1, <2>2 DEF RepoInv, RepoType, NewestRules, IndexedStored, RepoMoves
<1>2. CASE RepoActs
  BY <1>2, BackupKeeps, PlanKeeps, RewriteKeeps, NoRewriteKeeps, DeleteKeeps DEF RepoActs
<1>3. CASE FilesLost
  BY <1>1, <1>3 DEF FilesLost
<1>4. CASE \E r \in Reader : ReaderMoves(r)
  BY <1>1, <1>4, ReadersOnlyRead
<1> QED  BY <1>2, <1>3, <1>4, StepKinds

(***************************************************************************)
(* Tables.                                                                 *)
(***************************************************************************)

(* The records of some blobs are of all their chunks, in packs they list.  *)
LEMMA RecordsOf ==
    ASSUME RepoType, NEW bs \in SUBSET Written
    PROVE  /\ Records(bs) \in Table /\ DOMAIN Records(bs) = Chunks(bs)
           /\ Range(Records(bs)) \subseteq Listed(bs)
<1> DEFINE Of(x) == {c \in bs : x \in Chunks({c})}
           At(x) == {j \in DOMAIN lists[Min(Of(x))] : x \in Holds[lists[Min(Of(x))][j]]}
<1>1. \A b \in bs : lists[b] \in Seq(Pack)
  BY DEF RepoType
<1>2. ASSUME NEW x \in Chunks(bs)
      PROVE  Min(Of(x)) \in bs /\ Min(At(x)) \in DOMAIN lists[Min(Of(x))]
  <2>1. Of(x) \in SUBSET Nat
    BY ReaderConstants DEF RepoType
  <2>2. Of(x) # {}
    BY DEF Chunks, HeldBy, Listed
  <2>3. Min(Of(x)) \in Of(x)
    <3> HIDE DEF Of
    <3> QED  BY <2>1, <2>2, LeastOf
  <2>4. At(x) \in SUBSET Nat
    <3>1. lists[Min(Of(x))] \in Seq(Pack)
      BY <1>1, <2>3
    <3> HIDE DEF Of
    <3>2. DOMAIN lists[Min(Of(x))] \subseteq Nat
      BY <3>1
    <3> QED  BY <3>2
  <2>5. At(x) # {}
    <3>1. x \in Chunks({Min(Of(x))})
      BY <2>3
    <3> HIDE DEF Of
    <3>2. PICK p \in Range(lists[Min(Of(x))]) : x \in Holds[p]
      BY <3>1 DEF Chunks, HeldBy, Listed
    <3> QED  BY <3>2 DEF Range
  <2>6. Min(At(x)) \in At(x)
    <3> HIDE DEF At
    <3> QED  BY <2>4, <2>5, LeastOf
  <2> QED  BY <2>3, <2>6
<1>3. Records(bs) = [x \in Chunks(bs) |-> lists[Min(Of(x))][Min(At(x))]]
  BY DEF Records
<1> HIDE DEF Of, At
<1>4. \A x \in Chunks(bs) : Records(bs)[x] \in Listed(bs) /\ Records(bs)[x] \in Pack
  BY <1>1, <1>2, <1>3 DEF Listed, Range
<1>5. Chunks(bs) \subseteq Chunk
  BY <1>1, ReaderConstants DEF Chunks, HeldBy, Listed, Range
<1> QED  BY <1>3, <1>4, <1>5 DEF Table, Range

(* So are those of an index in memory. *)
LEMMA SmallestOf ==
    ASSUME RepoType, NEW bs \in SUBSET Written
    PROVE  /\ Smallest(bs) \in Table /\ DOMAIN Smallest(bs) = Chunks(bs)
           /\ Range(Smallest(bs)) \subseteq Listed(bs)
<1> DEFINE Of(x) == {p \in Listed(bs) : x \in Holds[p]}
<1>1. Listed(bs) \subseteq Pack
  BY DEF RepoType, Listed, Range
<1>2. ASSUME NEW x \in Chunks(bs) PROVE Min(Of(x)) \in Listed(bs)
  <2>1. Of(x) \in SUBSET Nat
    BY <1>1, ReaderConstants
  <2>2. Of(x) # {}
    BY DEF Chunks, HeldBy
  <2>3. Min(Of(x)) \in Of(x)
    <3> HIDE DEF Of
    <3> QED  BY <2>1, <2>2, LeastOf
  <2> QED  BY <2>3
<1>3. Smallest(bs) = [x \in Chunks(bs) |-> Min(Of(x))]
  BY DEF Smallest
<1> HIDE DEF Of
<1>4. Chunks(bs) \subseteq Chunk
  BY <1>1, ReaderConstants DEF Chunks, HeldBy
<1> QED  BY <1>1, <1>2, <1>3, <1>4 DEF Table, Range

(* Two tables over each other. *)
LEMMA OverOf ==
    ASSUME NEW f \in Table, NEW g \in Table
    PROVE  /\ Over(f, g) \in Table /\ DOMAIN Over(f, g) = DOMAIN f \cup DOMAIN g
           /\ Range(Over(f, g)) \subseteq Range(f) \cup Range(g)
<1>1. DOMAIN Over(f, g) = DOMAIN f \cup DOMAIN g
  BY DEF Over
<1>2. \A x \in DOMAIN Over(f, g) :
         Over(f, g)[x] = IF x \in DOMAIN f THEN f[x] ELSE g[x]
  BY DEF Over
<1>3. Range(Over(f, g)) \subseteq Range(f) \cup Range(g)
  BY <1>1, <1>2 DEF Range
<1>4. /\ DOMAIN f \subseteq Chunk /\ \A x \in DOMAIN f : f[x] \in Pack
      /\ DOMAIN g \subseteq Chunk /\ \A x \in DOMAIN g : g[x] \in Pack
  BY DEF Table
<1>5. Over(f, g) \in [DOMAIN f \cup DOMAIN g -> Pack]
  BY <1>4 DEF Over
<1> QED  BY <1>1, <1>3, <1>4, <1>5 DEF Table

(* Blobs of a part say a part. *)
LEMMA SaidByPart ==
    ASSUME NEW bs, NEW cs \in SUBSET bs
    PROVE  Chunks(cs) \subseteq Chunks(bs) /\ Listed(cs) \subseteq Listed(bs)
BY DEF Chunks, HeldBy, Listed

(* What two sets of blobs say is what their union says. *)
LEMMA SaidByBoth ==
    ASSUME NEW bs, NEW cs
    PROVE  /\ Chunks(bs \cup cs) = Chunks(bs) \cup Chunks(cs)
           /\ Listed(bs \cup cs) = Listed(bs) \cup Listed(cs)
BY DEF Chunks, HeldBy, Listed

(***************************************************************************)
(* The variables of the readers, with and without a cache.                 *)
(***************************************************************************)

(* At first no reader has anything. *)
LEMMA ReadInit == Init => ReadInv
<1> SUFFICES ASSUME Init PROVE ReadInv
  OBVIOUS
<1>1. ReaderType
  <2>1. /\ pc \in [Reader -> {"idle"}] /\ live \in [Reader -> {{}}] /\ view \in [Reader -> {{}}]
        /\ known \in [Reader -> {NoFile}] /\ base \in [Reader -> {NoFile}]
        /\ index \in [Reader -> {NoFile}] /\ want \in [Reader -> {NoChunk}]
        /\ limited \in [Reader -> {FALSE}]
    BY DEF Init
  <2> QED  BY <2>1 DEF Init, ReaderType
<1>2. \A r \in Reader : Equipped(r) /\ Uncached(r)
  BY DEF Init, Equipped, Uncached, Writing
<1> QED  BY <1>1, <1>2 DEF ReadInv

(* The other readers are as they were. *)
OthersStay(r) ==
    \A s \in Reader \ {r} :
        /\ pc'[s] = pc[s] /\ live'[s] = live[s] /\ known'[s] = known[s] /\ base'[s] = base[s]
        /\ index'[s] = index[s] /\ view'[s] = view[s]

(* A reader changes no variable of another. *)
LEMMA OneReaderMoves ==
    ASSUME ReaderType, NEW r \in Reader, ReaderMoves(r)
    PROVE  OthersStay(r)
<1>1. /\ pc \in [Reader -> Loading \cup {"idle", "list", "ready"}]
      /\ live \in [Reader -> SUBSET Written] /\ view \in [Reader -> SUBSET Written]
      /\ known \in [Reader -> (SUBSET Written) \cup {NoFile}]
      /\ base \in [Reader -> Table \cup {NoFile}] /\ index \in [Reader -> Table \cup {NoFile}]
  BY DEF ReaderType
<1>2. CASE Open(r) \/ Refresh(r) \/ ListIndexes(r) \/ ReadManifest(r)
  BY <1>1, <1>2 DEF Open, Refresh, ListIndexes, ReadManifest, OthersStay
<1>3. CASE UseTable(r) \/ OpenTable(r)
  BY <1>1, <1>3 DEF UseTable, OpenTable, Loaded, OthersStay
<1>4. CASE FetchUncached(r) \/ FetchRebuild(r)
  BY <1>1, <1>4 DEF FetchUncached, FetchRebuild, Loaded, OthersStay
<1>5. CASE FetchMerge(r)
  BY <1>1, <1>5 DEF FetchMerge, OthersStay
<1>6. CASE FetchFails(r) \/ WriteFails(r)
  BY <1>1, <1>6 DEF FetchFails, WriteFails, LoadFails, OthersStay
<1>7. CASE WriteTable(r) \/ RenameTable(r) \/ ReopenTable(r)
  BY <1>1, <1>7 DEF WriteTable, RenameTable, ReopenTable, OthersStay
<1>8. CASE WriteManifest(r) \/ RenameManifest(r)
  BY <1>1, <1>8 DEF WriteManifest, RenameManifest, Loaded, OthersStay
<1>9. CASE (\E x \in Chunk : Miss(r, x)) \/ RetryFound(r) \/ RetryLost(r) \/ MinutePasses(r)
  BY <1>1, <1>9 DEF Miss, RetryFound, RetryLost, MinutePasses, OthersStay
<1>10. CASE Stop(r)
  BY <1>1, <1>10 DEF Stop, OthersStay
<1> QED
  BY <1>2, <1>3, <1>4, <1>5, <1>6, <1>7, <1>8, <1>9, <1>10 DEF ReaderMoves

(* The variables of the readers keep their types. *)
LEMMA ReaderTypeStep ==
    ASSUME RepoInv, RepoMoves, ReaderType, \A r \in Reader : Equipped(r), [Next]_vars
    PROVE  ReaderType'
<1> DEFINE Pcs == Loading \cup {"idle", "list", "ready"}
<1>1. RepoType
  BY DEF RepoInv
<1>2. ASSUME NEW bs \in SUBSET Written PROVE Effective(bs) \in SUBSET Written
  BY <1>2 DEF Effective
<1>3. blobs \in SUBSET Written
  BY <1>1 DEF RepoType
<1>4. /\ manifest \in (SUBSET Written) \cup {NoFile} /\ tmpManifest \in (SUBSET Written) \cup {NoFile}
      /\ table \in Table \cup {NoFile} /\ tmpTable \in Table \cup {NoFile}
      /\ pc \in [Reader -> Pcs]
      /\ live \in [Reader -> SUBSET Written] /\ view \in [Reader -> SUBSET Written]
      /\ known \in [Reader -> (SUBSET Written) \cup {NoFile}]
      /\ base \in [Reader -> Table \cup {NoFile}]
      /\ index \in [Reader -> Table \cup {NoFile}]
      /\ want \in [Reader -> Chunk \cup {NoChunk}]
      /\ limited \in [Reader -> BOOLEAN]
  BY DEF ReaderType
<1>5. {"idle", "list", "ready", "manifest", "table", "fetch", "write", "rename", "reopen",
       "describe", "publish"} \subseteq Pcs
  BY DEF Loading
<1> HIDE DEF Pcs
<1>6. ASSUME UNCHANGED readerVars, UNCHANGED <<tmpManifest, tmpTable>>,
             manifest' \in {manifest, NoFile}, table' \in {table, NoFile}
      PROVE  ReaderType'
  <2>1. Written \subseteq Written'
    BY DEF RepoMoves
  <2>2. UNCHANGED <<pc, live, known, base, index, view, want, limited>>
    BY <1>6 DEF readerVars
  <2>3. /\ live' \in [Reader -> SUBSET Written'] /\ view' \in [Reader -> SUBSET Written']
        /\ known' \in [Reader -> (SUBSET Written') \cup {NoFile}]
    BY <1>4, <2>1, <2>2
  <2> QED  BY <1>4, <1>6, <2>1, <2>2, <2>3 DEF ReaderType, Pcs
<1>7. ASSUME NEW r \in Reader, ReaderMoves(r)
      PROVE  ReaderType'
  <2>1. Written' = Written
    BY <1>7, ReadersOnlyRead DEF Written
  <2>2. SUFFICES
          /\ manifest' \in (SUBSET Written) \cup {NoFile} /\ tmpManifest' \in (SUBSET Written) \cup {NoFile}
          /\ table' \in Table \cup {NoFile} /\ tmpTable' \in Table \cup {NoFile}
          /\ pc' \in [Reader -> Pcs]
          /\ live' \in [Reader -> SUBSET Written] /\ view' \in [Reader -> SUBSET Written]
          /\ known' \in [Reader -> (SUBSET Written) \cup {NoFile}]
          /\ base' \in [Reader -> Table \cup {NoFile}]
          /\ index' \in [Reader -> Table \cup {NoFile}]
          /\ want' \in [Reader -> Chunk \cup {NoChunk}]
          /\ limited' \in [Reader -> BOOLEAN]
    BY <2>1 DEF ReaderType, Pcs
  <2>3. CASE Open(r) \/ Refresh(r) \/ ListIndexes(r) \/ ReadManifest(r)
    BY <1>3, <1>4, <1>5, <2>3 DEF Open, Refresh, ListIndexes, ReadManifest, fileVars
  <2>4. CASE UseTable(r)
    BY <1>4, <1>5, <2>4 DEF UseTable, Loaded, fileVars
  <2>5. CASE OpenTable(r)
    BY <1>4, <1>5, <2>5 DEF OpenTable, fileVars
  <2>6. CASE FetchUncached(r)
    <3>1. Smallest(Effective(live[r])) \in Table
      BY <1>1, <1>2, <1>4, SmallestOf
    <3> QED  BY <1>4, <1>5, <2>6, <3>1 DEF FetchUncached, Loaded, fileVars
  <2>7. CASE FetchRebuild(r)
    BY <1>4, <1>5, <2>7 DEF FetchRebuild, fileVars
  <2>8. CASE FetchMerge(r)
    <3> DEFINE new == Effective(ToFetch(r))
    <3>1. ToFetch(r) \in SUBSET Written
      BY <1>4 DEF ToFetch
    <3>2. new \in SUBSET Written
      BY <1>2, <3>1
    <3>3. Records(new) \in Table
      BY <1>1, <3>2, RecordsOf
    <3>4. base[r] # NoFile => Over(Records(new), base[r]) \in Table
      BY <1>4, <3>3, OverOf
    <3>5. known[r] \cup new \in SUBSET Written
      BY <1>4, <2>8, <3>2 DEF Equipped, FetchMerge
    <3> HIDE DEF new
    <3>6. /\ base' = [base EXCEPT ![r] = IF base[r] = NoFile THEN Records(new)
                                         ELSE Over(Records(new), base[r])]
          /\ known' = [known EXCEPT ![r] = known[r] \cup new]
          /\ pc' = [pc EXCEPT ![r] = "write"]
          /\ UNCHANGED <<manifest, table, tmpManifest, tmpTable, live, index, view, want, limited>>
      BY <1>4, <2>8 DEF FetchMerge, new, fileVars
    <3> QED  BY <1>4, <1>5, <3>3, <3>4, <3>5, <3>6
  <2>9. CASE FetchFails(r) \/ WriteFails(r)
    BY <1>4, <1>5, <2>9 DEF FetchFails, WriteFails, LoadFails, fileVars
  <2>10. CASE WriteTable(r) \/ RenameTable(r) \/ ReopenTable(r) \/ WriteManifest(r)
    BY <1>4, <1>5, <2>10 DEF WriteTable, RenameTable, ReopenTable, WriteManifest, fileVars
  <2>11. CASE RenameManifest(r)
    BY <1>4, <1>5, <2>11 DEF RenameManifest, Loaded
  <2>12. CASE (\E x \in Chunk : Miss(r, x)) \/ RetryFound(r) \/ RetryLost(r) \/ MinutePasses(r)
    <3>1. UNCHANGED <<manifest, table, tmpManifest, tmpTable, live, known, base, index, view>>
      BY <2>12 DEF Miss, RetryFound, RetryLost, MinutePasses, fileVars
    <3>2. pc' \in [Reader -> Pcs]
      BY <1>4, <1>5, <2>12 DEF Miss, RetryFound, RetryLost, MinutePasses
    <3>3. want' \in [Reader -> Chunk \cup {NoChunk}]
      BY <1>4, <2>12 DEF Miss, RetryFound, RetryLost, MinutePasses
    <3>4. limited' \in [Reader -> BOOLEAN]
      BY <1>4, <2>12 DEF Miss, RetryFound, RetryLost, MinutePasses
    <3> QED  BY <1>4, <3>1, <3>2, <3>3, <3>4
  <2>13. CASE Stop(r)
    BY <1>4, <1>5, <2>13 DEF Stop, fileVars
  <2> QED
    BY <1>7, <2>3, <2>4, <2>5, <2>6, <2>7, <2>8, <2>9, <2>10, <2>11, <2>12, <2>13 DEF ReaderMoves
<1> QED  BY <1>6, <1>7, StepKinds DEF FilesLost, fileVars

(* What a merge comes to: what was known, and the blobs that are new. *)
LEMMA Merged ==
    ASSUME RepoType, ReaderType, NEW r \in Reader, Equipped(r), FetchMerge(r)
    PROVE  LET new == Effective(ToFetch(r)) IN
           /\ new \in SUBSET Written /\ new \subseteq live[r]
           /\ base'[r] \in Table /\ base'[r] # NoFile
           /\ known'[r] \in SUBSET Written /\ known'[r] # NoFile /\ known'[r] = known[r] \cup new
           /\ DOMAIN base'[r] = IF base[r] = NoFile THEN Chunks(new)
                                ELSE Chunks(new) \cup DOMAIN base[r]
           /\ Range(base'[r]) \subseteq IF base[r] = NoFile THEN Listed(new)
                                        ELSE Listed(new) \cup Range(base[r])
<1> DEFINE new == Effective(ToFetch(r))
<1>1. /\ known \in [Reader -> (SUBSET Written) \cup {NoFile}] /\ live \in [Reader -> SUBSET Written]
      /\ base \in [Reader -> Table \cup {NoFile}]
  BY DEF ReaderType
<1>2. ToFetch(r) \in SUBSET Written /\ ToFetch(r) \subseteq live[r]
  BY <1>1 DEF ToFetch
<1>3. new \in SUBSET Written /\ new \subseteq live[r]
  BY <1>2 DEF Effective
<1>4. known[r] \in SUBSET Written
  BY <1>1 DEF Equipped, FetchMerge
<1>5. \A bs \in SUBSET Written : bs # NoFile
  BY ReaderConstants DEF RepoType
<1>6. /\ Records(new) \in Table /\ DOMAIN Records(new) = Chunks(new)
      /\ Range(Records(new)) \subseteq Listed(new)
  BY <1>3, RecordsOf
<1>7. base[r] # NoFile =>
         /\ Over(Records(new), base[r]) \in Table
         /\ DOMAIN Over(Records(new), base[r]) = Chunks(new) \cup DOMAIN base[r]
         /\ Range(Over(Records(new), base[r])) \subseteq Listed(new) \cup Range(base[r])
  BY <1>1, <1>6, OverOf
<1>8. /\ base'[r] = IF base[r] = NoFile THEN Records(new) ELSE Over(Records(new), base[r])
      /\ known'[r] = known[r] \cup new
  BY <1>1 DEF FetchMerge
<1>9. base'[r] \in Table /\ base'[r] # NoFile
  BY <1>6, <1>7, <1>8, ReaderConstants
<1>10. known'[r] \in SUBSET Written /\ known'[r] # NoFile
  BY <1>3, <1>4, <1>5, <1>8
<1> HIDE DEF new
<1>11. /\ DOMAIN base'[r] = IF base[r] = NoFile THEN Chunks(new)
                            ELSE Chunks(new) \cup DOMAIN base[r]
       /\ Range(base'[r]) \subseteq IF base[r] = NoFile THEN Listed(new)
                                    ELSE Listed(new) \cup Range(base[r])
  BY <1>6, <1>7, <1>8
<1> QED  BY <1>3, <1>8, <1>9, <1>10, <1>11 DEF new

(* A reader still has what it goes on with. *)
LEMMA EquippedStep ==
    ASSUME RepoInv, RepoMoves, ReadInv, [Next]_vars
    PROVE  \A r \in Reader : Equipped(r)'
<1>1. ReaderType /\ \A r \in Reader : Equipped(r)
  BY DEF ReadInv
<1>2. /\ pc \in [Reader -> Loading \cup {"idle", "list", "ready"}]
      /\ known \in [Reader -> (SUBSET Written) \cup {NoFile}]
      /\ base \in [Reader -> Table \cup {NoFile}]
      /\ index \in [Reader -> Table \cup {NoFile}]
  BY <1>1 DEF ReaderType
<1>3. Cached' = Cached
  BY DEF RepoMoves, Cached
<1>4. ASSUME UNCHANGED readerVars PROVE \A r \in Reader : Equipped(r)'
  BY <1>1, <1>3, <1>4 DEF readerVars, Equipped
<1>5. ASSUME NEW r \in Reader, ReaderMoves(r) PROVE \A s \in Reader : Equipped(s)'
  <2>1. \A s \in Reader \ {r} : Equipped(s)'
    BY <1>1, <1>3, <1>5, OneReaderMoves DEF OthersStay, Equipped
  <2>2. Equipped(r)'
    <3> USE DEF Equipped, Writing
    <3>1. Equipped(r)
      BY <1>1
    <3>2. CASE Open(r) \/ Refresh(r) \/ ListIndexes(r) \/ ReadManifest(r)
      BY <1>2, <1>3, <3>2 DEF Open, Refresh, ListIndexes, ReadManifest
    <3>3. CASE UseTable(r)
      BY <1>2, <3>3 DEF UseTable, Usable, Loaded
    <3>4. CASE OpenTable(r)
      <4>1. {} # NoFile
        BY ReaderConstants
      <4> QED  BY <1>2, <3>4, <4>1 DEF OpenTable, Usable
    <3>5. CASE FetchUncached(r)
      <4>1. Smallest(Effective(live[r])) # NoFile
        <5>1. live[r] \in SUBSET Written
          BY <1>1 DEF ReaderType
        <5>2. Effective(live[r]) \in SUBSET Written /\ RepoType
          BY <5>1 DEF Effective, RepoInv
        <5>3. Smallest(Effective(live[r])) \in Table
          BY <5>2, SmallestOf
        <5> QED  BY <5>3, ReaderConstants
      <4> QED  BY <1>2, <3>5, <4>1 DEF FetchUncached, Loaded
    <3>6. CASE FetchRebuild(r)
      <4>1. {} # NoFile
        BY ReaderConstants
      <4> QED  BY <1>2, <3>6, <4>1 DEF FetchRebuild
    <3>7. CASE FetchMerge(r)
      <4>1. Cached /\ pc[r] = "fetch" /\ ~MustRebuild(r)
        BY <3>7 DEF FetchMerge
      <4>2. /\ base'[r] \in Table /\ base'[r] # NoFile
            /\ known'[r] \in SUBSET Written /\ known'[r] # NoFile
        BY <1>1, <3>7, Merged DEF RepoInv
      <4> QED  BY <1>2, <3>7, <4>2 DEF FetchMerge
    <3>8. CASE FetchFails(r) \/ WriteFails(r)
      BY <1>2, <3>8 DEF FetchFails, WriteFails, LoadFails
    <3>9. CASE WriteTable(r) \/ RenameTable(r) \/ WriteManifest(r)
      BY <1>2, <3>1, <3>9 DEF WriteTable, RenameTable, WriteManifest
    <3>10. CASE ReopenTable(r)
      BY <1>2, <3>1, <3>10 DEF ReopenTable
    <3>11. CASE RenameManifest(r)
      BY <1>2, <3>1, <3>11 DEF RenameManifest, Loaded
    <3>12. CASE (\E x \in Chunk : Miss(r, x)) \/ RetryFound(r) \/ RetryLost(r) \/ MinutePasses(r)
      BY <1>2, <1>3, <3>1, <3>12 DEF Miss, RetryFound, RetryLost, MinutePasses
    <3>13. CASE Stop(r)
      BY <1>2, <3>13 DEF Stop
    <3> QED
      BY <1>5, <3>2, <3>3, <3>4, <3>5, <3>6, <3>7, <3>8, <3>9, <3>10, <3>11, <3>12, <3>13
      DEF ReaderMoves
  <2> QED  BY <2>1, <2>2
<1> QED  BY <1>4, <1>5, StepKinds DEF FilesLost

(* Without a cache the index is the one merged in memory. *)
LEMMA UncachedStep ==
    ASSUME RepoInv, RepoMoves, ReadInv, [Next]_vars
    PROVE  \A r \in Reader : Uncached(r)'
<1>1. ReaderType /\ \A r \in Reader : Equipped(r) /\ Uncached(r)
  BY DEF ReadInv
<1>2. Cached' = Cached
  BY DEF RepoMoves, Cached
<1>3. \A r \in Reader : live[r] \in SUBSET Written /\ view[r] \in SUBSET Written
  BY <1>1 DEF ReaderType
<1>4. ASSUME NEW bs \in SUBSET Written
      PROVE  Smallest(Effective(bs))' = Smallest(Effective(bs)) /\ Effective(bs)' = Effective(bs)
  <2>1. Effective(bs) \in SUBSET Written /\ Effective(bs)' = Effective(bs)
    BY DEF RepoMoves, SaidStays, Effective
  <2>2. /\ Chunks(Effective(bs))' = Chunks(Effective(bs))
        /\ Listed(Effective(bs))' = Listed(Effective(bs))
    BY <2>1 DEF RepoMoves, SaidStays
  <2> QED  BY <2>1, <2>2 DEF Smallest
<1>5. ASSUME NEW r \in Reader, pc'[r] = pc[r], index'[r] = index[r], view'[r] = view[r]
      PROVE  Uncached(r)'
  BY <1>1, <1>2, <1>3, <1>4, <1>5 DEF Uncached
<1>6. ASSUME NEW r \in Reader, ReaderMoves(r), ~Cached
      PROVE  Uncached(r)'
  <2>1. /\ pc \in [Reader -> Loading \cup {"idle", "list", "ready"}]
        /\ index \in [Reader -> Table \cup {NoFile}] /\ view \in [Reader -> SUBSET Written]
    BY <1>1 DEF ReaderType
  <2>2. Uncached(r) /\ pc[r] \in {"idle", "list", "fetch", "ready"}
    BY <1>1, <1>6 DEF Uncached
  <2>3. CASE pc'[r] \in {"idle", "list", "fetch", "ready"} /\ index'[r] = index[r] /\ view'[r] = view[r]
    BY <1>2, <1>3, <1>4, <2>2, <2>3 DEF Uncached
  <2>4. CASE Open(r) \/ Refresh(r) \/ ListIndexes(r)
    <3>1. pc'[r] \in {"idle", "list", "fetch", "ready"} /\ index'[r] = index[r] /\ view'[r] = view[r]
      BY <1>6, <2>1, <2>4 DEF Open, Refresh, ListIndexes
    <3> QED  BY <2>3, <3>1
  <2>5. CASE FetchUncached(r)
    <3>1. index'[r] = Smallest(Effective(live[r])) /\ view'[r] = live[r] /\ pc'[r] = "ready"
      BY <2>1, <2>5 DEF FetchUncached, Loaded
    <3> QED  BY <1>3, <1>4, <3>1 DEF Uncached
  <2>6. CASE FetchFails(r)
    <3>1. pc'[r] \in {"idle", "list", "fetch", "ready"} /\ index'[r] = index[r] /\ view'[r] = view[r]
      BY <2>1, <2>6 DEF FetchFails, LoadFails
    <3> QED  BY <2>3, <3>1
  <2>7. CASE (\E x \in Chunk : Miss(r, x)) \/ RetryFound(r) \/ RetryLost(r) \/ MinutePasses(r)
    <3>1. pc'[r] \in {"idle", "list", "fetch", "ready"} /\ index'[r] = index[r] /\ view'[r] = view[r]
      BY <2>1, <2>2, <2>7 DEF Miss, RetryFound, RetryLost, MinutePasses
    <3> QED  BY <2>3, <3>1
  <2>8. CASE Stop(r)
    BY <2>1, <2>8 DEF Stop, Uncached
  <2>9. ~ (ReadManifest(r) \/ UseTable(r) \/ OpenTable(r) \/ FetchRebuild(r) \/ FetchMerge(r))
    BY <1>6, <2>2 DEF ReadManifest, UseTable, OpenTable, FetchRebuild, FetchMerge
  <2>10. ~ (WriteTable(r) \/ RenameTable(r) \/ ReopenTable(r) \/ WriteManifest(r)
            \/ RenameManifest(r) \/ WriteFails(r))
    BY <2>2 DEF WriteTable, RenameTable, ReopenTable, WriteManifest, RenameManifest, WriteFails
  <2> QED
    BY <1>6, <2>4, <2>5, <2>6, <2>7, <2>8, <2>9, <2>10 DEF ReaderMoves
<1>7. CASE UNCHANGED readerVars
  BY <1>5, <1>7 DEF readerVars
<1>8. ASSUME NEW r \in Reader, ReaderMoves(r) PROVE \A s \in Reader : Uncached(s)'
  <2>1. \A s \in Reader \ {r} : Uncached(s)'
    BY <1>5, <1>8, OneReaderMoves, <1>1 DEF OthersStay
  <2>2. CASE Cached
    BY <1>2, <2>2 DEF Uncached
  <2> QED  BY <1>6, <1>8, <2>1, <2>2
<1> QED  BY <1>7, <1>8, StepKinds DEF FilesLost

(***************************************************************************)
(* What holds whatever the readers share.                                  *)
(***************************************************************************)

(* Every step keeps the repository consistent and the readers in order. *)
LEMMA InvStep == ASSUME IInv, [Next]_vars PROVE IInv'
<1>1. RepoInv /\ ReadInv
  BY DEF IInv
<1>2. RepoInv' /\ RepoMoves
  BY <1>1, RepoStep
<1>3. ReaderType /\ \A r \in Reader : Equipped(r)
  BY <1>1 DEF ReadInv
<1>4. ReaderType'
  BY <1>1, <1>2, <1>3, ReaderTypeStep
<1>5. \A r \in Reader : Equipped(r)' /\ Uncached(r)'
  BY <1>1, <1>2, EquippedStep, UncachedStep
<1> QED  BY <1>2, <1>4, <1>5 DEF IInv, ReadInv

(* The repository is consistent and every reader is in order, however many *)
(* read it, with a cache that they share or without one.                   *)
THEOREM IndexInvariance == Spec => []IInv
<1>1. Init => IInv
  BY RepoInit, ReadInit DEF IInv
<1>2. IInv /\ [Next]_vars => IInv'
  BY InvStep
<1> QED  BY <1>1, <1>2, PTL DEF Spec

(* Every variable keeps its type. *)
THEOREM IndexTypeCorrect == Spec => []TypeOK
<1>1. IInv => TypeOK
  BY ReaderConstants
  DEF IInv, RepoInv, ReadInv, RepoType, ReaderType, Equipped, TypeOK, Loading, Sup, Superseded
<1> QED  BY <1>1, IndexInvariance, PTL

(* read_chunk_reloading: a chunk that is not found with an index of the    *)
(* blobs that are there now is gone, however prune and backups interleave  *)
(* with the readers: prune rewrites the index before it deletes a pack.    *)
THEOREM DamageIsReal == Spec => CurrentViewFinds
<1>1. ASSUME IInv, NEW r \in Reader, RetryLost(r), ~Cached, view[r] = blobs
      PROVE  ~Available(want[r])
  <2>1. /\ RepoType /\ NewestRules /\ IndexedStored
        /\ index[r] # NoFile /\ want[r] \in Chunk \cup {NoChunk}
    BY <1>1 DEF IInv, RepoInv, ReadInv, RetryLost, Equipped, ReaderType
  <2>2. index[r] = Smallest(Effective(blobs))
    BY <1>1, <2>1 DEF IInv, ReadInv, Uncached
  <2>3. Effective(blobs) = Current
    BY <2>1 DEF NewestRules, RepoType, Effective, Current, Sup, Superseded
  <2>4. SUFFICES ASSUME want[r] \in Chunks(Current) PROVE FALSE
    BY <2>3 DEF Available, IndexedPacks, Chunks, HeldBy
  <2>5. Current \in SUBSET Written
    BY <2>1 DEF Current, RepoType
  <2>6. want[r] \in DOMAIN index[r] /\ Range(index[r]) \subseteq Listed(Current)
    BY <2>1, <2>2, <2>3, <2>4, <2>5, SmallestOf
  <2>7. index[r][want[r]] \in packs
    BY <2>1, <2>6 DEF Range, IndexedStored
  <2> QED  BY <1>1, <2>6, <2>7 DEF RetryLost, Readable
<1>2. IInv /\ [Next]_vars =>
        [\A r \in Reader :
            RetryLost(r) /\ ~Cached /\ view[r] = blobs => ~Available(want[r])]_vars
  BY <1>1
<1> QED  BY <1>2, IndexInvariance, PTL DEF Spec, CurrentViewFinds

(***************************************************************************)
(* The cache of one reader.                                                *)
(***************************************************************************)

(* What a step of the one reader does to its cache. *)
LEMMA CacheReads ==
    ASSUME IInv, Cached, FilesCover, NEW r \in Reader, ReaderInv(r), ReaderMoves(r)
    PROVE  FilesCover' /\ ReaderInv(r)'
<1>1. /\ RepoType /\ NewestRules /\ ReaderType /\ Equipped(r)
      /\ LoadCovers(r) /\ OwnFiles(r) /\ FilesName(r) /\ IndexCovers(r)
  BY DEF IInv, RepoInv, ReadInv, ReaderInv
<1>2. /\ pc \in [Reader -> Loading \cup {"idle", "list", "ready"}]
      /\ live \in [Reader -> SUBSET Written] /\ view \in [Reader -> SUBSET Written]
      /\ known \in [Reader -> (SUBSET Written) \cup {NoFile}]
      /\ base \in [Reader -> Table \cup {NoFile}] /\ index \in [Reader -> Table \cup {NoFile}]
      /\ manifest \in (SUBSET Written) \cup {NoFile}
  BY <1>1 DEF ReaderType
<1>3. UNCHANGED <<mode, packs, blobs, lists, supersedes>>
  BY ReadersOnlyRead
<1>4. \A bs : /\ Chunks(bs)' = Chunks(bs) /\ Listed(bs)' = Listed(bs)
              /\ Effective(bs)' = Effective(bs)
  BY <1>3 DEF Chunks, HeldBy, Listed, Effective, Superseded
<1>5. Current' = Current /\ Cached' = Cached /\ Faults' = Faults /\ blobs' = blobs
  BY <1>3 DEF Current, Sup, Superseded, Written, Cached, Faults
<1>6. \A t, bs : Covers(t, bs)' = Covers(t, bs) /\ Names(t, bs)' = Names(t, bs)
  BY <1>4 DEF Covers, Names
\* A part of what is covered or named is.
<1>7. \A t, bs : \A cs \in SUBSET bs :
         (Covers(t, bs) => Covers(t, cs)) /\ (Names(t, cs) => Names(t, bs))
  BY SaidByPart DEF Covers, Names
<1>8. Effective(blobs) = Current
  BY <1>1 DEF NewestRules, RepoType, Effective, Current, Sup, Superseded
\* A blob of a listing that still counts counted then.
<1>9. live[r] \cap Current \subseteq Effective(live[r])
  BY <1>2 DEF Effective, Current, Sup, Superseded
<1>10. ASSUME UNCHANGED <<manifest, table>> PROVE FilesCover'
  BY <1>1, <1>5, <1>6, <1>10 DEF FilesCover
<1>11. ASSUME index'[r] = index[r], view'[r] = view[r]
       PROVE  /\ IndexCovers(r)'
              /\ ~Faults /\ index'[r] # NoFile => Names(index[r], view[r])'
  BY <1>1, <1>4, <1>6, <1>11 DEF IndexCovers, FilesName
<1> USE <1>2
<1>12. CASE Open(r) \/ Refresh(r)
  <2>1. /\ pc'[r] = "list" /\ index'[r] = index[r] /\ view'[r] = view[r]
        /\ UNCHANGED <<manifest, table>> /\ pc[r] \in {"idle", "ready"}
    BY <1>12 DEF Open, Refresh, fileVars
  <2>2. LoadCovers(r)' /\ OwnFiles(r)'
    BY <2>1 DEF LoadCovers, OwnFiles, Loading, Writing, Opened
  <2>3. FilesName(r)'
    BY <1>1, <1>5, <1>6, <1>11, <2>1 DEF FilesName, Writing, Opened
  <2> QED  BY <1>10, <1>11, <2>1, <2>2, <2>3 DEF ReaderInv
<1>13. CASE ListIndexes(r)
  <2>1. /\ pc'[r] = "manifest" /\ live'[r] = blobs /\ index'[r] = index[r] /\ view'[r] = view[r]
        /\ UNCHANGED <<manifest, table>> /\ pc[r] = "list"
    BY <1>13 DEF ListIndexes, fileVars
  <2>2. LoadCovers(r)' /\ OwnFiles(r)'
    BY <1>4, <1>5, <1>6, <1>8, <2>1 DEF LoadCovers, OwnFiles, Loading, Writing, Opened, FilesCover
  <2>3. FilesName(r)'
    BY <1>1, <1>5, <1>6, <1>11, <2>1 DEF FilesName, Writing, Opened
  <2> QED  BY <1>10, <1>11, <2>1, <2>2, <2>3 DEF ReaderInv
<1>14. CASE ReadManifest(r)
  <2>1. /\ pc'[r] = "table" /\ live'[r] = live[r] /\ known'[r] = manifest
        /\ index'[r] = index[r] /\ view'[r] = view[r]
        /\ UNCHANGED <<manifest, table>> /\ pc[r] = "manifest"
    BY <1>14 DEF ReadManifest, fileVars
  <2>2. LoadCovers(r)' /\ OwnFiles(r)'
    BY <1>1, <1>4, <1>5, <1>6, <2>1 DEF LoadCovers, OwnFiles, Loading, Writing, Opened
  <2>3. FilesName(r)'
    BY <1>1, <1>5, <1>6, <1>11, <2>1 DEF FilesName, Writing, Opened
  <2> QED  BY <1>10, <1>11, <2>1, <2>2, <2>3 DEF ReaderInv
<1>15. CASE UseTable(r)
  <2>1. /\ pc'[r] = "ready" /\ index'[r] = table /\ view'[r] = live[r]
        /\ UNCHANGED <<manifest, table>> /\ pc[r] = "table"
        /\ known[r] # NoFile /\ table # NoFile /\ known[r] = live[r]
    BY <1>15 DEF UseTable, Usable, Loaded, fileVars
  <2>2. LoadCovers(r)' /\ OwnFiles(r)'
    BY <2>1 DEF LoadCovers, OwnFiles, Loading, Writing, Opened
  <2>3. FilesName(r)'
    BY <1>1, <1>5, <1>6, <2>1 DEF FilesName, Writing, Opened
  <2>4. IndexCovers(r)'
    <3>1. Effective(live[r]) = known[r] \cap Effective(live[r])
      BY <2>1 DEF Effective
    <3>2. Covers(table, Effective(live[r]))
      BY <1>1, <2>1, <3>1 DEF LoadCovers
    <3> QED  BY <1>4, <1>6, <2>1, <3>2 DEF IndexCovers
  <2> QED  BY <1>10, <2>1, <2>2, <2>3, <2>4 DEF ReaderInv
<1>16. CASE OpenTable(r)
  <2>1. /\ pc'[r] = "fetch" /\ live'[r] = live[r] /\ index'[r] = index[r] /\ view'[r] = view[r]
        /\ UNCHANGED <<manifest, table>> /\ pc[r] = "table"
        /\ \/ /\ known[r] # NoFile /\ table # NoFile /\ known[r] \subseteq live[r]
              /\ base'[r] = table /\ known'[r] = known[r]
           \/ base'[r] = NoFile /\ known'[r] = {}
    BY <1>16 DEF OpenTable, Usable, fileVars
  <2>2. LoadCovers(r)'
    BY <1>1, <1>4, <1>5, <1>6, <2>1 DEF LoadCovers, Loading, Writing
  <2>3. OwnFiles(r)'
    BY <2>1 DEF OwnFiles, Opened
  <2>4. FilesName(r)'
    BY <1>1, <1>5, <1>6, <1>11, <2>1 DEF FilesName, Writing, Opened
  <2> QED  BY <1>10, <1>11, <2>1, <2>2, <2>3, <2>4 DEF ReaderInv
<1>17. CASE FetchRebuild(r)
  <2>1. /\ pc'[r] = "fetch" /\ live'[r] = live[r] /\ index'[r] = index[r] /\ view'[r] = view[r]
        /\ UNCHANGED <<manifest, table>> /\ pc[r] = "fetch"
        /\ base'[r] = NoFile /\ known'[r] = {}
    BY <1>17 DEF FetchRebuild, fileVars
  <2>2. LoadCovers(r)' /\ OwnFiles(r)'
    BY <1>1, <1>5, <2>1 DEF LoadCovers, OwnFiles, Loading, Writing, Opened
  <2>3. FilesName(r)'
    BY <1>1, <1>5, <1>6, <1>11, <2>1 DEF FilesName, Writing, Opened
  <2> QED  BY <1>10, <1>11, <2>1, <2>2, <2>3 DEF ReaderInv
<1>18. CASE FetchMerge(r)
  <2> DEFINE new == Effective(ToFetch(r))
  <2>1. /\ pc'[r] = "write" /\ live'[r] = live[r] /\ index'[r] = index[r] /\ view'[r] = view[r]
        /\ UNCHANGED <<manifest, table>> /\ pc[r] = "fetch"
    BY <1>18 DEF FetchMerge, fileVars
  <2>2. /\ new \subseteq live[r] /\ known'[r] = known[r] \cup new
        /\ DOMAIN base'[r] = IF base[r] = NoFile THEN Chunks(new)
                             ELSE Chunks(new) \cup DOMAIN base[r]
        /\ Range(base'[r]) \subseteq IF base[r] = NoFile THEN Listed(new)
                                     ELSE Listed(new) \cup Range(base[r])
    BY <1>1, <1>18, Merged
  <2>3. known[r] \subseteq live[r]
    BY <1>1, <2>1 DEF LoadCovers
  \* What counts in the listing was known, or is new.
  <2>4. IF base[r] = NoFile THEN Effective(live[r]) = new
        ELSE Effective(live[r]) \subseteq (known[r] \cap Effective(live[r])) \cup new
    BY DEF ToFetch, Effective, Superseded
  <2> HIDE DEF new
  <2>5. Covers(base'[r], Effective(live[r]))
    <3>1. CASE base[r] = NoFile
      BY <2>2, <2>4, <3>1 DEF Covers
    <3>2. CASE base[r] # NoFile
      <4>1. Chunks(known[r] \cap Effective(live[r])) \subseteq DOMAIN base[r]
        BY <1>1, <2>1, <3>2 DEF LoadCovers, Covers
      <4>2. Chunks((known[r] \cap Effective(live[r])) \cup new) \subseteq DOMAIN base'[r]
        <5>1. Chunks((known[r] \cap Effective(live[r])) \cup new)
                 = Chunks(known[r] \cap Effective(live[r])) \cup Chunks(new)
          BY SaidByBoth
        <5> QED  BY <2>2, <3>2, <4>1, <5>1
      <4>3. Chunks(Effective(live[r])) \subseteq Chunks((known[r] \cap Effective(live[r])) \cup new)
        BY <2>4, <3>2, SaidByPart
      <4> QED  BY <4>2, <4>3 DEF Covers
    <3> QED  BY <3>1, <3>2
  <2>6. ~Faults => Names(base'[r], known'[r])
    <3>1. Listed(known[r] \cup new) = Listed(known[r]) \cup Listed(new)
      BY SaidByBoth
    <3>2. ~Faults /\ base[r] # NoFile => Range(base[r]) \subseteq Listed(known[r])
      BY <1>1, <2>1 DEF FilesName, Names
    <3> QED  BY <2>2, <3>1, <3>2 DEF Names
  <2>7. LoadCovers(r)' /\ OwnFiles(r)'
    BY <1>1, <1>4, <1>5, <1>6, <2>1, <2>2, <2>3, <2>5 DEF LoadCovers, OwnFiles, Loading, Writing, Opened
  <2>8. FilesName(r)'
    BY <1>1, <1>5, <1>6, <1>11, <2>1, <2>6 DEF FilesName, Writing, Opened
  <2> QED  BY <1>10, <1>11, <2>1, <2>7, <2>8 DEF ReaderInv
<1>19. CASE FetchFails(r) \/ WriteFails(r)
  <2>1. /\ pc'[r] \in {"idle", "ready"} /\ index'[r] = index[r] /\ view'[r] = view[r]
        /\ UNCHANGED <<manifest, table>>
    BY <1>19 DEF FetchFails, WriteFails, LoadFails, fileVars
  <2>2. LoadCovers(r)' /\ OwnFiles(r)'
    BY <2>1 DEF LoadCovers, OwnFiles, Loading, Writing, Opened
  <2>3. ~Faults => pc[r] \notin Opened
    BY <1>1, <1>19 DEF FetchFails, WriteFails, FilesName, OwnFiles, Equipped, Opened, Writing
  <2>4. FilesName(r)'
    BY <1>1, <1>5, <1>6, <1>11, <2>1, <2>3 DEF FilesName, Writing, Opened
  <2> QED  BY <1>10, <1>11, <2>1, <2>2, <2>4 DEF ReaderInv
<1>20. CASE WriteTable(r)
  <2>1. /\ pc'[r] = "rename" /\ live'[r] = live[r] /\ index'[r] = index[r] /\ view'[r] = view[r]
        /\ known'[r] = known[r] /\ base'[r] = base[r] /\ tmpTable' = base[r]
        /\ UNCHANGED <<manifest, table>> /\ pc[r] = "write"
    BY <1>20 DEF WriteTable
  <2>2. LoadCovers(r)' /\ OwnFiles(r)'
    BY <1>1, <1>4, <1>5, <1>6, <2>1 DEF LoadCovers, OwnFiles, Loading, Writing, Opened
  <2>3. FilesName(r)'
    BY <1>1, <1>5, <1>6, <1>11, <2>1 DEF FilesName, Writing, Opened
  <2> QED  BY <1>10, <1>11, <2>1, <2>2, <2>3 DEF ReaderInv
<1>21. CASE RenameTable(r)
  <2>1. /\ pc'[r] = "reopen" /\ live'[r] = live[r] /\ index'[r] = index[r] /\ view'[r] = view[r]
        /\ known'[r] = known[r] /\ base'[r] = base[r]
        /\ table' = base[r] /\ manifest' = manifest /\ pc[r] = "rename"
    BY <1>1, <1>21 DEF RenameTable, OwnFiles
  <2>2. LoadCovers(r)' /\ OwnFiles(r)'
    BY <1>1, <1>4, <1>5, <1>6, <2>1 DEF LoadCovers, OwnFiles, Loading, Writing, Opened
  <2>3. FilesName(r)'
    BY <1>1, <1>5, <1>6, <1>11, <2>1 DEF FilesName, Writing, Opened, Equipped
  <2>4. manifest # NoFile => manifest \cap Current \subseteq Effective(live[r])
    BY <1>1, <1>9, <2>1 DEF LoadCovers, Loading, Current
  <2>5. Covers(base[r], Effective(live[r]))
    BY <1>1, <2>1 DEF LoadCovers, Writing
  <2>6. FilesCover'
    BY <1>5, <1>6, <1>7, <2>1, <2>4, <2>5 DEF FilesCover
  <2> QED  BY <1>11, <2>1, <2>2, <2>3, <2>6 DEF ReaderInv
<1>22. CASE ReopenTable(r)
  <2>1. /\ pc'[r] = "describe" /\ live'[r] = live[r] /\ index'[r] = index[r] /\ view'[r] = view[r]
        /\ known'[r] = known[r] /\ base'[r] = base[r]
        /\ UNCHANGED <<manifest, table>> /\ pc[r] = "reopen"
    BY <1>1, <1>22 DEF ReopenTable, OwnFiles, Opened, fileVars
  <2>2. LoadCovers(r)' /\ OwnFiles(r)'
    BY <1>1, <1>4, <1>5, <1>6, <2>1 DEF LoadCovers, OwnFiles, Loading, Writing, Opened
  <2>3. FilesName(r)'
    BY <1>1, <1>5, <1>6, <1>11, <2>1 DEF FilesName, Writing, Opened
  <2> QED  BY <1>10, <1>11, <2>1, <2>2, <2>3 DEF ReaderInv
<1>23. CASE WriteManifest(r)
  <2>1. /\ pc'[r] = "publish" /\ live'[r] = live[r] /\ index'[r] = index[r] /\ view'[r] = view[r]
        /\ known'[r] = known[r] /\ base'[r] = base[r] /\ tmpManifest' = known[r]
        /\ UNCHANGED <<manifest, table>> /\ pc[r] = "describe"
    BY <1>23 DEF WriteManifest
  <2>2. LoadCovers(r)' /\ OwnFiles(r)'
    BY <1>1, <1>4, <1>5, <1>6, <2>1 DEF LoadCovers, OwnFiles, Loading, Writing, Opened
  <2>3. FilesName(r)'
    BY <1>1, <1>5, <1>6, <1>11, <2>1 DEF FilesName, Writing, Opened
  <2> QED  BY <1>10, <1>11, <2>1, <2>2, <2>3 DEF ReaderInv
<1>24. CASE RenameManifest(r)
  <2>1. /\ pc'[r] = "ready" /\ index'[r] = base[r] /\ view'[r] = live[r]
        /\ manifest' = known[r] /\ table' = table /\ pc[r] = "publish"
    BY <1>1, <1>24 DEF RenameManifest, Loaded, OwnFiles
  <2>2. LoadCovers(r)' /\ OwnFiles(r)'
    BY <2>1 DEF LoadCovers, OwnFiles, Loading, Writing, Opened
  <2>3. /\ known[r] \subseteq live[r] /\ Covers(base[r], Effective(live[r]))
        /\ table = NoFile \/ table = base[r]
        /\ known[r] # NoFile
    BY <1>1, <2>1 DEF LoadCovers, OwnFiles, Equipped, Writing, Opened
  <2>4. FilesName(r)'
    <3>1. ~Faults => table = base[r] /\ Names(base[r], known[r])
      BY <1>1, <2>1, <2>3 DEF FilesName, Writing, Opened
    <3>2. ~Faults => Names(base[r], live[r])
      BY <1>7, <2>3, <3>1
    <3> QED  BY <1>5, <1>6, <2>1, <2>3, <3>1, <3>2 DEF FilesName, Writing, Opened
  <2>5. FilesCover'
    BY <1>5, <1>6, <1>7, <1>9, <2>1, <2>3 DEF FilesCover
  <2>6. IndexCovers(r)'
    BY <1>4, <1>6, <2>1, <2>3 DEF IndexCovers
  <2> QED  BY <2>2, <2>4, <2>5, <2>6 DEF ReaderInv
<1>25. CASE (\E x \in Chunk : Miss(r, x)) \/ RetryFound(r) \/ RetryLost(r)
  <2>1. /\ pc'[r] \in {"ready", "list"} /\ index'[r] = index[r] /\ view'[r] = view[r]
        /\ UNCHANGED <<manifest, table>> /\ pc[r] = "ready"
    BY <1>25 DEF Miss, RetryFound, RetryLost, fileVars
  <2>2. LoadCovers(r)' /\ OwnFiles(r)'
    BY <2>1 DEF LoadCovers, OwnFiles, Loading, Writing, Opened
  <2>3. FilesName(r)'
    BY <1>1, <1>5, <1>6, <1>11, <2>1 DEF FilesName, Writing, Opened
  <2> QED  BY <1>10, <1>11, <2>1, <2>2, <2>3 DEF ReaderInv
<1>26. CASE MinutePasses(r)
  <2>1. /\ UNCHANGED <<pc, live, known, base, index, view>>
        /\ UNCHANGED <<manifest, table, tmpManifest, tmpTable>>
    BY <1>26 DEF MinutePasses, fileVars
  <2>2. LoadCovers(r)'
    BY <1>1, <1>4, <1>5, <1>6, <2>1 DEF LoadCovers
  <2>3. OwnFiles(r)' /\ FilesName(r)'
    BY <1>1, <1>4, <1>5, <1>6, <2>1 DEF OwnFiles, FilesName
  <2> QED  BY <1>10, <1>11, <2>1, <2>2, <2>3 DEF ReaderInv
<1>27. CASE Stop(r)
  <2>1. /\ pc'[r] = "idle" /\ index'[r] = NoFile /\ UNCHANGED <<manifest, table>>
        /\ ~Faults => pc[r] = "ready"
    BY <1>27 DEF Stop, fileVars
  <2>2. LoadCovers(r)' /\ OwnFiles(r)' /\ IndexCovers(r)'
    BY <2>1 DEF LoadCovers, OwnFiles, Loading, Writing, Opened, IndexCovers
  <2>3. FilesName(r)'
    BY <1>1, <1>5, <1>6, <2>1 DEF FilesName, Writing, Opened
  <2> QED  BY <1>10, <2>1, <2>2, <2>3 DEF ReaderInv
<1>28. ~FetchUncached(r)
  BY DEF FetchUncached
<1> QED
  BY <1>12, <1>13, <1>14, <1>15, <1>16, <1>17, <1>18, <1>19, <1>20, <1>21, <1>22, <1>23,
     <1>24, <1>25, <1>26, <1>27, <1>28 DEF ReaderMoves

(* What a step of the repository, or a file that is lost, does to it. *)
LEMMA CacheBeside ==
    ASSUME IInv, RepoMoves, Cached, FilesCover, \A r \in Reader : ReaderInv(r),
           UNCHANGED readerVars, UNCHANGED <<tmpManifest, tmpTable>>,
           Faults \/ UNCHANGED <<manifest, table>>,
           manifest' \in {manifest, NoFile}, table' \in {table, NoFile}
    PROVE  FilesCover' /\ \A r \in Reader : ReaderInv(r)'
<1>1. ReaderType
  BY DEF IInv, ReadInv
<1>2. UNCHANGED <<pc, live, known, base, index, view>>
  BY DEF readerVars
<1>3. \A bs \in SUBSET Written :
         /\ Effective(bs)' = Effective(bs) /\ Effective(bs) \in SUBSET Written
         /\ \A t : Covers(t, bs)' = Covers(t, bs) /\ Names(t, bs)' = Names(t, bs)
  BY DEF RepoMoves, SaidStays, Effective, Covers, Names
<1>4. \A t, bs : \A cs \in SUBSET bs : Covers(t, bs) => Covers(t, cs)
  BY SaidByPart DEF Covers
<1>5. /\ Current' \cap Written \subseteq Current /\ blobs' \cap Written \subseteq blobs
      /\ Faults' = Faults
  BY DEF RepoMoves, Faults
<1>6. FilesCover'
  <2> SUFFICES ASSUME manifest' # NoFile, table' # NoFile
               PROVE  Covers(table, manifest \cap Current)'
    BY DEF FilesCover
  <2>1. manifest' = manifest /\ table' = table /\ manifest \in SUBSET Written
    BY <1>1 DEF ReaderType
  <2>2. /\ manifest \cap Current' \in SUBSET (manifest \cap Current)
        /\ manifest \cap Current' \in SUBSET Written
    BY <1>5, <2>1
  <2>3. Covers(table, manifest \cap Current')
    BY <1>4, <2>1, <2>2 DEF FilesCover
  <2> QED  BY <1>3, <2>1, <2>2, <2>3
<1>7. ASSUME NEW r \in Reader PROVE ReaderInv(r)'
  <2>1. /\ live[r] \in SUBSET Written /\ view[r] \in SUBSET Written
        /\ known[r] \in (SUBSET Written) \cup {NoFile}
        /\ manifest \in (SUBSET Written) \cup {NoFile}
    BY <1>1 DEF ReaderType
  <2>2. LoadCovers(r) /\ OwnFiles(r) /\ FilesName(r) /\ IndexCovers(r)
    BY DEF ReaderInv
  <2>3. pc[r] = "fetch" \/ pc[r] \in Writing => known[r] # NoFile
    BY DEF IInv, ReadInv, Equipped
  <2>4. LoadCovers(r)'
    <3>1. \A bs \in SUBSET Written : bs \cap Effective(live[r]) \in SUBSET Written
      OBVIOUS
    <3> QED  BY <1>2, <1>3, <1>5, <2>1, <2>2, <3>1 DEF LoadCovers
  <2>5. OwnFiles(r)'
    BY <1>2, <2>2 DEF OwnFiles
  <2>6. FilesName(r)'
    <3>1. CASE Faults
      BY <1>5, <3>1 DEF FilesName
    <3>2. CASE UNCHANGED <<manifest, table>>
      BY <1>2, <1>3, <1>5, <2>1, <2>2, <2>3, <3>2 DEF FilesName
    <3> QED  BY <3>1, <3>2
  <2>7. IndexCovers(r)'
    BY <1>2, <1>3, <2>1, <2>2 DEF IndexCovers
  <2> QED  BY <2>4, <2>5, <2>6, <2>7 DEF ReaderInv
<1> QED  BY <1>6, <1>7

(* The cache stays right through every step, when one process uses it. *)
LEMMA CacheStep ==
    ASSUME Alone, IInv, CacheInv, [Next]_vars
    PROVE  CacheInv'
<1>1. RepoInv' /\ RepoMoves
  BY RepoStep DEF IInv
<1>2. SUFFICES ASSUME Cached
               PROVE  FilesCover' /\ \A r \in Reader : ReaderInv(r)'
  BY <1>1 DEF CacheInv, RepoMoves, Cached
<1>3. FilesCover /\ \A r \in Reader : ReaderInv(r)
  BY <1>2 DEF CacheInv
<1>4. \A r, s \in Reader : r = s
  BY <1>2 DEF Alone, Cached, IInv, RepoInv, RepoType
<1>5. ASSUME NEW r \in Reader, ReaderMoves(r)
      PROVE  FilesCover' /\ \A s \in Reader : ReaderInv(s)'
  <2>1. FilesCover' /\ ReaderInv(r)'
    BY <1>2, <1>3, <1>5, CacheReads
  <2>2. \A s \in Reader : s = r
    BY <1>4
  <2> QED  BY <2>1, <2>2
<1>6. CASE UNCHANGED readerVars /\ UNCHANGED <<tmpManifest, tmpTable>>
              /\ (Faults \/ UNCHANGED <<manifest, table>>)
              /\ manifest' \in {manifest, NoFile} /\ table' \in {table, NoFile}
  BY <1>1, <1>2, <1>3, <1>6, CacheBeside
<1> QED  BY <1>5, <1>6, StepKinds DEF FilesLost, fileVars

(* With one reader at a time the cache stays right; without one there is   *)
(* nothing to show.                                                        *)
THEOREM CacheInvariance == ASSUME Alone PROVE Spec => []CacheInv
<1>1. Init => CacheInv
  BY DEF Init, CacheInv, FilesCover, ReaderInv, LoadCovers, OwnFiles, FilesName, IndexCovers,
     Loading, Writing, Opened
<1>2. IInv /\ CacheInv /\ [Next]_vars => CacheInv'
  BY CacheStep
<1> QED  BY <1>1, <1>2, IndexInvariance, PTL DEF Spec

(* cache.rs: an interruption between the table and the manifest at most    *)
(* makes the next load read more blobs.  The cache loses no chunk of a     *)
(* blob of the listing, wherever its reader is killed and whichever of its *)
(* files are lost.                                                         *)
THEOREM LoadsComplete == ASSUME Alone PROVE Spec => []LoadComplete
<1>1. ASSUME IInv, CacheInv, NEW r \in Reader, index[r] # NoFile
      PROVE  Chunks(Effective(view[r])) \subseteq DOMAIN index[r]
  <2>1. CASE Cached
    BY <1>1, <2>1 DEF CacheInv, ReaderInv, IndexCovers, Covers
  <2>2. CASE ~Cached
    <3>1. index[r] = Smallest(Effective(view[r])) /\ RepoType /\ view[r] \in SUBSET Written
      BY <1>1, <2>2 DEF IInv, RepoInv, ReadInv, ReaderType, Uncached
    <3>2. Effective(view[r]) \in SUBSET Written
      BY <3>1 DEF Effective
    <3> QED  BY <3>1, <3>2, SmallestOf
  <2> QED  BY <2>1, <2>2
<1>2. IInv /\ CacheInv => LoadComplete
  BY <1>1 DEF LoadComplete
<1> QED  BY <1>2, IndexInvariance, CacheInvariance, PTL

(* repo.rs: a superseded blob is ignored.  Once prune has collected those, *)
(* an index from a cache nobody was killed in leads to listed packs only.  *)
THEOREM CacheHeals == ASSUME Alone PROVE Spec => []HealsOnceCollected
<1>1. ASSUME IInv, CacheInv, NEW r \in Reader, index[r] # NoFile, ~Faults
      PROVE  Range(index[r]) \subseteq Listed(view[r])
  <2>1. CASE Cached
    BY <1>1, <2>1 DEF CacheInv, ReaderInv, FilesName, Names
  <2>2. CASE ~Cached
    <3>1. index[r] = Smallest(Effective(view[r])) /\ RepoType /\ view[r] \in SUBSET Written
      BY <1>1, <2>2 DEF IInv, RepoInv, ReadInv, ReaderType, Uncached
    <3>2. Effective(view[r]) \in SUBSET Written /\ Effective(view[r]) \in SUBSET view[r]
      BY <3>1 DEF Effective
    <3>3. Listed(Effective(view[r])) \subseteq Listed(view[r])
      BY <3>2, SaidByPart
    <3> QED  BY <3>1, <3>2, <3>3, SmallestOf
  <2> QED  BY <2>1, <2>2
<1>2. IInv /\ CacheInv => HealsOnceCollected
  BY <1>1 DEF HealsOnceCollected
<1> QED  BY <1>2, IndexInvariance, CacheInvariance, PTL
=============================================================================
