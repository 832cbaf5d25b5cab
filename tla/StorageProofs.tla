--------------------------- MODULE StorageProofs ---------------------------
(***************************************************************************)
(* Proofs about Storage, for any number of clients and whatever they set   *)
(* out to do: its types, that the requests of an SFTP store are atomic     *)
(* (it implements ObjectStore), that a committed snapshot stays the        *)
(* writer's, how concurrent inits end and what a listing holds.            *)
(***************************************************************************)
EXTENDS Storage, TLAPS

-----------------------------------------------------------------------------
(***************************************************************************)
(* The inductive invariant.                                                *)
(***************************************************************************)
\* Phases in which a request has no answer yet.
Waiting == {"stat", "mkdir", "open", "write", "publish", "restat", "size", "read", "request",
            "remove"}
Calling == Waiting \cup {"clean", "back"}
Writing == {"mkdir", "open", "write", "publish", "clean"}

Ask(op, k) == [op |-> op, key |-> k]

\* What a client asks for, by what it set out to do.
Wants(c) ==
    \/ job[c].kind = "init" /\ request[c] \in {Ask("create", Config), Ask("get", Config)}
    \/ job[c].kind = "commit" /\ request[c] = Ask("create", Snapshot(job[c].id, attempt[c]))
    \/ job[c].kind = "touch" /\ request[c] = Ask("put", Touch)
    \/ job[c].kind = "forget" /\ request[c] = Ask("delete", Snapshot(job[c].id, 0))
    \/ job[c].kind = "read" /\ request[c] = Ask("get", Snapshot(job[c].id, 0))

\* Where a client can be in its request, and with which answer.
Progress(c) ==
    /\ at[c] \in Calling => Wants(c)
    /\ at[c] = "start" => reply[c] = "none" /\ attempt[c] = 0 /\ walk[c] = NoWalk
    /\ at[c] \in Waiting => reply[c] = "pending"
    /\ at[c] = "clean" => reply[c] \in {"pending", "ok"}
    /\ at[c] = "back" =>
          reply[c] \in IF request[c].op = "get" THEN Contents \cup {"missing", "truncated", "error"}
                       ELSE {"ok", "exists", "error"}
    /\ at[c] \in {"stat", "restat"} => request[c].op = "create"
    /\ at[c] \in Writing => request[c].op \in {"create", "put"}
    /\ at[c] \in {"size", "read"} => request[c].op = "get"
    /\ at[c] = "size" => met[c] = None
    /\ at[c] = "read" => met[c] \in Contents
    /\ at[c] = "remove" => request[c].op = "delete"
    /\ at[c] \in Waiting \cup {"clean"} => (at[c] = "request" <=> backend = "atomic")
    /\ at[c] = "walk" => job[c].kind = "list"
    /\ at[c] # "over" => outcome[c] = "none"

\* A written key is told to its writer, or its connection was lost.
ConfigWritten(w) ==
    \/ at[w] = "clean" /\ reply[w] = "ok" /\ request[w].op = "create"
    \/ at[w] = "back" /\ request[w].op = "create" /\ reply[w] \in {"ok", "error"}
    \/ at[w] = "size" /\ request[w].op = "get"
    \/ at[w] = "read" /\ request[w].op = "get" /\ met[w] = w
    \/ at[w] = "back" /\ request[w].op = "get" /\ reply[w] \in {w, "error"}
    \/ at[w] = "over" /\ outcome[w] \in {"ok", "error"}

ConfigOwned ==
    /\ file[Config] \in Client \cup {None}
    /\ \A c \in Client :
          /\ job[c].kind = "init" /\ ~Lenient
          /\ \/ at[c] = "back" /\ request[c].op = "get" /\ reply[c] = c
             \/ outcome[c] = "ok"
          => file[Config] = c
    /\ backend # "atomic" =>
          \A w \in Client : file[Config] = w => job[w].kind = "init" /\ ConfigWritten(w)

\* Nobody else deletes the snapshots of this client, or replaces them.
Undisturbed(c) ==
    \A other \in Client \ {c} :
        job[other].id = job[c].id =>
            /\ job[other].kind # "forget"
            /\ Lenient => job[other].kind # "commit"

CommitOwned(c) ==
    /\ job[c].kind = "commit" /\ c \notin dead /\ Undisturbed(c)
    /\ \/ at[c] \in {"clean", "back"} /\ reply[c] = "ok"
       \/ outcome[c] = "ok"
    => file[Snapshot(job[c].id, attempt[c])] = c

\* Over sftp:// a stored object keeps its directories, and no rclone dies.
DirsStay ==
    backend = "sftp" =>
        /\ dead = {}
        /\ \A k \in Stored : PathTo(DirOf(k)) \subseteq dirs
        /\ \A c \in Client : at[c] \in {"open", "write", "publish"} =>
              PathTo(DirOf(request[c].key)) \subseteq dirs

\* What was there all the time is found, or its directory is still to open.
Listing(c) ==
    /\ walk[c].found \subseteq seen[c]
    /\ at[c] = "walk" => Stored \subseteq seen[c]
    /\ present[c] \subseteq SnapshotKeys \cap Stored
    /\ at[c] = "walk" /\ ~Lenient =>
          /\ walk[c].left \subseteq IF backend = "atomic" THEN {Top} ELSE {Top} \cup dirs
          /\ \A k \in present[c] : k \in walk[c].found \/ {Top, DirOf(k)} \cap walk[c].left # {}
    /\ job[c].kind = "list" /\ outcome[c] = "ok" /\ ~Lenient => present[c] \subseteq walk[c].found

IInv ==
    /\ StorageType /\ ConfigOwned /\ DirsStay
    /\ \A c \in Client : Progress(c) /\ CommitOwned(c) /\ Listing(c)

-----------------------------------------------------------------------------
(***************************************************************************)
(* Types.                                                                  *)
(***************************************************************************)
\* Where a key lies: a directory of its own client, or the top.
LEMMA KeyFacts ==
    /\ Config \in Key /\ Touch \in Key /\ Config # Touch
    /\ \A id \in Ids, n \in 0 .. MaxAttempts - 1 : Snapshot(id, n) \in Key
    /\ \A id \in Ids : \A n : Snapshot(id, n) \notin {Config, Touch}
    /\ \A k \in Key : /\ DirOf(k) \in Dir /\ PathTo(DirOf(k)) \subseteq Dir \ {Root}
                      /\ k \notin Client
  BY NamesDiffer
     DEF Key, Config, Touch, Snapshot, MaxAttempts, DirOf, Dir, PathTo, Parent, Top

\* A client that has asked has asked for a key.
LEMMA KeyTyped ==
    ASSUME StorageType, NEW c \in Client, Progress(c), at[c] \in Calling
    PROVE  request[c].key \in Key
<1>1. CASE job[c].kind = "commit"
  <2>1. request[c] = Ask("create", Snapshot(job[c].id, attempt[c]))
    BY <1>1 DEF Progress, Wants
  <2>2. request[c].op # "none"
    BY <2>1 DEF Ask
  <2> QED BY <2>2 DEF StorageType, Requests, NoRequest
<1>2. CASE job[c].kind # "commit"
  BY <1>2, KeyFacts DEF Progress, Wants, Ask, StorageType, Jobs, MaxAttempts
<1> QED BY <1>1, <1>2

\* A request keeps the types of what it can change.
LEMMA CallType ==
    ASSUME StorageType, NEW c \in Client, NEW op \in {"create", "put", "get", "delete"},
           NEW k \in Key, Call(c, op, k)
    PROVE  /\ at' \in [Client -> Phases] /\ request' \in [Client -> Requests \cup {NoRequest}]
           /\ reply' \in [Client -> Contents \cup Verdicts]
           /\ met' \in [Client -> Contents \cup {None}]
<1>1. FirstPhase(op) \in Phases
  <2>1. FirstPhase("create") \in Phases
    BY DEF FirstPhase, Phases
  <2>2. FirstPhase("put") \in Phases
    BY DEF FirstPhase, Phases
  <2>3. FirstPhase("get") \in Phases
    BY DEF FirstPhase, Phases
  <2>4. FirstPhase("delete") \in Phases
    BY DEF FirstPhase, Phases
  <2> QED BY <2>1, <2>2, <2>3, <2>4
<1>2. at' \in [Client -> Phases]
  BY <1>1 DEF Call, Go, StorageType
<1>3. request' \in [Client -> Requests \cup {NoRequest}]
  BY DEF Call, StorageType, Requests
<1>4. reply' \in [Client -> Contents \cup Verdicts]
  BY DEF Call, StorageType, Verdicts
<1>5. met' \in [Client -> Contents \cup {None}]
  BY DEF Call, StorageType
<1> QED BY <1>2, <1>3, <1>4, <1>5

\* So does an answer, and what comes before it.
LEMMA GoType ==
    ASSUME StorageType, NEW c \in Client,
           \E p \in Phases, r \in Contents \cup Verdicts :
              Go(c, p) /\ (UNCHANGED reply \/ Reply(c, r))
    PROVE  at' \in [Client -> Phases] /\ reply' \in [Client -> Contents \cup Verdicts]
<1>1. PICK p \in Phases, r \in Contents \cup Verdicts :
         Go(c, p) /\ (UNCHANGED reply \/ Reply(c, r))
  OBVIOUS
<1>2. at \in [Client -> Phases] /\ reply \in [Client -> Contents \cup Verdicts]
  BY DEF StorageType
<1> QED BY <1>1, <1>2 DEF Go, Reply

\* So does a change of a stored object, with what the listings note of it.
LEMMA FileType ==
    ASSUME StorageType, NEW k \in Key, NEW v \in Client \cup {None},
           NoChange \/ Store(k, v)
    PROVE  /\ file' \in [Key -> Contents \cup {None}]
           /\ present' \in [Client -> SUBSET Key] /\ seen' \in [Client -> SUBSET Key]
<1>1. CASE NoChange
  BY <1>1 DEF NoChange, StorageType
<1>2. CASE Store(k, v)
  BY <1>2 DEF Store, Watch, StorageType, Contents
<1> QED BY <1>1, <1>2

\* Every action keeps the types.
LEMMA TypeStep ==
    ASSUME StorageType, \A c \in Client : Progress(c), [StorageNext]_storageVars
    PROVE  StorageType'
<1> USE NamesDiffer
<1>1. CASE UNCHANGED storageVars
  BY <1>1 DEF StorageType, storageVars, callVars, listVars
<1>2. CASE DirVanishes
  BY <1>2 DEF StorageType, DirVanishes, callVars, listVars
<1>2a. ASSUME NEW c \in Client, Die(c) PROVE StorageType'
  BY <1>2a DEF StorageType, Die, callVars, listVars
<1>3. ASSUME NEW c \in Client, at[c] \in Calling PROVE request[c].key \in Key
  BY <1>3, KeyTyped
<1>4. ASSUME NEW c \in Client, UNCHANGED <<backend, job>>,
             dirs' # dirs => dirs' = dirs \cup PathTo(DirOf(request[c].key)) /\ at[c] \in Calling,
             scratch' \in [Client -> Dir \cup {None}],
             /\ file' \in [Key -> Contents \cup {None}]
             /\ present' \in [Client -> SUBSET Key] /\ seen' \in [Client -> SUBSET Key],
             at' \in [Client -> Phases], request' \in [Client -> Requests \cup {NoRequest}],
             reply' \in [Client -> Contents \cup Verdicts],
             met' \in [Client -> Contents \cup {None}], dead' = dead,
             attempt' \in [Client -> 0 .. MaxAttempts - 1],
             outcome' \in [Client -> Contents \cup Verdicts \cup {"collided", "concurrent"}],
             walk' \in [Client -> [left : SUBSET Dir, found : SUBSET (Key \cup Client)]]
      PROVE  StorageType'
  <2>1. dirs' \subseteq Dir \ {Root}
    BY <1>3, <1>4, KeyFacts DEF StorageType
  <2> QED BY <1>4, <2>1 DEF StorageType, Phases, Requests
<1>5. ASSUME NEW c \in Client,
             \/ Stat(c) \/ EnsureDir(c) \/ OpenScratch(c) \/ WriteScratch(c)
             \/ Clean(c) \/ Restat(c) \/ Size(c) \/ Read(c) \/ FalseSuccess(c)
      PROVE  StorageType'
  <2>1. at[c] \in Calling /\ NoChange
    BY <1>5 DEF Stat, EnsureDir, OpenScratch, WriteScratch, Clean, Restat, Size, Read,
                FalseSuccess, Calling, Waiting
  <2>2. request[c].key \in Key
    BY <1>3, <2>1
  <2>3. scratch' \in [Client -> Dir \cup {None}]
    <3>1. DirOf(request[c].key) \in Dir
      BY <2>2, KeyFacts
    <3>2. \/ scratch' = scratch \/ scratch' = [scratch EXCEPT ![c] = None]
          \/ scratch' = [scratch EXCEPT ![c] = DirOf(request[c].key)]
      BY <1>5 DEF Stat, EnsureDir, OpenScratch, WriteScratch, Clean, Restat, Size, Read,
                  FalseSuccess
    <3>3. scratch \in [Client -> Dir \cup {None}]
      BY DEF StorageType
    <3> QED BY <3>1, <3>2, <3>3
  <2>4. at' \in [Client -> Phases] /\ reply' \in [Client -> Contents \cup Verdicts]
    <3> DEFINE Goes == \E p \in Phases, r \in Contents \cup Verdicts :
                          Go(c, p) /\ (UNCHANGED reply \/ Reply(c, r))
    <3>1. CASE Stat(c) \/ Restat(c)
      <4>1. Goes
        BY <3>1 DEF Stat, Restat, Back, Phases, Verdicts
      <4> QED BY <4>1, GoType
    <3>2. CASE EnsureDir(c) \/ OpenScratch(c) \/ WriteScratch(c) \/ Clean(c) \/ FalseSuccess(c)
      <4>1. Goes
        BY <3>2 DEF EnsureDir, OpenScratch, WriteScratch, Clean, FalseSuccess, Back, Phases, Verdicts
      <4> QED BY <4>1, GoType
    <3>3. CASE Size(c)
      <4>1. Goes
        BY <3>3 DEF Size, Back, Phases, Verdicts
      <4> QED BY <4>1, GoType
    <3>4. CASE Read(c)
      <4>1. PICK r \in Contents \cup Verdicts : Back(c, r)
        BY <2>2, <3>4 DEF StorageType, Read, Cut, Exists, Verdicts
      <4>2. "back" \in Phases
        BY DEF Phases
      <4> QED BY <4>1, <4>2, GoType DEF Back
    <3> QED BY <1>5, <3>1, <3>2, <3>3, <3>4
  <2>5. UNCHANGED <<backend, dead, job, request, attempt, outcome, walk>>
    BY <1>5 DEF Stat, EnsureDir, OpenScratch, WriteScratch, Clean, Restat, Size, Read, FalseSuccess
  <2>6. dirs' = dirs \/ dirs' = dirs \cup PathTo(DirOf(request[c].key))
    BY <1>5 DEF Stat, EnsureDir, OpenScratch, WriteScratch, Clean, Restat, Size, Read, FalseSuccess
  <2>7. met' \in [Client -> Contents \cup {None}]
    <3>1. met' = met \/ (Exists(request[c].key) /\ met' = [met EXCEPT ![c] = file[request[c].key]])
      BY <1>5 DEF Stat, EnsureDir, OpenScratch, WriteScratch, Clean, Restat, Size, Read,
                  FalseSuccess
    <3> QED BY <2>2, <3>1 DEF StorageType
  <2> QED BY <1>4, <2>1, <2>2, <2>3, <2>4, <2>5, <2>6, <2>7, FileType DEF StorageType
<1>6. ASSUME NEW c \in Client, Publish(c) \/ Unlink(c) \/ AtomicRequest(c) \/ Drop(c)
      PROVE  StorageType'
  <2>1. at[c] \in Calling
    BY <1>6 DEF Publish, Unlink, AtomicRequest, Drop, Calling, Waiting
  <2>2. request[c].key \in Key
    BY <1>3, <2>1
  <2>3. NoChange \/ \E v \in Client \cup {None} : Store(request[c].key, v)
    BY <1>6 DEF Publish, Unlink, AtomicRequest, Drop
  <2>4. /\ file' \in [Key -> Contents \cup {None}]
        /\ present' \in [Client -> SUBSET Key] /\ seen' \in [Client -> SUBSET Key]
    BY <2>2, <2>3, FileType
  <2>5. scratch' \in [Client -> Dir \cup {None}]
    BY <1>6 DEF StorageType, Publish, Unlink, AtomicRequest, Drop
  <2>6. at' \in [Client -> Phases] /\ reply' \in [Client -> Contents \cup Verdicts]
    <3>1. \/ UNCHANGED <<at, reply>>
          \/ Go(c, "clean") /\ (UNCHANGED reply \/ Reply(c, "ok"))
          \/ \E r \in Contents \cup Verdicts : Go(c, "back") /\ Reply(c, r)
      BY <1>6, <2>2
         DEF StorageType, Publish, Unlink, AtomicRequest, Drop, Verdicts, Exists, Back
    <3>2. {"clean", "back"} \subseteq Phases /\ "ok" \in Verdicts
      BY DEF Phases, Verdicts
    <3>3. CASE UNCHANGED <<at, reply>>
      BY <3>3 DEF StorageType
    <3> QED BY <3>1, <3>2, <3>3, GoType
  <2>7. UNCHANGED <<backend, dead, dirs, job, request, met, attempt, outcome, walk>>
    BY <1>6 DEF Publish, Unlink, AtomicRequest, Drop
  <2> QED BY <1>4, <2>4, <2>5, <2>6, <2>7 DEF StorageType
<1>7. ASSUME NEW c \in Client, OpenDir(c) \/ ListAtOnce(c) \/ EndList(c) \/ ListFails(c)
      PROVE  StorageType'
  <2>1. UNCHANGED <<backend, dead, dirs, scratch, job, file, present, seen, request, reply, met,
                    attempt>>
    BY <1>7 DEF OpenDir, ListAtOnce, EndList, ListFails, NoChange, callVars
  <2>2. at' \in [Client -> Phases]
    BY <1>7 DEF StorageType, OpenDir, ListAtOnce, EndList, ListFails, callVars, End, Go, Phases
  <2>3. outcome' \in [Client -> Contents \cup Verdicts \cup {"collided", "concurrent"}]
    BY <1>7 DEF StorageType, OpenDir, ListAtOnce, EndList, ListFails, End, Verdicts
  <2>4. walk' \in [Client -> [left : SUBSET Dir, found : SUBSET (Key \cup Client)]]
    <3>1. CASE EndList(c) \/ ListFails(c)
      BY <3>1 DEF EndList, ListFails, StorageType
    <3>2. CASE ListAtOnce(c)
      BY <3>2 DEF ListAtOnce, StorageType, SnapshotKeys
    <3>3. CASE OpenDir(c)
      <4>1. walk[c] \in [left : SUBSET Dir, found : SUBSET (Key \cup Client)]
        BY DEF StorageType
      <4>2. \A d : Subdirs(d) \subseteq Dir /\ ShownIn(d) \subseteq Key \cup Client
        BY DEF StorageType, Subdirs, ShownIn, Names, Stored
      <4>3. PICK d \in walk[c].left :
               walk' = [walk EXCEPT ![c] =
                      IF d \in dirs
                      THEN [left |-> (walk[c].left \ {d}) \cup Subdirs(d),
                            found |-> walk[c].found \cup ShownIn(d)]
                      ELSE [walk[c] EXCEPT !.left = {}]]
        BY <3>3 DEF OpenDir
      <4> QED BY <4>1, <4>2, <4>3 DEF StorageType
    <3> QED BY <1>7, <3>1, <3>2, <3>3
  <2> QED BY <1>4, <2>1, <2>2, <2>3, <2>4 DEF StorageType
<1>8. ASSUME NEW c \in Client, Start(c)
      PROVE  StorageType'
  <2>1. UNCHANGED <<backend, dead, file, dirs, scratch, job, attempt, outcome>>
    BY <1>8 DEF Start
  <2>2. job[c].id \in Ids /\ \A n \in 0 .. 2 : Snapshot(job[c].id, n) \in Key
    BY KeyFacts DEF StorageType, Jobs, MaxAttempts
  <2>3. CASE job[c].kind # "list"
    <3>1. UNCHANGED listVars /\ \E op \in {"create", "put", "get", "delete"}, k \in Key : Call(c, op, k)
      BY <1>8, <2>2, <2>3, KeyFacts DEF Start
    <3> QED BY <1>4, <2>1, <3>1, CallType DEF StorageType, listVars
  <2>4. CASE job[c].kind = "list"
    <3>1. /\ Go(c, "walk") /\ UNCHANGED <<request, reply, met>>
          /\ walk' = [walk EXCEPT ![c].left = {Top}]
          /\ present' = [present EXCEPT ![c] = SnapshotKeys \cap Stored]
          /\ seen' = [seen EXCEPT ![c] = Stored]
      BY <1>8, <2>4 DEF Start
    <3>2. walk' \in [Client -> [left : SUBSET Dir, found : SUBSET (Key \cup Client)]]
      <4>1. {Top} \in SUBSET Dir
        BY DEF Dir
      <4>2. walk[c] \in [left : SUBSET Dir, found : SUBSET (Key \cup Client)]
        BY DEF StorageType
      <4>3. [walk[c] EXCEPT !.left = {Top}] \in [left : SUBSET Dir, found : SUBSET (Key \cup Client)]
        BY <4>1, <4>2
      <4>4. walk' = [walk EXCEPT ![c] = [walk[c] EXCEPT !.left = {Top}]]
        BY <3>1
      <4> QED BY <4>3, <4>4 DEF StorageType
    <3>3. present' \in [Client -> SUBSET Key] /\ seen' \in [Client -> SUBSET Key]
      BY <3>1 DEF StorageType, SnapshotKeys, Stored
    <3>4. at' \in [Client -> Phases]
      BY <3>1 DEF StorageType, Go, Phases
    <3> QED BY <1>4, <2>1, <3>1, <3>2, <3>3, <3>4 DEF StorageType
  <2> QED BY <2>3, <2>4
<1>9. ASSUME NEW c \in Client, InitReturns(c) \/ CommitReturns(c) \/ OtherReturns(c)
      PROVE  StorageType'
  <2>1. UNCHANGED <<backend, dead, file, dirs, scratch, job, walk, present, seen>>
    BY <1>9 DEF InitReturns, CommitReturns, OtherReturns, NoChange
  <2>2. attempt' \in [Client -> 0 .. MaxAttempts - 1]
    BY <1>9 DEF StorageType, InitReturns, CommitReturns, OtherReturns, MaxAttempts
  <2>3. outcome' \in [Client -> Contents \cup Verdicts \cup {"collided", "concurrent"}]
    BY <1>9 DEF StorageType, InitReturns, CommitReturns, OtherReturns, End, Verdicts
  <2>4. \/ UNCHANGED <<request, reply, met>> /\ Go(c, "over")
        \/ \E op \in {"create", "put", "get", "delete"}, k \in Key : Call(c, op, k)
    <3>1. CASE InitReturns(c)
      BY <3>1, KeyFacts DEF InitReturns, End
    <3>2. CASE CommitReturns(c)
      <4>1. CASE UNCHANGED <<request, reply, met>> /\ End(c, outcome'[c])
        BY <4>1 DEF End
      <4>2. CASE Call(c, "create", Snapshot(job[c].id, attempt[c] + 1)) /\ attempt[c] + 1 < MaxAttempts
        <5>1. job[c].id \in Ids /\ attempt[c] \in 0 .. 3
          BY DEF StorageType, Jobs, MaxAttempts
        <5>2. attempt[c] + 1 \in 0 .. MaxAttempts - 1
          BY <4>2, <5>1 DEF MaxAttempts
        <5> QED BY <4>2, <5>1, <5>2, KeyFacts
      <4> QED BY <3>2, <4>1, <4>2 DEF CommitReturns, End, StorageType
    <3>3. CASE OtherReturns(c)
      BY <3>3 DEF OtherReturns, End
    <3> QED BY <1>9, <3>1, <3>2, <3>3
  <2>5. /\ at' \in [Client -> Phases] /\ request' \in [Client -> Requests \cup {NoRequest}]
        /\ reply' \in [Client -> Contents \cup Verdicts] /\ met' \in [Client -> Contents \cup {None}]
    BY <2>4, CallType DEF StorageType, Go, Phases, Requests
  <2> QED BY <1>4, <2>1, <2>2, <2>3, <2>5 DEF StorageType
<1> QED BY <1>1, <1>2, <1>2a, <1>5, <1>6, <1>7, <1>8, <1>9 DEF StorageNext

\* The first state has the types.
LEMMA TypeInit == StorageInit => StorageType
<1> SUFFICES ASSUME StorageInit PROVE StorageType
  OBVIOUS
<1>1. file \in [Key -> Contents \cup {None}] /\ dirs \subseteq Dir \ {Root}
  BY NamesDiffer DEF StorageInit, Contents, Dir, DirOf, Snapshot
<1>2. at \in [Client -> Phases]
  BY DEF StorageInit, Phases
<1>3. /\ backend \in {"sftp", "rclone", "atomic"} /\ job \in [Client -> Jobs]
      /\ scratch \in [Client -> Dir \cup {None}]
      /\ request \in [Client -> Requests \cup {NoRequest}]
      /\ reply \in [Client -> Contents \cup Verdicts]
      /\ met \in [Client -> Contents \cup {None}] /\ dead \subseteq Client
      /\ attempt \in [Client -> 0 .. MaxAttempts - 1]
      /\ outcome \in [Client -> Contents \cup Verdicts \cup {"collided", "concurrent"}]
      /\ present \in [Client -> SUBSET Key] /\ seen \in [Client -> SUBSET Key]
  BY PlansAssumption DEF StorageInit, Verdicts, MaxAttempts
<1>4. walk \in [Client -> [left : SUBSET Dir, found : SUBSET (Key \cup Client)]]
  BY DEF StorageInit, NoWalk
<1> QED BY <1>1, <1>2, <1>3, <1>4 DEF StorageType
-----------------------------------------------------------------------------
(***************************************************************************)
(* What a step of a client does to the rest.                               *)
(***************************************************************************)
Still(d) ==
    /\ at'[d] = at[d] /\ request'[d] = request[d] /\ reply'[d] = reply[d]
    /\ met'[d] = met[d]
    /\ attempt'[d] = attempt[d] /\ outcome'[d] = outcome[d] /\ walk'[d] = walk[d]

\* Only the object that was asked for changes, and a conditional put does not
\* replace one, but on the rclone bridge.
FileMove(c) ==
    \/ file' = file
    \/ /\ at[c] \in {"publish", "request"} /\ request[c].op \in {"create", "put"}
       /\ request[c].op = "create" => Lenient \/ file[request[c].key] = None
       /\ file' = [file EXCEPT ![request[c].key] = c]
    \/ /\ at[c] \in {"remove", "request"} /\ request[c].op = "delete"
       /\ file' = [file EXCEPT ![request[c].key] = None]

StartsList(c) ==
    /\ at[c] = "start" /\ at'[c] = "walk" /\ job[c].kind = "list" /\ file' = file
    /\ present' = [present EXCEPT ![c] = SnapshotKeys \cap Stored]
    /\ seen' = [seen EXCEPT ![c] = Stored]
    /\ walk'[c] = [walk[c] EXCEPT !.left = {Top}]

ClientStep(c) ==
    /\ UNCHANGED <<backend, dead, job>>
    /\ \A d \in Client \ {c} : Still(d)
    /\ FileMove(c)
    /\ NoChange \/ Watch(file') \/ StartsList(c)
    /\ dirs \subseteq dirs'

\* Every action of a client is such a step.
LEMMA ClientSteps ==
    ASSUME StorageType, NEW c \in Client, Progress(c),
           \/ Start(c)
           \/ Stat(c) \/ EnsureDir(c) \/ OpenScratch(c) \/ WriteScratch(c)
           \/ Publish(c) \/ Clean(c) \/ Restat(c)
           \/ Size(c) \/ Read(c) \/ Unlink(c) \/ AtomicRequest(c)
           \/ OpenDir(c) \/ ListAtOnce(c) \/ EndList(c)
           \/ InitReturns(c) \/ CommitReturns(c) \/ OtherReturns(c)
           \/ Drop(c) \/ FalseSuccess(c) \/ ListFails(c)
    PROVE  ClientStep(c)
<1>1. UNCHANGED <<backend, dead, job>> /\ dirs \subseteq dirs'
  BY DEF Start, Stat, EnsureDir, OpenScratch, WriteScratch, Publish, Clean, Restat, Size, Read,
         Unlink, AtomicRequest, OpenDir, ListAtOnce, EndList, InitReturns, CommitReturns,
         OtherReturns, Drop, FalseSuccess, ListFails
<1>2. \A d \in Client \ {c} : /\ at'[d] = at[d] /\ reply'[d] = reply[d]
                            /\ request'[d] = request[d] /\ met'[d] = met[d]
  BY DEF Start, Stat, EnsureDir, OpenScratch, WriteScratch, Publish, Clean, Restat, Size, Read,
         Unlink, AtomicRequest, OpenDir, ListAtOnce, EndList, InitReturns, CommitReturns,
         OtherReturns, Drop, FalseSuccess, ListFails, Go, Back, Reply, End, Call, callVars,
         StorageType
<1>3. \A d \in Client \ {c} :
          attempt'[d] = attempt[d] /\ outcome'[d] = outcome[d] /\ walk'[d] = walk[d]
  BY DEF Start, Stat, EnsureDir, OpenScratch, WriteScratch, Publish, Clean, Restat, Size, Read,
         Unlink, AtomicRequest, OpenDir, ListAtOnce, EndList, InitReturns, CommitReturns,
         OtherReturns, Drop, FalseSuccess, ListFails, End, listVars, StorageType
<1>4. CASE ~ (Publish(c) \/ Unlink(c) \/ AtomicRequest(c) \/ Drop(c) \/ Start(c))
  <2>1. NoChange
    BY <1>4 DEF Stat, EnsureDir, OpenScratch, WriteScratch, Clean, Restat, Size, Read, OpenDir,
                ListAtOnce, EndList, InitReturns, CommitReturns, OtherReturns, FalseSuccess,
                ListFails
  <2> QED BY <1>1, <1>2, <1>3, <2>1 DEF ClientStep, Still, FileMove, NoChange
<1>5. CASE Start(c)
  <2>1. file' = file /\ (NoChange \/ StartsList(c))
    BY <1>5 DEF Start, NoChange, StartsList, Go, StorageType, listVars
  <2> QED BY <1>1, <1>2, <1>3, <2>1 DEF ClientStep, Still, FileMove
<1>6. CASE Publish(c)
  <2>1. FileMove(c) /\ (NoChange \/ Watch(file'))
    BY <1>6 DEF Publish, Progress, Writing, Renames, Exists, Store, FileMove, NoChange
  <2> QED BY <1>1, <1>2, <1>3, <2>1 DEF ClientStep, Still
<1>7. CASE Unlink(c)
  <2>1. FileMove(c) /\ (NoChange \/ Watch(file'))
    BY <1>7 DEF Unlink, Progress, Store, FileMove
  <2> QED BY <1>1, <1>2, <1>3, <2>1 DEF ClientStep, Still
<1>8. CASE AtomicRequest(c)
  <2>1. FileMove(c) /\ (NoChange \/ Watch(file'))
    BY <1>8 DEF AtomicRequest, Exists, Store, FileMove, NoChange
  <2> QED BY <1>1, <1>2, <1>3, <2>1 DEF ClientStep, Still
<1>9. CASE Drop(c)
  <2>1. FileMove(c) /\ (NoChange \/ Watch(file'))
    BY <1>9 DEF Drop, Progress, Writing, Renames, Exists, Store, FileMove, NoChange
  <2> QED BY <1>1, <1>2, <1>3, <2>1 DEF ClientStep, Still
<1> QED BY <1>4, <1>5, <1>6, <1>7, <1>8, <1>9

ClientNext(c) ==
    \/ Start(c)
    \/ Stat(c) \/ EnsureDir(c) \/ OpenScratch(c) \/ WriteScratch(c)
    \/ Publish(c) \/ Clean(c) \/ Restat(c)
    \/ Size(c) \/ Read(c) \/ Unlink(c) \/ AtomicRequest(c)
    \/ OpenDir(c) \/ ListAtOnce(c) \/ EndList(c)
    \/ InitReturns(c) \/ CommitReturns(c) \/ OtherReturns(c)
    \/ Drop(c) \/ FalseSuccess(c) \/ ListFails(c)

\* A call begins in a phase of its own kind.
LEMMA CallFacts ==
    ASSUME StorageType, NEW c \in Client, NEW op \in {"create", "put", "get", "delete"},
           NEW k, Call(c, op, k)
    PROVE  /\ request'[c] = Ask(op, k) /\ request'[c].op = op /\ reply'[c] = "pending"
           /\ met'[c] = None
           /\ backend = "atomic" => at'[c] = "request"
           /\ backend # "atomic" =>
                 /\ op = "create" => at'[c] = "stat"
                 /\ op = "put" => at'[c] = "mkdir"
                 /\ op = "get" => at'[c] = "size"
                 /\ op = "delete" => at'[c] = "remove"
<1>1. /\ request'[c] = [op |-> op, key |-> k] /\ reply'[c] = "pending"
      /\ at'[c] = FirstPhase(op) /\ met'[c] = None
  BY DEF Call, Go, StorageType
<1>2. CASE backend = "atomic"
  BY <1>1, <1>2 DEF FirstPhase, Ask
<1>3. CASE backend # "atomic"
  BY <1>1, <1>3 DEF FirstPhase, Ask
<1> QED BY <1>2, <1>3

\* Every step keeps Progress.
LEMMA ProgressStep ==
    ASSUME StorageType, StorageType', NEW c \in Client, Progress(c), ClientNext(c)
    PROVE  Progress(c)'
<1>0. ClientStep(c) /\ UNCHANGED <<backend, job>>
  BY ClientSteps DEF ClientNext, ClientStep
<1> USE NamesDiffer
<1> USE DEF Waiting, Calling, Writing
<1>1. ASSUME Stat(c) \/ EnsureDir(c) \/ OpenScratch(c) \/ WriteScratch(c) \/ Clean(c)
                \/ Restat(c) \/ Publish(c) \/ (FalseSuccess(c) /\ at[c] # "remove")
      PROVE  Progress(c)'
  <2>1. UNCHANGED <<request, attempt, outcome, walk>>
    BY <1>1 DEF Stat, EnsureDir, OpenScratch, WriteScratch, Clean, Restat, Publish,
                FalseSuccess
  <2>2. Wants(c)' <=> Wants(c)
    BY <1>0, <2>1 DEF Wants
  <2>3. /\ request[c].op \in {"create", "put"}
        /\ \/ at'[c] = "back" /\ reply'[c] \in {"exists", "error", "ok"}
           \/ at'[c] \in {"mkdir", "open", "write", "publish"} /\ reply'[c] = "pending"
           \/ at'[c] = "restat" /\ reply'[c] = "pending" /\ request[c].op = "create"
           \/ at'[c] = "clean" /\ reply'[c] \in {"pending", "ok"}
    BY <1>1 DEF StorageType, Progress, Stat, EnsureDir, OpenScratch, WriteScratch, Clean, Restat,
           Publish, FalseSuccess, Back, Go, Reply
  <2>4. at[c] \in Waiting \cup {"clean"} /\ backend # "atomic" /\ outcome[c] = "none"
    BY <1>1 DEF Progress, Stat, EnsureDir, OpenScratch, WriteScratch, Clean, Restat, Publish,
                FalseSuccess
  <2> QED BY <1>0, <2>1, <2>2, <2>3, <2>4 DEF Progress
<1>2. ASSUME Read(c) \/ Unlink(c) \/ AtomicRequest(c) \/ Drop(c) \/ Size(c)
                \/ (FalseSuccess(c) /\ at[c] = "remove")
      PROVE  Progress(c)'
  <2>1. UNCHANGED <<request, attempt, outcome, walk>>
    BY <1>2 DEF Size, Read, Unlink, AtomicRequest, Drop, FalseSuccess
  <2>2. Wants(c)' <=> Wants(c)
    BY <1>0, <2>1 DEF Wants
  <2>3. at[c] \in Waiting
    BY <1>2 DEF Size, Read, Unlink, AtomicRequest, Drop, FalseSuccess
  <2>4. CASE UNCHANGED <<at, reply, met>>
    BY <1>0, <2>1, <2>2, <2>4 DEF Progress
  <2>5. ASSUME at'[c] = "back",
               reply'[c] \in IF request[c].op = "get"
                             THEN Contents \cup {"missing", "truncated", "error"}
                             ELSE {"ok", "exists", "error"}
        PROVE  Progress(c)'
    BY <1>0, <2>1, <2>2, <2>3, <2>5 DEF Progress
  <2>6. CASE Read(c)
    <3>1. request[c].key \in Key
      BY <2>6, <2>3, KeyTyped
    <3>2. at'[c] = "back" /\ reply'[c] \in Contents \cup {"missing", "truncated", "error"}
          /\ request[c].op = "get"
      BY <2>6, <3>1 DEF StorageType, Progress, Read, Cut, Back, Go, Reply, Exists
    <3> QED BY <2>5, <3>2
  <2>7. CASE at[c] = "remove" /\ (Unlink(c) \/ FalseSuccess(c))
    <3>1. Back(c, "ok") /\ request[c].op # "get"
      BY <2>7 DEF Progress, Unlink, FalseSuccess
    <3>2. at'[c] = "back" /\ reply'[c] = "ok"
      BY <3>1 DEF StorageType, Back, Go, Reply
    <3> QED BY <2>5, <3>1, <3>2
  <2>8. CASE Drop(c)
    BY <2>5, <2>8 DEF StorageType, Drop, Back, Go, Reply
  <2>9. CASE AtomicRequest(c)
    <3>1. request[c].key \in Key
      BY <2>3, KeyTyped
    <3>2. \/ UNCHANGED <<at, reply, met>>
          \/ Back(c, "ok") /\ request[c].op # "get"
          \/ Back(c, "exists") /\ request[c].op # "get"
          \/ request[c].op = "get" /\ \E r \in Contents \cup {"missing"} : Back(c, r)
      BY <2>9, <3>1 DEF AtomicRequest, Exists, StorageType
    <3> QED BY <2>4, <2>5, <3>2 DEF StorageType, Back, Go, Reply
  <2>10. CASE Size(c)
    <3>1. request[c].key \in Key /\ request[c].op = "get" /\ backend # "atomic"
      BY <2>10, <2>3, KeyTyped DEF Size, Progress
    <3>2. CASE Back(c, "missing")
      BY <2>5, <3>1, <3>2 DEF StorageType, Back, Go, Reply
    <3>3. CASE Exists(request[c].key) /\ met' = [met EXCEPT ![c] = file[request[c].key]]
               /\ Go(c, "read") /\ UNCHANGED reply
      <4>1. at'[c] = "read" /\ reply'[c] = "pending" /\ met'[c] \in Contents
        BY <2>3, <3>1, <3>3 DEF StorageType, Go, Exists, Progress
      <4> QED BY <1>0, <2>1, <2>2, <2>3, <3>1, <4>1 DEF Progress
    <3> QED BY <2>10, <3>2, <3>3 DEF Size
  <2> QED BY <1>2, <2>6, <2>7, <2>8, <2>9, <2>10 DEF Unlink
<1>3. ASSUME OpenDir(c) \/ ListAtOnce(c) \/ EndList(c) \/ ListFails(c)
      PROVE  Progress(c)'
  <2>1. \/ at'[c] = "walk" /\ outcome'[c] = outcome[c]
        \/ at'[c] = "over"
    BY <1>3 DEF StorageType, OpenDir, ListAtOnce, EndList, ListFails, End, Go, callVars
  <2>2. at[c] = "walk"
    BY <1>3 DEF OpenDir, ListAtOnce, EndList, ListFails
  <2> QED BY <1>0, <2>1, <2>2 DEF Progress
<1>4. ASSUME Start(c) \/ InitReturns(c) \/ CommitReturns(c) \/ OtherReturns(c)
      PROVE  Progress(c)'
  <2>1. at[c] \in {"start", "back"} /\ outcome[c] = "none"
    BY <1>4 DEF Progress, Start, InitReturns, CommitReturns, OtherReturns
  <2>2. CASE at'[c] = "over"
    BY <2>2 DEF Progress
  <2>3. CASE Start(c) /\ job[c].kind = "list"
    <3>1. at'[c] = "walk" /\ outcome' = outcome
      BY <2>3 DEF Start, Go, StorageType
    <3> QED BY <1>0, <2>1, <2>3, <3>1 DEF Progress
  <2>4. ASSUME NEW op \in {"create", "put", "get", "delete"}, NEW k, Call(c, op, k),
               UNCHANGED outcome, Wants(c)'
        PROVE  Progress(c)'
    <3>1. /\ request'[c].op = op /\ reply'[c] = "pending" /\ met'[c] = None
          /\ \/ backend = "atomic" /\ at'[c] = "request"
             \/ /\ backend # "atomic"
                /\ \/ op = "create" /\ at'[c] = "stat"
                   \/ op = "put" /\ at'[c] = "mkdir"
                   \/ op = "get" /\ at'[c] = "size"
                   \/ op = "delete" /\ at'[c] = "remove"
      BY <2>4, CallFacts
    <3> QED BY <1>0, <2>1, <2>4, <3>1 DEF Progress
  <2>5. CASE Start(c) /\ job[c].kind # "list"
    <3>1. attempt[c] = 0 /\ attempt' = attempt /\ outcome' = outcome
      BY <2>5 DEF Start, Progress
    <3>2. \/ job[c].kind = "init" /\ Call(c, "create", Config)
          \/ job[c].kind = "commit" /\ Call(c, "create", Snapshot(job[c].id, 0))
          \/ job[c].kind = "touch" /\ Call(c, "put", Touch)
          \/ job[c].kind = "forget" /\ Call(c, "delete", Snapshot(job[c].id, 0))
          \/ job[c].kind = "read" /\ Call(c, "get", Snapshot(job[c].id, 0))
      BY <2>5 DEF Start
    <3>3. Wants(c)'
      BY <1>0, <3>1, <3>2, CallFacts DEF Wants
    <3> QED BY <2>4, <3>1, <3>2, <3>3
  <2>6. CASE InitReturns(c)
    <3>1. CASE End(c, outcome'[c])
      BY <2>2, <3>1 DEF End, Go, StorageType
    <3>2. CASE Call(c, "get", Config) /\ UNCHANGED outcome
      <4>1. Wants(c)'
        BY <1>0, <2>6, <3>2, CallFacts DEF Wants, InitReturns
      <4> QED BY <2>4, <3>2, <4>1
    <3> QED BY <2>6, <3>1, <3>2 DEF InitReturns, End, StorageType
  <2>7. CASE CommitReturns(c)
    <3>1. CASE End(c, outcome'[c])
      BY <2>2, <3>1 DEF End, Go, StorageType
    <3>2. CASE /\ Call(c, "create", Snapshot(job[c].id, attempt[c] + 1)) /\ UNCHANGED outcome
               /\ attempt' = [attempt EXCEPT ![c] = @ + 1]
      <4>1. attempt'[c] = attempt[c] + 1
        BY <3>2 DEF StorageType
      <4>2. Wants(c)'
        BY <1>0, <2>7, <3>2, <4>1, CallFacts DEF Wants, CommitReturns
      <4> QED BY <2>4, <3>2, <4>2
    <3> QED BY <2>7, <3>1, <3>2 DEF CommitReturns, End, StorageType
  <2>8. CASE OtherReturns(c)
    BY <2>2, <2>8 DEF OtherReturns, End, Go, StorageType
  <2> QED BY <1>4, <2>3, <2>5, <2>6, <2>7, <2>8
<1> QED BY <1>1, <1>2, <1>3, <1>4 DEF ClientNext

-----------------------------------------------------------------------------
(***************************************************************************)
(* The steps keep the rest of the invariant.                               *)
(***************************************************************************)
\* What a client writes or deletes, it has set out to.
LEMMA FileFacts ==
    ASSUME StorageType, NEW c \in Client, Progress(c), FileMove(c), NEW k \in Key,
           file'[k] # file[k]
    PROVE  /\ request[c].key = k /\ at[c] \in {"publish", "request", "remove"}
           /\ \/ /\ job[c].kind = "init" /\ k = Config /\ file'[k] = c
                 /\ Lenient \/ file[k] = None
              \/ /\ job[c].kind = "commit" /\ k = Snapshot(job[c].id, attempt[c])
                 /\ file'[k] = c /\ (Lenient \/ file[k] = None)
              \/ job[c].kind = "touch" /\ k = Touch /\ file'[k] = c
              \/ job[c].kind = "forget" /\ k = Snapshot(job[c].id, 0) /\ file'[k] = None
<1>1. at[c] \in Waiting /\ Wants(c)
  BY DEF FileMove, Progress, Waiting, Calling
<1>2. request[c].key \in Key
  BY <1>1, KeyTyped DEF Calling
<1>3. request[c].key = k
  BY <1>2 DEF FileMove, StorageType
<1>4. \/ /\ request[c].op \in {"create", "put"} /\ file'[k] = c
         /\ request[c].op = "create" => Lenient \/ file[k] = None
      \/ request[c].op = "delete" /\ file'[k] = None
  BY <1>3 DEF FileMove, StorageType
<1>5. at[c] \in {"publish", "request", "remove"}
  BY DEF FileMove
<1> QED BY <1>1, <1>3, <1>4, <1>5 DEF Wants, Ask

\* The answer to init's read is what the configuration holds.
LEMMA ConfigRead ==
    ASSUME StorageType, NEW c \in Client, Progress(c), ClientNext(c), job[c].kind = "init",
           at'[c] = "back", request'[c].op = "get", reply'[c] \in Contents
    PROVE  request[c].op = "get" /\ at[c] \in {"read", "request"}
           /\ file[Config] = reply'[c] /\ file' = file
<1> USE NamesDiffer
<1>1. CASE Read(c)
  <2>1. request' = request /\ file' = file /\ at[c] = "read" /\ request[c].op = "get" /\ Wants(c)
    BY <1>1 DEF Read, NoChange, Progress, Calling, Waiting
  <2>2. request[c].key = Config
    BY <2>1 DEF Wants, Ask
  <2>3. reply'[c] = IF Exists(Config) THEN Cut(met[c], file[Config]) ELSE "missing"
    BY <1>1, <2>2 DEF Read, Back, Reply, StorageType
  <2> QED BY <2>1, <2>2, <2>3 DEF Verdicts, Cut
<1>2. CASE AtomicRequest(c)
  <2>1. request' = request /\ at[c] = "request" /\ Wants(c)
    BY <1>2 DEF AtomicRequest, Progress, Calling, Waiting
  <2>2. request[c].key = Config /\ request[c].op = "get"
    BY <2>1 DEF Wants, Ask
  <2>3. reply'[c] = (IF Exists(Config) THEN file[Config] ELSE "missing") /\ file' = file
    BY <1>2, <2>2 DEF AtomicRequest, Back, Reply, StorageType, NoChange
  <2> QED BY <2>1, <2>2, <2>3 DEF Verdicts
<1>3. CASE Stat(c) \/ EnsureDir(c) \/ OpenScratch(c) \/ WriteScratch(c) \/ Clean(c)
              \/ Restat(c) \/ Publish(c)
  <2>1. request[c].op \in {"create", "put"} /\ request' = request
    BY <1>3 DEF Progress, Stat, EnsureDir, OpenScratch, WriteScratch, Clean, Restat, Publish,
                Waiting, Calling, Writing
  <2> QED BY <2>1
<1>4. CASE Unlink(c) \/ FalseSuccess(c)
  <2>1. request[c].op \in {"create", "put", "delete"} /\ request' = request
    BY <1>4 DEF Unlink, FalseSuccess, Progress, Writing
  <2> QED BY <2>1
<1>5. CASE Drop(c)
  BY <1>5 DEF Drop, Back, Reply, StorageType, Verdicts
<1>5a. CASE Size(c)
  BY <1>5a DEF Size, Back, Go, Reply, StorageType, Verdicts
<1>6. CASE OpenDir(c) \/ ListAtOnce(c) \/ EndList(c) \/ ListFails(c)
  BY <1>6 DEF StorageType, OpenDir, ListAtOnce, EndList, ListFails, End, Go, callVars
<1>7. CASE Start(c) \/ InitReturns(c) \/ CommitReturns(c) \/ OtherReturns(c)
  <2>1. at'[c] \in {"walk", "over"} \/ \E op \in {"create", "put", "get", "delete"} : \E k : Call(c, op, k)
    BY <1>7 DEF Start, InitReturns, CommitReturns, OtherReturns, End, Go, StorageType
  <2> QED BY <2>1, CallFacts
<1> QED BY <1>1, <1>2, <1>3, <1>4, <1>5, <1>5a, <1>6, <1>7 DEF ClientNext

\* How the job of a client ends.
LEMMA EndFacts ==
    ASSUME StorageType, NEW c \in Client, Progress(c), ClientNext(c), outcome'[c] # outcome[c]
    PROVE  /\ at'[c] = "over" /\ file' = file /\ attempt' = attempt
           /\ \/ job[c].kind = "list" /\ (EndList(c) \/ ListFails(c))
              \/ /\ at[c] = "back" /\ job[c].kind = "init" /\ request[c].op = "create"
                 /\ reply[c] # "ok" /\ outcome'[c] = reply[c]
              \/ /\ at[c] = "back" /\ job[c].kind = "init" /\ request[c].op = "get"
                 /\ reply[c] = c => outcome'[c] = "ok"
                 /\ reply[c] = "error" => outcome'[c] = "error"
                 /\ reply[c] # c => outcome'[c] # "ok"
              \/ /\ at[c] = "back" /\ job[c].kind \in {"commit", "touch", "forget", "read"}
                 /\ outcome'[c] = reply[c] \/ outcome'[c] # "ok"
<1> USE NamesDiffer
<1>1. CASE EndList(c) \/ ListFails(c)
  BY <1>1 DEF EndList, ListFails, End, Go, StorageType, NoChange, Progress
<1>2. CASE InitReturns(c)
  <2>1. End(c, outcome'[c])
    BY <1>2 DEF InitReturns, End, StorageType
  <2>2. /\ at'[c] = "over" /\ file' = file /\ attempt' = attempt
    BY <1>2, <2>1 DEF InitReturns, End, Go, StorageType, NoChange
  <2> QED BY <1>2, <2>2 DEF InitReturns, End, StorageType, Verdicts, Contents
<1>3. CASE CommitReturns(c)
  BY <1>3 DEF CommitReturns, End, Go, StorageType, NoChange
<1>4. CASE OtherReturns(c)
  BY <1>4 DEF OtherReturns, End, Go, StorageType, NoChange
<1>5. CASE ~ (EndList(c) \/ ListFails(c) \/ InitReturns(c) \/ CommitReturns(c) \/ OtherReturns(c))
  BY <1>5 DEF ClientNext, Start, Stat, EnsureDir, OpenScratch, WriteScratch, Publish, Clean,
              Restat, Size, Read, Unlink, AtomicRequest, OpenDir, ListAtOnce, Drop, FalseSuccess
<1> QED BY <1>1, <1>2, <1>3, <1>4, <1>5

\* Every step keeps ConfigOwned: who has written the configuration will learn
\* that it has, or not learn anything.
LEMMA ConfigStep ==
    ASSUME StorageType, StorageType', NEW c \in Client, Progress(c), Progress(c)',
           ClientNext(c), ConfigOwned
    PROVE  ConfigOwned'
<1> USE NamesDiffer
<1>0. ClientStep(c) /\ UNCHANGED <<backend, job>> /\ Config \in Key /\ (Lenient' <=> Lenient)
  BY ClientSteps, KeyFacts DEF ClientNext, ClientStep, Lenient
<1>1. file'[Config] = file[Config]
      \/ /\ job[c].kind = "init" /\ file'[Config] = c /\ (Lenient \/ file[Config] = None)
         /\ at[c] \in {"publish", "request"} /\ request[c] = Ask("create", Config)
  <2>1. ASSUME file'[Config] # file[Config]
        PROVE  /\ job[c].kind = "init" /\ file'[Config] = c /\ (Lenient \/ file[Config] = None)
               /\ at[c] \in {"publish", "request"} /\ request[c] = Ask("create", Config)
    <3>1. /\ at[c] \in Calling /\ FileMove(c)
          /\ job[c].kind = "init" /\ file'[Config] = c /\ (Lenient \/ file[Config] = None)
      BY <1>0, <2>1, FileFacts, KeyFacts
         DEF Calling, Waiting, ClientStep, StorageType, Jobs, MaxAttempts
    <3>2. request[c] \in {Ask("create", Config), Ask("get", Config)}
      BY <3>1 DEF Progress, Wants
    <3>3. request[c].op \in {"create", "put", "delete"} /\ at[c] # "remove"
      BY <2>1, <3>1, <3>2 DEF FileMove, Ask
    <3> QED BY <2>1, <3>1, <3>2, <3>3 DEF FileMove, Ask
  <2> QED BY <2>1
<1>2. file'[Config] \in Client \cup {None}
  BY <1>1 DEF ConfigOwned
<1>3. ASSUME NEW d \in Client, job[d].kind = "init", ~Lenient,
             \/ at'[d] = "back" /\ request'[d].op = "get" /\ reply'[d] = d
             \/ outcome'[d] = "ok"
      PROVE  file'[Config] = d
  <2>1. CASE \/ at[d] = "back" /\ request[d].op = "get" /\ reply[d] = d
             \/ outcome[d] = "ok"
    <3>1. file[Config] = d
      BY <1>3, <2>1 DEF ConfigOwned
    <3> QED BY <1>1, <1>3, <3>1 DEF Contents
  <2>2. CASE ~ (\/ at[d] = "back" /\ request[d].op = "get" /\ reply[d] = d
                \/ outcome[d] = "ok")
    <3>1. d = c
      BY <1>0, <1>3, <2>2 DEF ClientStep, Still
    <3>2. CASE outcome'[d] = "ok"
      <4>1. outcome'[c] # outcome[c] /\ outcome[c] # "ok"
        BY <2>2, <3>1, <3>2
      <4>2. at[c] = "back" /\ request[c].op = "get" /\ reply[c] = c
        BY <1>3, <3>1, <3>2, <4>1, EndFacts
      <4> QED BY <2>2, <3>1, <4>2
    <3>3. CASE at'[d] = "back" /\ request'[d].op = "get" /\ reply'[d] = d
      BY <1>3, <3>1, <3>3, ConfigRead DEF Contents
    <3> QED BY <1>3, <3>2, <3>3
  <2> QED BY <2>1, <2>2
<1>4. ASSUME backend # "atomic", NEW w \in Client, file'[Config] = w
      PROVE  job[w].kind = "init" /\ ConfigWritten(w)'
  <2>1. CASE w # c
    <3>1. file[Config] = w /\ Still(w)
      BY <1>0, <1>1, <1>4, <2>1 DEF ClientStep, Contents
    <3> QED BY <1>4, <3>1 DEF ConfigOwned, ConfigWritten, Still
  <2>2. CASE w = c /\ file[Config] # c
    <3>1. /\ job[c].kind = "init" /\ at[c] = "publish" /\ request[c] = Ask("create", Config)
      BY <1>1, <1>4, <2>2 DEF Progress, Waiting
    <3>2. /\ request[c].op = "create" /\ request' = request
          /\ Publish(c) \/ Drop(c) \/ FalseSuccess(c)
      BY <3>1 DEF Ask, ClientNext, Start, Stat, EnsureDir, OpenScratch, WriteScratch, Publish,
                  Clean, Restat, Size, Read, Unlink, AtomicRequest, OpenDir, ListAtOnce, EndList,
                  InitReturns, CommitReturns, OtherReturns, Drop, FalseSuccess, ListFails
    <3>3. CASE Publish(c)
      BY <1>4, <2>2, <3>1, <3>2, <3>3
         DEF Publish, NoChange, Go, Reply, StorageType, ConfigWritten
    <3>4. CASE Drop(c)
      BY <2>2, <3>1, <3>2, <3>4 DEF Drop, Back, Go, Reply, StorageType, ConfigWritten
    <3>5. CASE FalseSuccess(c)
      BY <1>4, <2>2, <3>5 DEF FalseSuccess, NoChange
    <3> QED BY <2>2, <3>1, <3>2, <3>3, <3>4, <3>5
  <2>3. CASE w = c /\ file[Config] = c
    <3>1. job[c].kind = "init" /\ ConfigWritten(c)
      BY <1>4, <2>3 DEF ConfigOwned
    <3>2. CASE at[c] = "over"
      BY <3>2 DEF ClientNext, Start, Stat, EnsureDir, OpenScratch, WriteScratch, Publish,
                  Clean, Restat, Size, Read, Unlink, AtomicRequest, OpenDir, ListAtOnce, EndList,
                  InitReturns, CommitReturns, OtherReturns, Drop, FalseSuccess, ListFails
    <3>3. CASE at[c] = "clean"
      <4>1. Clean(c) /\ reply[c] = "ok" /\ request[c].op = "create" /\ request' = request
        BY <3>1, <3>3
           DEF ClientNext, Start, Stat, EnsureDir, OpenScratch, WriteScratch, Publish,
               Clean, Restat, Size, Read, Unlink, AtomicRequest, OpenDir, ListAtOnce, EndList,
               InitReturns, CommitReturns, OtherReturns, Drop, FalseSuccess, ListFails,
               ConfigWritten
      <4> QED BY <2>3, <3>1, <4>1 DEF Clean, Go, StorageType, ConfigWritten
    <3>4. CASE at[c] \in {"size", "read"}
      <4>1. Size(c) \/ Read(c) \/ Drop(c)
        BY <3>4 DEF ClientNext, Start, Stat, EnsureDir, OpenScratch, WriteScratch, Publish,
                    Clean, Restat, Size, Read, Unlink, AtomicRequest, OpenDir, ListAtOnce, EndList,
                    InitReturns, CommitReturns, OtherReturns, Drop, FalseSuccess, ListFails
      <4>2. request' = request /\ request[c].op = "get" /\ Wants(c)
        BY <3>4, <4>1 DEF Size, Read, Drop, Progress, Calling, Waiting
      <4>3. request[c].key = Config
        BY <3>1, <4>2 DEF Wants, Ask
      <4>4. CASE Drop(c)
        BY <2>3, <3>1, <4>2, <4>4 DEF Drop, Back, Go, Reply, StorageType, ConfigWritten
      <4>5. CASE Read(c)
        <5>1. met[c] = c
          BY <3>1, <4>5 DEF Read, ConfigWritten
        <5>2. reply'[c] = c /\ at'[c] = "back"
          BY <2>3, <4>3, <4>5, <5>1 DEF Read, Cut, Back, Go, Reply, StorageType, Exists, Contents
        <5> QED BY <2>3, <3>1, <4>2, <5>2 DEF ConfigWritten
      <4>6. CASE Size(c)
        <5>1. met'[c] = c /\ at'[c] = "read"
          BY <2>3, <4>3, <4>6 DEF Size, Go, StorageType, Exists, Contents
        <5> QED BY <2>3, <3>1, <4>2, <5>1 DEF ConfigWritten
      <4> QED BY <4>1, <4>4, <4>5, <4>6
    <3>5. CASE at[c] = "back"
      <4>1. InitReturns(c)
        BY <3>1, <3>5 DEF ClientNext, Start, Stat, EnsureDir, OpenScratch, WriteScratch, Publish,
                    Clean, Restat, Size, Read, Unlink, AtomicRequest, OpenDir, ListAtOnce, EndList,
                    InitReturns, CommitReturns, OtherReturns, Drop, FalseSuccess, ListFails
      <4>2. CASE request[c].op = "create" /\ reply[c] = "ok"
        <5>1. Call(c, "get", Config)
          BY <4>1, <4>2 DEF InitReturns
        <5>2. at'[c] = "size" /\ request'[c].op = "get"
          BY <1>4, <5>1, CallFacts, KeyFacts
        <5> QED BY <2>3, <3>1, <5>2 DEF ConfigWritten
      <4>3. CASE request[c].op = "create" /\ reply[c] = "error"
        <5>1. End(c, "error")
          BY <4>1, <4>3 DEF InitReturns
        <5> QED BY <2>3, <3>1, <5>1 DEF End, Go, StorageType, ConfigWritten
      <4>4. CASE request[c].op = "get" /\ reply[c] \in {c, "error"}
        <5>1. End(c, IF reply[c] = c THEN "ok" ELSE "error")
          BY <4>1, <4>4 DEF InitReturns, Contents, Verdicts
        <5> QED BY <2>3, <3>1, <5>1 DEF End, Go, StorageType, ConfigWritten
      <4> QED BY <3>1, <3>5, <4>2, <4>3, <4>4 DEF ConfigWritten
    <3> QED BY <2>3, <3>1, <3>2, <3>3, <3>4, <3>5 DEF ConfigWritten
  <2> QED BY <2>1, <2>2, <2>3
<1> QED BY <1>0, <1>2, <1>3, <1>4 DEF ConfigOwned, Lenient

\* Nobody but their client writes its snapshots, or deletes them, if it is
\* undisturbed.
LEMMA SnapshotKept ==
    ASSUME StorageType, NEW c \in Client, Progress(c), ClientStep(c), NEW d \in Client \ {c},
           Undisturbed(d), NEW n \in 0 .. MaxAttempts - 1, file[Snapshot(job[d].id, n)] = d
    PROVE  file'[Snapshot(job[d].id, n)] = d
<1> USE NamesDiffer
<1>1. SUFFICES ASSUME file'[Snapshot(job[d].id, n)] # file[Snapshot(job[d].id, n)]
               PROVE  FALSE
  OBVIOUS
<1>2. job[d].id \in Ids /\ job[c].id \in Ids /\ d # None
  BY DEF StorageType, Jobs, Contents
<1>3. Snapshot(job[d].id, n) \in Key /\ Snapshot(job[d].id, n) \notin {Config, Touch}
  BY <1>2, KeyFacts
<1>4. \/ /\ job[c].kind = "commit" /\ Lenient
         /\ Snapshot(job[d].id, n) = Snapshot(job[c].id, attempt[c])
      \/ job[c].kind = "forget" /\ Snapshot(job[d].id, n) = Snapshot(job[c].id, 0)
  BY <1>1, <1>2, <1>3, FileFacts DEF ClientStep
<1>5. job[c].id = job[d].id
  BY <1>4 DEF Snapshot
<1> QED BY <1>4, <1>5 DEF Undisturbed

\* A client is told "ok" only when its own snapshot is stored.
LEMMA CommitAnswer ==
    ASSUME StorageType, NEW c \in Client, Progress(c), ClientNext(c),
           job[c].kind = "commit", c \notin dead, at'[c] \in {"clean", "back"}, reply'[c] = "ok"
    PROVE  /\ attempt' = attempt
           /\ \/ file'[Snapshot(job[c].id, attempt[c])] = c
              \/ at[c] = "clean" /\ reply[c] = "ok" /\ file' = file
<1> USE NamesDiffer
<1>0. "ok" \in Verdicts /\ "ok" # c
  BY DEF Contents, Verdicts
<1>1. CASE at[c] \in Calling \ {"back"}
  <2>1. /\ request[c].op = "create" /\ request[c].key = Snapshot(job[c].id, attempt[c])
        /\ request[c].key \in Key
    <3>1. request[c] = Ask("create", Snapshot(job[c].id, attempt[c])) /\ request[c].key \in Key
      BY <1>1, KeyTyped DEF Progress, Wants
    <3> QED BY <3>1 DEF Ask
  <2>2. attempt' = attempt /\ ~FalseSuccess(c)
    BY <1>1 DEF ClientNext, Start, Stat, EnsureDir, OpenScratch, WriteScratch, Publish,
                Clean, Restat, Size, Read, Unlink, AtomicRequest, OpenDir, ListAtOnce, EndList,
                InitReturns, CommitReturns, OtherReturns, Drop, FalseSuccess, ListFails, Calling,
                Waiting
  <2>3. CASE Publish(c)
    BY <2>1, <2>2, <2>3 DEF Publish, Progress, Waiting, Store, Reply, StorageType
  <2>4. CASE AtomicRequest(c)
    BY <2>1, <2>2, <2>4 DEF AtomicRequest, Progress, Waiting, Store, Back, Go, Reply, StorageType
  <2>5. CASE Clean(c)
    BY <2>1, <2>2, <2>5 DEF Clean, Back, Go, Reply, StorageType, NoChange
  <2>6. CASE ~ (Publish(c) \/ AtomicRequest(c) \/ Clean(c))
    <3>1. \/ Stat(c) \/ EnsureDir(c) \/ OpenScratch(c) \/ WriteScratch(c) \/ Restat(c) \/ Drop(c)
      BY <1>1, <2>1, <2>2, <2>6
         DEF ClientNext, Start, Size, Read, Unlink, OpenDir, ListAtOnce, EndList, InitReturns,
             CommitReturns, OtherReturns, ListFails, Progress, Calling, Waiting
    <3>2. reply[c] = "pending"
      BY <3>1, <2>1
         DEF Progress, Stat, EnsureDir, OpenScratch, WriteScratch, Restat, Drop, Waiting
    <3>3. reply'[c] \in {reply[c], "exists", "error"}
      BY <3>1
         DEF Stat, EnsureDir, OpenScratch, WriteScratch, Restat, Drop, Back, Reply, StorageType
    <3> QED BY <3>2, <3>3
  <2> QED BY <2>3, <2>4, <2>5, <2>6
<1>2. CASE at[c] \notin Calling \ {"back"}
  <2>1. \/ \E op \in {"create", "put", "get", "delete"} : \E k : Call(c, op, k)
        \/ at'[c] \in {"walk", "over"}
    BY <1>2 DEF ClientNext, Start, Stat, EnsureDir, OpenScratch, WriteScratch, Publish,
                Clean, Restat, Size, Read, Unlink, AtomicRequest, OpenDir, ListAtOnce, EndList,
                InitReturns, CommitReturns, OtherReturns, Drop, FalseSuccess, ListFails, Calling,
                Waiting,
                End, Go, callVars, StorageType
  <2> QED BY <2>1, CallFacts
<1> QED BY <1>1, <1>2

\* Every step keeps CommitOwned.
LEMMA CommitStep ==
    ASSUME StorageType, StorageType', NEW c \in Client, Progress(c), ClientNext(c),
           NEW d \in Client, Progress(d), CommitOwned(d)
    PROVE  CommitOwned(d)'
<1> USE NamesDiffer
<1>0. ClientStep(c) /\ UNCHANGED <<backend, dead, job>> /\ (Undisturbed(d)' <=> Undisturbed(d))
  BY ClientSteps DEF ClientNext, ClientStep, Undisturbed, Lenient
<1> SUFFICES ASSUME job[d].kind = "commit", d \notin dead, Undisturbed(d),
                    \/ at'[d] \in {"clean", "back"} /\ reply'[d] = "ok"
                    \/ outcome'[d] = "ok"
             PROVE  file'[Snapshot(job[d].id, attempt'[d])] = d
  BY <1>0 DEF CommitOwned, Snapshot
<1>1. CASE d # c
  <2>1. Still(d)
    BY <1>0, <1>1 DEF ClientStep
  <2>2. file[Snapshot(job[d].id, attempt[d])] = d
    BY <2>1 DEF CommitOwned, Still
  <2>3. attempt[d] \in 0 .. MaxAttempts - 1
    BY DEF StorageType
  <2>4. file'[Snapshot(job[d].id, attempt[d])] = d
    BY <1>0, <1>1, <2>2, <2>3, SnapshotKept
  <2> QED BY <2>1, <2>4 DEF Still
<1>2. CASE d = c /\ at'[c] \in {"clean", "back"} /\ reply'[c] = "ok"
  BY <1>2, CommitAnswer DEF CommitOwned
<1>3. CASE d = c /\ outcome'[c] = "ok"
  <2>1. at[c] # "over" /\ outcome[c] = "none"
    BY DEF ClientNext, Start, Stat, EnsureDir, OpenScratch, WriteScratch, Publish,
           Clean, Restat, Size, Read, Unlink, AtomicRequest, OpenDir, ListAtOnce, EndList,
           InitReturns, CommitReturns, OtherReturns, Drop, FalseSuccess, ListFails, Progress
  <2>2. at[c] = "back" /\ reply[c] = "ok" /\ file' = file /\ attempt' = attempt
    BY <1>3, <2>1, EndFacts
  <2> QED BY <1>3, <2>2 DEF CommitOwned
<1> QED BY <1>1, <1>2, <1>3

\* Every step of a client keeps DirsStay: ensure_dir comes before the scratch
\* file, and over sftp:// no directory goes away.
LEMMA DirsStep ==
    ASSUME StorageType, StorageType', NEW c \in Client, Progress(c), ClientNext(c), DirsStay
    PROVE  DirsStay'
<1>0. ClientStep(c) /\ UNCHANGED <<backend, dead, job>> /\ dirs \subseteq dirs'
  BY ClientSteps DEF ClientNext, ClientStep
<1> SUFFICES ASSUME backend = "sftp" PROVE DirsStay'
  BY <1>0 DEF DirsStay
<1>1. ASSUME NEW k \in Stored' PROVE PathTo(DirOf(k)) \subseteq dirs'
  <2>1. k \in Key
    BY DEF Stored
  <2>2. CASE k \in Stored
    BY <1>0, <2>2 DEF DirsStay
  <2>3. CASE k \notin Stored
    <3>1. file'[k] # file[k] /\ file'[k] # None
      BY <2>1, <2>3 DEF Stored
    <3>2. at[c] \in {"publish", "request", "remove"} /\ request[c].key = k
      BY <1>0, <2>1, <3>1, FileFacts DEF ClientStep
    <3>3. at[c] = "publish"
      BY <3>1, <3>2, <1>0, <2>1, FileFacts DEF Progress, Waiting, ClientStep, FileMove, StorageType
    <3> QED BY <1>0, <3>2, <3>3 DEF DirsStay
  <2> QED BY <2>2, <2>3
<1>2. ASSUME NEW d \in Client, at'[d] \in {"open", "write", "publish"}
      PROVE  PathTo(DirOf(request'[d].key)) \subseteq dirs'
  <2>1. CASE at[d] \in {"open", "write", "publish"} /\ request'[d] = request[d]
    BY <1>0, <2>1 DEF DirsStay
  <2>2. CASE ~ (at[d] \in {"open", "write", "publish"} /\ request'[d] = request[d])
    <3>1. d = c
      BY <1>0, <1>2, <2>2 DEF ClientStep, Still
    <3>2. CASE \E op \in {"create", "put", "get", "delete"} : \E k : Call(c, op, k)
      BY <1>2, <3>1, <3>2, CallFacts
    <3>3. CASE ~ \E op \in {"create", "put", "get", "delete"} : \E k : Call(c, op, k)
      <4>0. ~FalseSuccess(c)
        BY DEF DirsStay, FalseSuccess
      <4>1. EnsureDir(c)
        BY <4>0, <1>2, <2>2, <3>1, <3>3
           DEF ClientNext, Start, Stat, EnsureDir, OpenScratch, WriteScratch, Publish, Clean,
               Restat, Size, Read, Unlink, AtomicRequest, OpenDir, ListAtOnce, EndList, InitReturns,
               CommitReturns, OtherReturns, Drop, FalseSuccess, ListFails, Back, Go, End, callVars,
               StorageType
      <4> QED BY <3>1, <4>1 DEF EnsureDir
    <3> QED BY <3>2, <3>3
  <2> QED BY <2>1, <2>2
<1> QED BY <1>0, <1>1, <1>2 DEF DirsStay

\* What the directories show is stored.
LEMMA ShownFacts ==
    ASSUME StorageType, NEW d
    PROVE  /\ ShownIn(d) \subseteq Stored
           /\ \A k \in Stored : DirOf(k) = d => k \in ShownIn(d)
  BY KeyFacts DEF ShownIn, Names, Hidden, Stored

\* A client lists only if it has set out to.
LEMMA WalkFacts ==
    ASSUME StorageType, NEW c \in Client, Progress(c), ClientNext(c)
    PROVE  \/ walk'[c] = walk[c] /\ (at'[c] = "walk" => at[c] = "walk")
           \/ StartsList(c) /\ walk[c] = NoWalk
           \/ OpenDir(c) \/ ListAtOnce(c)
<1>1. CASE \E op \in {"create", "put", "get", "delete"} : \E k : Call(c, op, k)
  <2>1. at'[c] # "walk"
    BY <1>1, CallFacts
  <2>2. walk' = walk
    BY <1>1, <2>1 DEF ClientNext, Start, Stat, EnsureDir, OpenScratch, WriteScratch, Publish,
           Clean, Restat, Size, Read, Unlink, AtomicRequest, OpenDir, ListAtOnce, EndList,
           InitReturns,
           CommitReturns, OtherReturns, Drop, FalseSuccess, ListFails, listVars, callVars, Go,
           StorageType
  <2> QED BY <2>1, <2>2
<1>2. CASE Start(c) /\ job[c].kind = "list"
  <2>1. at[c] = "start" /\ Go(c, "walk") /\ walk' = [walk EXCEPT ![c].left = {Top}]
        /\ present' = [present EXCEPT ![c] = SnapshotKeys \cap Stored]
        /\ seen' = [seen EXCEPT ![c] = Stored] /\ file' = file
    BY <1>2 DEF Start
  <2>2. at'[c] = "walk" /\ walk'[c] = [walk[c] EXCEPT !.left = {Top}] /\ walk[c] = NoWalk
    BY <2>1 DEF Go, StorageType, Progress
  <2> QED BY <1>2, <2>1, <2>2 DEF StartsList
<1>3. CASE /\ ~ \E op \in {"create", "put", "get", "delete"} : \E k : Call(c, op, k)
           /\ ~ (Start(c) /\ job[c].kind = "list")
           /\ ~OpenDir(c) /\ ~ListAtOnce(c)
  BY <1>3 DEF ClientNext, Start, Stat, EnsureDir, OpenScratch, WriteScratch, Publish, Clean,
         Restat, Size, Read, Unlink, AtomicRequest, EndList, InitReturns, CommitReturns,
         OtherReturns, Drop, FalseSuccess, ListFails, Back, Go, End, StorageType
<1> QED BY <1>1, <1>2, <1>3

\* The directories above and below each other.
LEMMA DirFacts ==
    ASSUME StorageType
    PROVE  /\ \A d \in Dir : Subdirs(d) \subseteq dirs /\ (d # Top => \A s \in Subdirs(d) : s = Top)
           /\ Subdirs(Top) = dirs \cap Ids
           /\ \A k \in SnapshotKeys : k \in Key /\ DirOf(k) \in Ids /\ PathTo(DirOf(k)) = {DirOf(k), Top}
  BY NamesDiffer DEF StorageType, Subdirs, Parent, Dir, SnapshotKeys, PathTo

\* Every step keeps Listing: over sftp:// the directories of what is there stay
\* until they have been opened.
LEMMA ListingStep ==
    ASSUME StorageType, StorageType', NEW c \in Client, Progress(c), ClientNext(c),
           NEW d \in Client, Progress(d), Listing(d), DirsStay
    PROVE  Listing(d)'
<1> USE NamesDiffer
<1>0. /\ ClientStep(c) /\ UNCHANGED <<backend, job>> /\ (Lenient' <=> Lenient)
      /\ NoChange \/ Watch(file') \/ StartsList(c)
  BY ClientSteps DEF ClientNext, ClientStep, Lenient
<1>1. /\ d # c => walk'[d] = walk[d] /\ at'[d] = at[d] /\ outcome'[d] = outcome[d]
      /\ dirs \subseteq dirs'
  BY <1>0 DEF ClientStep, Still
<1>2. CASE d = c /\ StartsList(c) /\ walk[c] = NoWalk
  <2>1. /\ walk'[c].left = {Top} /\ walk'[c].found = {} /\ file' = file
        /\ present'[c] = SnapshotKeys \cap Stored /\ seen'[c] = Stored
    BY <1>2 DEF StartsList, NoWalk, StorageType
  <2>2. Stored' = Stored
    BY <2>1 DEF Stored
  <2>3. outcome'[c] # "ok"
    <3>1. at'[c] # "over" /\ outcome[c] = "none"
      BY <1>2 DEF StartsList, Progress
    <3> QED BY <3>1, EndFacts
  <2> QED BY <1>0, <1>2, <2>1, <2>2, <2>3 DEF Listing
<1>3. CASE d = c /\ (OpenDir(c) \/ ListAtOnce(c))
  <2>1. /\ UNCHANGED <<file, present, seen, dirs>> /\ at'[c] = "walk" /\ at[c] = "walk"
        /\ outcome'[c] = "none"
    BY <1>3 DEF OpenDir, ListAtOnce, NoChange, callVars, Progress
  <2>2. Stored' = Stored /\ SnapshotKeys' = SnapshotKeys
    BY <2>1 DEF Stored
  <2>3. walk'[c].found \subseteq seen[c]
    <3>1. CASE ListAtOnce(c)
      BY <1>3, <2>1, <3>1 DEF ListAtOnce, StorageType, Listing
    <3>2. CASE OpenDir(c)
      <4>1. walk'[c].found \subseteq walk[c].found \cup Stored
        BY <3>2, ShownFacts DEF OpenDir, StorageType
      <4> QED BY <1>3, <2>1, <4>1 DEF Listing
    <3> QED BY <1>3, <3>1, <3>2
  <2>4. ASSUME ~Lenient, ListAtOnce(c)
        PROVE  /\ walk'[c].left \subseteq IF backend = "atomic" THEN {Top} ELSE {Top} \cup dirs
               /\ \A k \in present[c] : k \in walk'[c].found
    BY <1>3, <2>4 DEF ListAtOnce, StorageType, Listing
  <2>5. ASSUME ~Lenient, OpenDir(c)
        PROVE  /\ walk'[c].left \subseteq {Top} \cup dirs
               /\ \A k \in present[c] : k \in walk'[c].found \/ {Top, DirOf(k)} \cap walk'[c].left # {}
    <3>1. backend = "sftp"
      BY <2>5 DEF OpenDir, StorageType, Lenient
    <3>2. PICK o \in walk[c].left :
             walk'[c] = IF o \in dirs
                        THEN [left |-> (walk[c].left \ {o}) \cup Subdirs(o),
                              found |-> walk[c].found \cup ShownIn(o)]
                        ELSE [walk[c] EXCEPT !.left = {}]
      <4>1. PICK o \in walk[c].left :
               walk' = [walk EXCEPT ![c] =
                      IF o \in dirs
                      THEN [left |-> (walk[c].left \ {o}) \cup Subdirs(o),
                            found |-> walk[c].found \cup ShownIn(o)]
                      ELSE [walk[c] EXCEPT !.left = {}]]
        BY <2>5 DEF OpenDir
      <4>2. c \in DOMAIN walk
        BY DEF StorageType
      <4> QED BY <4>1, <4>2
    <3>3. walk[c].left \subseteq {Top} \cup dirs /\ walk[c].left \subseteq Dir
      BY <1>3, <2>1, <2>5, <3>1 DEF Listing, StorageType
    <3>4. CASE o \notin dirs
      <4>1. o = Top /\ walk'[c].left = {}
        BY <3>2, <3>3, <3>4 DEF StorageType
      <4>2. present[c] = {}
        BY <1>3, <3>1, <3>4, <4>1, DirFacts DEF Listing, DirsStay
      <4> QED BY <4>1, <4>2
    <3>5. CASE o \in dirs
      <4>1. /\ walk'[c].left = (walk[c].left \ {o}) \cup Subdirs(o)
            /\ walk'[c].found = walk[c].found \cup ShownIn(o)
        BY <3>2, <3>5
      <4>2. walk'[c].left \subseteq {Top} \cup dirs
        BY <3>3, <4>1, DirFacts
      <4>3. ASSUME NEW k \in present[c]
            PROVE  k \in walk'[c].found \/ {Top, DirOf(k)} \cap walk'[c].left # {}
        <5>1. /\ k \in SnapshotKeys /\ k \in Stored /\ DirOf(k) \in dirs /\ DirOf(k) \in Ids
          BY <1>3, <3>1, DirFacts DEF Listing, DirsStay
        <5>2. k \in walk[c].found \/ {Top, DirOf(k)} \cap walk[c].left # {}
          BY <1>3, <2>1, <2>5 DEF Listing
        <5>3. CASE o = Top
          BY <4>1, <5>1, <5>3, DirFacts
        <5>4. CASE o = DirOf(k)
          BY <4>1, <5>1, <5>4, ShownFacts
        <5>5. CASE o \notin {Top, DirOf(k)}
          BY <4>1, <5>2, <5>5
        <5> QED BY <5>3, <5>4, <5>5
      <4> QED BY <4>2, <4>3
    <3> QED BY <3>4, <3>5
  <2>6. OpenDir(c) => backend # "atomic"
    BY DEF OpenDir
  <2> QED BY <1>0, <1>3, <2>1, <2>2, <2>3, <2>4, <2>5, <2>6 DEF Listing
<1>4. CASE walk'[d] = walk[d] /\ (at'[d] = "walk" => at[d] = "walk") /\ ~(d = c /\ StartsList(c))
  <2>1. /\ present'[d] \subseteq present[d] /\ present'[d] \subseteq SnapshotKeys \cap Stored'
        /\ seen[d] \subseteq seen'[d]
        /\ at'[d] = "walk" => Stored' \subseteq seen'[d]
    <3>1. CASE NoChange
      <4>1. Stored' = Stored
        BY <3>1 DEF NoChange, Stored
      <4> QED BY <1>4, <3>1, <4>1 DEF NoChange, Listing
    <3>2. CASE Watch(file')
      <4>1. /\ present'[d] = {k \in present[d] : file'[k] # None}
            /\ seen'[d] = IF at[d] = "walk" THEN seen[d] \cup {k \in Key : file'[k] # None}
                          ELSE seen[d]
        BY <3>2 DEF Watch
      <4> QED BY <1>4, <4>1 DEF Listing, Stored, SnapshotKeys
    <3>3. CASE StartsList(c) /\ d # c
      <4>1. /\ present'[d] = present[d] /\ seen'[d] = seen[d] /\ file' = file
        BY <3>3 DEF StartsList, StorageType
      <4>2. Stored' = Stored
        BY <4>1 DEF Stored
      <4> QED BY <1>4, <4>1, <4>2 DEF Listing
    <3> QED BY <1>0, <1>4, <3>1, <3>2, <3>3
  <2>2. ASSUME job[d].kind = "list", outcome'[d] = "ok", ~Lenient
        PROVE  present'[d] \subseteq walk[d].found
    <3>1. CASE outcome[d] = "ok"
      BY <2>1, <2>2, <3>1 DEF Listing
    <3>2. CASE outcome[d] # "ok"
      <4>1. d = c /\ outcome'[c] # outcome[c]
        BY <1>1, <2>2, <3>2
      <4>2. EndList(c)
        <5>1. job[c].kind = "list" /\ outcome'[c] = "ok"
          BY <2>2, <4>1
        <5>2. EndList(c) \/ ListFails(c)
          BY <4>1, <5>1, EndFacts
        <5> QED BY <5>1, <5>2 DEF ListFails, End, StorageType
      <4>3. walk[c].left = {} /\ at[c] = "walk"
        BY <4>2 DEF EndList
      <4> QED BY <2>1, <2>2, <4>1, <4>3 DEF Listing
    <3> QED BY <3>1, <3>2
  <2>3. ASSUME at'[d] = "walk", ~Lenient
        PROVE  /\ walk'[d].left \subseteq IF backend = "atomic" THEN {Top} ELSE {Top} \cup dirs'
               /\ \A k \in present'[d] : k \in walk'[d].found \/ {Top, DirOf(k)} \cap walk'[d].left # {}
    BY <1>1, <1>4, <2>1, <2>3 DEF Listing
  <2> QED BY <1>0, <1>4, <2>1, <2>2, <2>3 DEF Listing, SnapshotKeys
<1>5. d # c => ~(d = c /\ StartsList(c))
  OBVIOUS
<1> QED BY <1>1, <1>2, <1>3, <1>4, WalkFacts DEF StartsList, NoWalk

-----------------------------------------------------------------------------
(***************************************************************************)
(* The theorems.                                                           *)
(***************************************************************************)
\* IInv holds at the start.
LEMMA IInvInit == StorageInit => IInv
<1> SUFFICES ASSUME StorageInit PROVE IInv
  OBVIOUS
<1>1. StorageType
  BY TypeInit
<1>2. file[Config] = None /\ \A k \in Stored : k \in SnapshotKeys
  <2>1. PICK old \in SUBSET {Snapshot(id, 0) : id \in Ids} :
           file = [k \in Key |-> IF k \in old THEN Old ELSE None]
    BY DEF StorageInit
  <2>2. \A k \in old : k \in Key /\ DirOf(k) \in Ids /\ k # Config
    <3> SUFFICES ASSUME NEW k \in old PROVE k \in Key /\ DirOf(k) \in Ids /\ k # Config
      OBVIOUS
    <3>1. PICK id \in Ids : k = Snapshot(id, 0)
      OBVIOUS
    <3>2. DirOf(k) = id
      BY <3>1 DEF DirOf, Snapshot
    <3>3. 0 \in 0 .. MaxAttempts - 1
      BY DEF MaxAttempts
    <3> QED BY <3>1, <3>2, <3>3, KeyFacts
  <2> QED BY <2>1, <2>2, KeyFacts DEF Stored, SnapshotKeys
<1>3. ConfigOwned
  BY <1>2, NamesDiffer DEF StorageInit, ConfigOwned, Contents
<1>4. DirsStay
  <2>1. PICK old \in SUBSET {Snapshot(id, 0) : id \in Ids} :
           /\ file = [k \in Key |-> IF k \in old THEN Old ELSE None]
           /\ dirs = IF old = {} THEN {} ELSE {Top} \cup {DirOf(k) : k \in old}
    BY DEF StorageInit
  <2>2. Stored \subseteq old
    BY <2>1, NamesDiffer DEF Stored
  <2>3. \A k \in old : DirOf(k) \in Ids /\ PathTo(DirOf(k)) = {DirOf(k), Top}
    BY NamesDiffer DEF DirOf, Snapshot, PathTo, Parent
  <2>4. \A k \in Stored : PathTo(DirOf(k)) \subseteq dirs
    BY <2>1, <2>2, <2>3
  <2> QED BY <2>4 DEF DirsStay, StorageInit
<1>5. ASSUME NEW c \in Client PROVE Progress(c) /\ CommitOwned(c) /\ Listing(c)
  BY DEF StorageInit, Progress, Calling, Waiting, Writing, CommitOwned, Listing, NoWalk
<1> QED BY <1>1, <1>3, <1>4, <1>5 DEF IInv

\* IInv is inductive.
LEMMA IInvStep == IInv /\ [StorageNext]_storageVars => IInv'
<1> SUFFICES ASSUME IInv, [StorageNext]_storageVars PROVE IInv'
  OBVIOUS
<1>1. StorageType /\ ConfigOwned /\ DirsStay
  BY DEF IInv
<1>2. StorageType'
  BY <1>1, TypeStep DEF IInv
<1>3. ASSUME UNCHANGED <<backend, file, scratch, job, at, request, reply, met, attempt, outcome,
                         walk, present, seen>>,
             dead' = dead \/ (backend = "rclone" /\ dead \subseteq dead'), dirs' = dirs \/ backend = "rclone"
      PROVE  IInv'
  <2>1. ConfigOwned'
    BY <1>1, <1>3 DEF ConfigOwned, ConfigWritten, Lenient
  <2>2. DirsStay'
    BY <1>1, <1>3 DEF DirsStay, Stored
  <2>3. ASSUME NEW c \in Client PROVE Progress(c)' /\ CommitOwned(c)' /\ Listing(c)'
    <3>1. Progress(c)'
      BY <1>3 DEF IInv, Progress, Wants
    <3>2. CommitOwned(c)'
      BY <1>3 DEF IInv, CommitOwned, Undisturbed, Lenient
    <3>3. Listing(c)'
      BY <1>3 DEF IInv, Listing, Lenient, SnapshotKeys, Stored
    <3> QED BY <3>1, <3>2, <3>3
  <2> QED BY <1>2, <2>1, <2>2, <2>3 DEF IInv
<1>4. CASE UNCHANGED storageVars
  BY <1>3, <1>4 DEF storageVars, callVars, listVars
<1>5. CASE DirVanishes
  BY <1>3, <1>5 DEF DirVanishes, callVars, listVars
<1>5a. ASSUME NEW c \in Client, Die(c) PROVE IInv'
  BY <1>3, <1>5a DEF Die, Lenient, callVars, listVars
<1>6. ASSUME NEW c \in Client, ClientNext(c)
      PROVE  IInv'
  <2>1. Progress(c) /\ Progress(c)'
    BY <1>1, <1>2, <1>6, ProgressStep DEF IInv
  <2>2. ConfigOwned' /\ DirsStay'
    BY <1>1, <1>2, <1>6, <2>1, ConfigStep, DirsStep
  <2>3. ASSUME NEW d \in Client PROVE Progress(d)' /\ CommitOwned(d)' /\ Listing(d)'
    <3>1. Progress(d) /\ CommitOwned(d) /\ Listing(d)
      BY DEF IInv
    <3>2. CommitOwned(d)' /\ Listing(d)'
      BY <1>1, <1>2, <1>6, <2>1, <3>1, CommitStep, ListingStep
    <3>3. CASE d # c
      <4>1. Still(d) /\ UNCHANGED <<backend, job>>
        BY <1>1, <1>6, <2>1, <3>3, ClientSteps DEF ClientNext, ClientStep
      <4> QED BY <3>1, <3>2, <4>1 DEF Progress, Wants, Still
    <3> QED BY <2>1, <3>2, <3>3
  <2> QED BY <1>2, <2>2, <2>3 DEF IInv
<1> QED BY <1>4, <1>5, <1>5a, <1>6 DEF StorageNext, ClientNext

\* The invariant holds in every reachable state.
THEOREM StorageInvariance == StorageSpec => []IInv
  BY IInvInit, IInvStep, PTL DEF StorageSpec

\* The types of Storage hold in every reachable state: no request and no caller
\* of requests leaves them, whatever connections drop.
THEOREM StorageTypeCorrect == StorageSpec => []StorageType
<1>1. IInv => StorageType
  BY DEF IInv
<1> QED BY <1>1, StorageInvariance, PTL

\* A snapshot that commit_snapshot has reported stays the writer's, for any
\* number of clients and whatever connections drop, unless the rclone that
\* answered it had died: what that one says may be false.
THEOREM CommitsKept == StorageSpec => []CommitKept
<1>1. IInv => CommitKept
  BY DEF IInv, CommitKept, CommitOwned, Undisturbed
<1> QED BY <1>1, StorageInvariance, PTL

\* Any number of concurrent inits settle: who is told that it has made the
\* repository has made it, and somebody is told.
THEOREM InitsSettle == StorageSpec => []InitSettled
<1>1. IInv => InitSettled
  BY DEF IInv, InitSettled, ConfigOwned, ConfigWritten, Progress
<1> QED BY <1>1, StorageInvariance, PTL

\* A listing of sftp.rs neither invents nor, where directories stay, misses an
\* object, whatever clients write and delete meanwhile.
THEOREM ListsFaithful == StorageSpec => []ListFaithful
<1>1. IInv => ListFaithful
  BY DEF IInv, ListFaithful, ListComplete, Listing
<1> QED BY <1>1, StorageInvariance, PTL

-----------------------------------------------------------------------------
(***************************************************************************)
(* The requests of an SFTP store are those of ObjectStore.                 *)
(***************************************************************************)
\* A caller asks again only when its last request has been answered.
LEMMA AskStep ==
    ASSUME NEW c \in Client, NEW op \in {"create", "put", "get", "delete"}, NEW k \in Key,
           reply[c] # "pending", Call(c, op, k), UNCHANGED <<file, backend, dead>>
    PROVE  Objects!Next
<1>1. Objects!Ask(c)
  BY DEF Objects!Ask, Objects!Ops, Call, Lenient
<1> QED BY <1>1 DEF Objects!Next

\* The verdict on a waiting request, with what it changed, is a service.
LEMMA ServeStep ==
    ASSUME NEW c \in Client, NEW k, k = request[c].key, reply[c] = "pending",
           file \in [Key -> Contents \cup {None}], UNCHANGED <<request, met, backend, dead>>,
           c \notin dead,
           \/ /\ file[k] = None \/ Lenient
              /\ request[c].op = "create"
              /\ file' = [file EXCEPT ![k] = c] /\ Reply(c, "ok")
           \/ request[c].op = "create" /\ file[k] # None /\ file' = file /\ Reply(c, "exists")
           \/ request[c].op = "put" /\ file' = [file EXCEPT ![k] = c] /\ Reply(c, "ok")
           \/ /\ request[c].op = "get" /\ file' = file
              /\ \/ Reply(c, IF file[k] = None THEN "missing" ELSE file[k])
                 \/ file[k] # None /\ met[c] \notin {None, file[k]} /\ Reply(c, "truncated")
           \/ request[c].op = "delete" /\ file' = [file EXCEPT ![k] = None] /\ Reply(c, "ok")
    PROVE  Objects!Next
<1>1. UNCHANGED Lenient
  BY DEF Lenient
<1>2. Objects!Serve(c)
  BY <1>1 DEF Objects!Serve, Objects!Create, Objects!Put, Objects!Get, Objects!Delete,
              Objects!Answer, Reply
<1> QED BY <1>2 DEF Objects!Next

\* A failed request has done nothing, or all it does.
LEMMA FailStep ==
    ASSUME NEW c \in Client, NEW k \in Key, k = request[c].key, reply[c] = "pending",
           file \in [Key -> Contents \cup {None}], UNCHANGED <<request, met, backend, dead>>,
           request[c].op # "none", Reply(c, "error"),
           \/ file' = file
           \/ /\ file' = [file EXCEPT ![k] = c]
              /\ \/ request[c].op = "put"
                 \/ request[c].op = "create" /\ (file[k] = None \/ Lenient)
           \/ request[c].op = "delete" /\ file' = [file EXCEPT ![k] = None]
    PROVE  Objects!Next
<1>1. PICK o \in {file[k], Objects!Effect(c, k)} : file' = [file EXCEPT ![k] = o]
  <2>1. CASE file' = file
    <3>1. file' = [file EXCEPT ![k] = file[k]]
      BY <2>1
    <3> QED BY <3>1
  <2>2. CASE /\ file' = [file EXCEPT ![k] = c]
             /\ \/ request[c].op = "put"
                \/ request[c].op = "create" /\ (file[k] = None \/ Lenient)
    BY <2>2 DEF Objects!Effect
  <2>3. CASE request[c].op = "delete" /\ file' = [file EXCEPT ![k] = None]
    BY <2>3 DEF Objects!Effect
  <2> QED BY <2>1, <2>2, <2>3
<1>2. UNCHANGED Lenient
  BY DEF Lenient
<1>3. Objects!Fail(c, k)
  BY <1>1, <1>2 DEF Objects!Fail, Objects!Answer, Reply
<1> QED BY <1>3 DEF Objects!Next, Objects!Serve

\* Every step of an SFTP store is a step of ObjectStore, or none.
LEMMA AtomicStep ==
    ASSUME IInv, [StorageNext]_storageVars
    PROVE  [backend # "atomic" => Objects!Next]_(Objects!vars)
<1> DEFINE Rests == UNCHANGED <<file, request, reply, met, backend, dead>>
<1> SUFFICES ASSUME backend # "atomic" PROVE Objects!Next \/ Rests
  BY DEF Objects!vars, Lenient
<1>1. CASE UNCHANGED storageVars \/ DirVanishes
  BY <1>1 DEF storageVars, callVars, DirVanishes
<1>1a. ASSUME NEW c \in Client, Die(c) PROVE Objects!Next
  <2>1. Objects!Die(c)
    BY <1>1a DEF Die, Objects!Die, Lenient, callVars
  <2> QED BY <2>1 DEF Objects!Next
<1>2. ASSUME NEW c \in Client, ClientNext(c) PROVE Objects!Next \/ Rests
  <2> DEFINE k == request[c].key
  <2>1. StorageType /\ Progress(c)
    BY DEF IInv
  <2>2. file \in [Key -> Contents \cup {None}]
    BY <2>1 DEF StorageType
  <2>3. at[c] \in Calling => k \in Key /\ request[c].op # "none"
    BY <2>1, KeyTyped DEF Progress, Wants, Ask
  <2>4. at[c] \in Waiting => reply[c] = "pending" /\ at[c] # "request"
    BY <2>1 DEF Progress
  <2>5. CASE Start(c)
    <3>1. reply[c] # "pending" /\ UNCHANGED <<file, backend, dead>>
      BY <2>1, <2>5 DEF Start, Progress
    <3>2. job[c].id \in Ids /\ 0 \in 0 .. MaxAttempts - 1
      BY <2>1 DEF StorageType, Jobs, MaxAttempts
    <3>3. \/ UNCHANGED <<request, reply, met>>
          \/ \E op \in {"create", "put", "get", "delete"}, key \in Key : Call(c, op, key)
      BY <2>5, <3>2, KeyFacts DEF Start
    <3> QED BY <3>1, <3>3, AskStep
  <2>6. CASE InitReturns(c)
    <3>1. UNCHANGED <<file, backend, dead>> /\ (reply[c] = "ok" \/ UNCHANGED <<request, reply, met>>)
      BY <2>6 DEF InitReturns, NoChange
    <3>2. UNCHANGED <<request, reply, met>> \/ Call(c, "get", Config)
      BY <2>6 DEF InitReturns
    <3> QED BY <3>1, <3>2, KeyFacts, AskStep
  <2>7. CASE CommitReturns(c)
    <3>1. UNCHANGED <<file, backend, dead>> /\ (reply[c] = "exists" \/ UNCHANGED <<request, reply, met>>)
      BY <2>7 DEF CommitReturns, NoChange
    <3>2. \/ UNCHANGED <<request, reply, met>>
          \/ \E key \in Key : Call(c, "create", key)
      <4>1. CASE UNCHANGED <<request, reply, met>>
        BY <4>1
      <4>2. CASE attempt[c] + 1 < MaxAttempts /\ Call(c, "create", Snapshot(job[c].id, attempt[c] + 1))
        <5>1. job[c].id \in Ids /\ attempt[c] \in 0 .. 2
          BY <2>1 DEF StorageType, Jobs, MaxAttempts
        <5>2. attempt[c] + 1 \in 0 .. MaxAttempts - 1
          BY <4>2, <5>1 DEF MaxAttempts
        <5> QED BY <4>2, <5>1, <5>2, KeyFacts
      <4> QED BY <2>7, <4>1, <4>2 DEF CommitReturns
    <3> QED BY <3>1, <3>2, AskStep
  <2>8. CASE Stat(c) \/ Restat(c)
    <3>1. at[c] \in Waiting /\ request[c].op = "create" /\ c \notin dead
          /\ UNCHANGED <<file, request, met, backend, dead>>
      BY <2>1, <2>8 DEF Stat, Restat, Alive, NoChange, Progress, Waiting
    <3>2. \/ Reply(c, "exists") /\ file[k] # None
          \/ UNCHANGED reply
          \/ Reply(c, "error")
      BY <2>8 DEF Stat, Restat, Back, Exists
    <3>3. CASE Reply(c, "exists") /\ file[k] # None
      BY <2>2, <2>4, <3>1, <3>3, ServeStep
    <3>4. CASE Reply(c, "error")
      BY <2>2, <2>3, <2>4, <3>1, <3>4, FailStep DEF Calling
    <3> QED BY <3>1, <3>2, <3>3, <3>4
  <2>9. CASE EnsureDir(c) \/ OpenScratch(c) \/ WriteScratch(c) \/ Clean(c)
    <3>1. UNCHANGED <<file, request, met, backend, dead>> /\ at[c] \in Waiting \cup {"clean"}
      BY <2>9 DEF EnsureDir, OpenScratch, WriteScratch, Clean, NoChange, Waiting
    <3>2. UNCHANGED reply \/ (Reply(c, "error") /\ (at[c] \in Waiting \/ reply[c] # "ok"))
      BY <2>9 DEF EnsureDir, OpenScratch, WriteScratch, Clean, Back, Waiting
    <3>3. reply[c] = "pending" \/ UNCHANGED reply
      BY <2>1, <2>4, <3>1, <3>2 DEF Progress
    <3> QED BY <2>2, <2>3, <3>1, <3>2, <3>3, FailStep DEF Calling
  <2>10. CASE Publish(c)
    <3>1. /\ at[c] = "publish" /\ at[c] \in Waiting /\ at[c] \in Writing /\ c \notin dead
          /\ UNCHANGED <<request, met, backend, dead>>
      BY <2>10 DEF Publish, Alive, Waiting, Writing
    <3>2. request[c].op \in {"create", "put"}
      BY <2>1, <3>1 DEF Progress
    <3>3. CASE Store(k, c) /\ Reply(c, "ok") /\ (Renames(c) \/ file[k] = None)
      <4>1. file' = [file EXCEPT ![k] = c]
        BY <3>3 DEF Store
      <4>2. request[c].op = "put" \/ (request[c].op = "create" /\ (file[k] = None \/ Lenient))
        BY <3>2, <3>3 DEF Renames
      <4> QED BY <2>2, <2>4, <3>1, <3>3, <4>1, <4>2, ServeStep
    <3>4. CASE UNCHANGED <<file, reply>>
      BY <3>1, <3>4
    <3> QED BY <2>10, <3>3, <3>4 DEF Publish, NoChange, Exists
  <2>11. CASE Read(c)
    <3>1. /\ at[c] \in Waiting /\ request[c].op = "get" /\ met[c] \in Contents /\ c \notin dead
          /\ UNCHANGED <<file, request, met, backend, dead>>
      BY <2>1, <2>11 DEF Read, Alive, NoChange, Progress, Waiting
    <3>2. met[c] # None
      BY <3>1, NamesDiffer
    <3>3. CASE file[k] = None \/ Length[file[k]] = Length[met[c]]
      <4>1. Reply(c, IF file[k] = None THEN "missing" ELSE file[k])
        BY <2>11, <3>3 DEF Read, Back, Exists, Cut
      <4> QED BY <2>2, <2>4, <3>1, <4>1, ServeStep
    <3>4. CASE file[k] # None /\ Length[file[k]] # Length[met[c]]
      <4>1. Reply(c, "truncated") \/ Reply(c, "error")
        BY <2>11, <3>4 DEF Read, Back, Exists, Cut
      <4>2. CASE Reply(c, "truncated")
        <5>1. met[c] \notin {None, file[k]}
          BY <3>2, <3>4
        <5> QED BY <2>2, <2>4, <3>1, <3>4, <4>2, <5>1, ServeStep
      <4>3. CASE Reply(c, "error")
        BY <2>2, <2>3, <2>4, <3>1, <4>3, FailStep DEF Calling
      <4> QED BY <4>1, <4>2, <4>3
    <3> QED BY <3>3, <3>4
  <2>11a. CASE Size(c)
    <3>1. /\ at[c] = "size" /\ at[c] \in Waiting /\ request[c].op = "get" /\ met[c] = None
          /\ c \notin dead /\ UNCHANGED <<file, request, backend, dead>>
      BY <2>1, <2>11a DEF Size, Alive, NoChange, Progress, Waiting
    <3>2. CASE file[k] = None
      <4>1. Reply(c, IF file[k] = None THEN "missing" ELSE file[k]) /\ UNCHANGED met
        BY <2>11a, <3>2 DEF Size, Back, Exists
      <4> QED BY <2>2, <2>4, <3>1, <4>1, ServeStep
    <3>3. CASE file[k] # None
      <4>1. met' = [met EXCEPT ![c] = file[k]] /\ UNCHANGED reply
        BY <2>11a, <3>3 DEF Size, Exists
      <4>2. Objects!Look(c)
        BY <2>4, <3>1, <3>3, <4>1 DEF Objects!Look, Lenient
      <4> QED BY <4>2 DEF Objects!Next
    <3> QED BY <3>2, <3>3
  <2>11b. CASE FalseSuccess(c)
    <3>1. /\ c \in dead /\ at[c] \in Waiting /\ request[c].op \in {"create", "put", "delete"}
          /\ UNCHANGED <<file, request, met, backend, dead>>
      BY <2>1, <2>11b DEF FalseSuccess, NoChange, Progress, Waiting, Writing
    <3>2. UNCHANGED reply \/ Reply(c, "ok")
      BY <2>11b DEF FalseSuccess, Back
    <3>3. CASE Reply(c, "ok")
      <4>1. Objects!Pretend(c)
        BY <2>4, <3>1, <3>3 DEF Objects!Pretend, Objects!Answer, Reply, Lenient
      <4> QED BY <4>1 DEF Objects!Next, Objects!Serve
    <3> QED BY <3>1, <3>2, <3>3
  <2>12. CASE Unlink(c)
    <3>1. /\ at[c] \in Waiting /\ request[c].op = "delete" /\ c \notin dead
          /\ UNCHANGED <<request, met, backend, dead>>
      BY <2>1, <2>12 DEF Unlink, Alive, Progress, Waiting
    <3>2. file' = [file EXCEPT ![k] = None] /\ Reply(c, "ok")
      BY <2>12 DEF Unlink, Store, Back
    <3> QED BY <2>2, <2>4, <3>1, <3>2, ServeStep
  <2>13. CASE Drop(c)
    <3>1. at[c] \in Waiting /\ UNCHANGED <<request, met, backend, dead>> /\ Reply(c, "error")
      BY <2>13 DEF Drop, Waiting, Back
    <3>2. \/ file' = file
          \/ at[c] = "publish" /\ (Renames(c) \/ file[k] = None) /\ file' = [file EXCEPT ![k] = c]
          \/ at[c] = "remove" /\ file' = [file EXCEPT ![k] = None]
      BY <2>13 DEF Drop, NoChange, Store, Exists
    <3>3. at[c] = "publish" => request[c].op \in {"create", "put"}
      BY <2>1 DEF Progress, Writing
    <3>4. at[c] = "remove" => request[c].op = "delete"
      BY <2>1 DEF Progress
    <3>5. \/ file' = file
          \/ /\ file' = [file EXCEPT ![k] = c]
             /\ \/ request[c].op = "put"
                \/ request[c].op = "create" /\ (file[k] = None \/ Lenient)
          \/ request[c].op = "delete" /\ file' = [file EXCEPT ![k] = None]
      BY <3>2, <3>3, <3>4 DEF Renames
    <3> QED BY <2>2, <2>3, <2>4, <3>1, <3>5, FailStep DEF Calling
  <2>14. CASE AtomicRequest(c)
    BY <2>4, <2>14 DEF AtomicRequest, Waiting
  <2>15. CASE OpenDir(c) \/ ListAtOnce(c) \/ EndList(c) \/ ListFails(c) \/ OtherReturns(c)
    BY <2>15 DEF OpenDir, ListAtOnce, EndList, ListFails, OtherReturns, NoChange, callVars
  <2> HIDE DEF k, Rests
  <2> QED BY <1>2, <2>5, <2>6, <2>7, <2>8, <2>9, <2>10, <2>11, <2>11a, <2>11b,
             <2>12, <2>13, <2>14, <2>15
          DEF ClientNext
<1> QED BY <1>1, <1>1a, <1>2 DEF StorageNext, ClientNext

\* The stat, the scratch file and the link or rename of sftp.rs put_opts, the
\* stat and the read of get_opts and its delete take effect at one moment each,
\* as ObjectStore says, for any number of clients and contents of any length and
\* whatever connections drop.  What ObjectStore allows and a reader would not
\* expect: a get of an object that is replaced meanwhile may return a part of
\* the new one, and a dead rclone may say that it has done what it has not.
THEOREM AtomicRequests == StorageSpec => RequestsAtomic
<1>1. IInv /\ [StorageNext]_storageVars => [backend # "atomic" => Objects!Next]_(Objects!vars)
  BY AtomicStep
<1> QED BY <1>1, StorageInvariance, PTL DEF StorageSpec, RequestsAtomic
=============================================================================
