------------------------------- MODULE Storage -------------------------------
(***************************************************************************)
(* The repository's storage backends request by request.  sftp.rs keeps    *)
(* one file per key and builds a conditional put out of a stat, a scratch  *)
(* file and a hard link (sftp://) or a rename (rclone://); a local         *)
(* directory or S3 does it in one request, whose answer may get lost and   *)
(* be retried by the client library.  On top of it, the callers that       *)
(* depend on the details: init, the commit of a snapshot, the touch of a   *)
(* tree, the deletion of a snapshot and the listing of all snapshots.      *)
(***************************************************************************)
EXTENDS Naturals, FiniteSets

CONSTANTS
    Client,     \* processes that use one repository
    Ids,        \* client ids: the directories under snapshots/
    Old,        \* the content of objects that were there before
    None,
    Root,       \* the top directory of the repository
    Backends,   \* kinds of store to start from
    Plans,      \* what the clients set out to do
    Length,     \* how long each content is
    Breaks      \* whether connections drop and processes die

Top == "snapshots"
Dir == {Root, Top} \cup Ids
Config == <<Root, 0>>
Touch == <<Root, 1>>
Snapshot(id, n) == <<id, n>>
MaxAttempts == 3
Key == {Config, Touch} \cup {Snapshot(id, n) : id \in Ids, n \in 0 .. MaxAttempts - 1}

DirOf(k) == k[1]
Parent(d) == IF d \in Ids THEN Top ELSE Root
\* The directories ensure_dir goes through, the repository's own excepted.
PathTo(d) == {d, Parent(d)} \ {Root}

Contents == Client \cup {Old}
Verdicts == {"none", "pending", "ok", "exists", "missing", "truncated", "error"}
Jobs == [kind : {"init", "commit", "touch", "forget", "read", "list", "none"}, id : Ids]

ASSUME NamesDiffer ==
    /\ Old \notin Client /\ None \notin Contents /\ Root # Top /\ {Root, Top} \cap Ids = {}
    /\ Contents \cap Verdicts = {} /\ Client \cap Key = {}
ASSUME PlansAssumption ==
    Backends \subseteq {"sftp", "rclone", "atomic"} /\ Plans \subseteq [Client -> Jobs]
ASSUME LengthAssumption == Length \in [Contents -> Nat]

VARIABLES
    backend,    \* "sftp", "rclone" or "atomic", fixed
    dead,       \* clients whose rclone process has died in mid-session
    file,       \* what is stored under each key
    dirs,       \* directories that exist besides Root
    scratch,    \* the directory of each client's .tmp- file, None if it has none
    job,        \* what each client set out to do, fixed
    at,         \* where each client is in its current request
    request,    \* the request it is in
    reply,      \* the answer to it
    met,        \* get: the content whose length it has asked for
    attempt,    \* commit: how often the key was taken already
    outcome,    \* how each client's job ended
    walk,       \* list: directories still to open, what was found
    present,    \* list: keys that were there all the time
    seen        \* list: keys that were there at some time

callVars == <<at, request, reply, met>>
listVars == <<walk, present, seen>>
storageVars == <<backend, dead, file, dirs, scratch, job, callVars, attempt, outcome, listVars>>

Lenient == backend = "rclone"
Phases == {"start", "stat", "mkdir", "open", "write", "publish", "clean", "restat",
           "request", "size", "read", "remove", "walk", "back", "over"}
Requests == [op : {"create", "put", "get", "delete"}, key : Key]
NoRequest == [op |-> "none", key |-> None]
NoWalk == [left |-> {}, found |-> {}]

StorageType ==
    /\ backend \in {"sftp", "rclone", "atomic"} /\ dead \subseteq Client
    /\ file \in [Key -> Contents \cup {None}]
    /\ dirs \subseteq Dir \ {Root}
    /\ scratch \in [Client -> Dir \cup {None}]
    /\ job \in [Client -> Jobs]
    /\ at \in [Client -> Phases]
    /\ request \in [Client -> Requests \cup {NoRequest}]
    /\ reply \in [Client -> Contents \cup Verdicts]
    /\ met \in [Client -> Contents \cup {None}]
    /\ attempt \in [Client -> 0 .. MaxAttempts - 1]
    /\ outcome \in [Client -> Contents \cup Verdicts \cup {"collided", "concurrent"}]
    /\ walk \in [Client -> [left : SUBSET Dir, found : SUBSET (Key \cup Client)]]
    /\ present \in [Client -> SUBSET Key] /\ seen \in [Client -> SUBSET Key]

Stored == {k \in Key : file[k] # None}
\* meta_of: a stat that finds a file; a directory counts as missing.
Exists(k) == file[k] # None
Reachable(d) == d = Root \/ d \in dirs

\* Listings in progress take note of every change of the stored objects.
Watch(files) ==
    /\ present' = [c \in Client |-> {k \in present[c] : files[k] # None}]
    /\ seen' = [c \in Client |-> IF at[c] = "walk" THEN seen[c] \cup {k \in Key : files[k] # None}
                                 ELSE seen[c]]
NoChange == UNCHANGED <<file, present, seen>>
Store(k, v) == file' = [file EXCEPT ![k] = v] /\ Watch([file EXCEPT ![k] = v])

Alive(c) == c \notin dead

Go(c, phase) == at' = [at EXCEPT ![c] = phase]
Reply(c, r) == reply' = [reply EXCEPT ![c] = r]
Back(c, r) == Go(c, "back") /\ Reply(c, r)
-----------------------------------------------------------------------------
(* One request of put_opts, get_opts or delete_stream. *)

FirstPhase(op) ==
    IF backend = "atomic" THEN "request"
    ELSE [create |-> "stat", put |-> "mkdir", get |-> "size", delete |-> "remove"][op]

Call(c, op, k) ==
    /\ request' = [request EXCEPT ![c] = [op |-> op, key |-> k]]
    /\ reply' = [reply EXCEPT ![c] = "pending"]
    /\ met' = [met EXCEPT ![c] = None]
    /\ Go(c, FirstPhase(op))

\* put_opts, Create: the early return when the object is there already.
Stat(c) ==
    /\ at[c] = "stat" /\ Alive(c)
    /\ IF Exists(request[c].key) THEN Back(c, "exists") ELSE Go(c, "mkdir") /\ UNCHANGED reply
    /\ NoChange
    /\ UNCHANGED <<backend, dead, dirs, scratch, job, request, met, attempt, outcome, walk>>

\* ensure_dir: one level after the other, an existing one is fine.
EnsureDir(c) ==
    /\ at[c] = "mkdir" /\ Alive(c)
    /\ dirs' = dirs \cup PathTo(DirOf(request[c].key))
    /\ Go(c, "open")
    /\ NoChange
    /\ UNCHANGED <<backend, dead, scratch, job, request, reply, met, attempt, outcome, walk>>

\* spool: the scratch file is created; its directory may be gone again.
OpenScratch(c) ==
    LET d == DirOf(request[c].key) IN
    /\ at[c] = "open" /\ Alive(c)
    /\ IF Reachable(d)
       THEN /\ scratch' = [scratch EXCEPT ![c] = d]
            /\ Go(c, "write") /\ UNCHANGED reply
       ELSE Back(c, "error") /\ UNCHANGED scratch
    /\ NoChange
    /\ UNCHANGED <<backend, dead, dirs, job, request, met, attempt, outcome, walk>>

\* spool: written, synced and closed; when that fails the file is removed.
WriteScratch(c) ==
    /\ at[c] = "write" /\ Alive(c)
    /\ \/ Go(c, "publish") /\ UNCHANGED <<reply, scratch>>
       \/ /\ Breaks
          /\ scratch' = [scratch EXCEPT ![c] = None]
          /\ Back(c, "error")
    /\ NoChange
    /\ UNCHANGED <<backend, dead, dirs, job, request, met, attempt, outcome, walk>>

\* A slip: a conditional put published with a rename over sftp:// too.
RenamesAlways(c) == TRUE
Renames(c) == request[c].op = "put" \/ Lenient

\* Publication: a rename replaces what is there and moves the scratch file, a
\* hard link is refused when the name is taken; either may fail for good.
Publish(c) ==
    LET k == request[c].key IN
    /\ at[c] = "publish" /\ Alive(c)
    /\ \/ /\ Renames(c)
          /\ Store(k, c)
          /\ scratch' = [scratch EXCEPT ![c] = None]
          /\ Reply(c, "ok")
       \/ /\ ~Renames(c) /\ ~Exists(k)
          /\ Store(k, c)
          /\ Reply(c, "ok")
          /\ UNCHANGED scratch
       \/ /\ Breaks \/ (~Renames(c) /\ Exists(k))
          /\ NoChange
          /\ UNCHANGED <<reply, scratch>>
    /\ Go(c, "clean")
    /\ UNCHANGED <<backend, dead, dirs, job, request, met, attempt, outcome, walk>>

\* remove_quiet, whose own failure is ignored; then the verdict.
Clean(c) ==
    /\ at[c] = "clean"
    /\ \/ Alive(c) /\ scratch' = [scratch EXCEPT ![c] = None]
       \/ Breaks /\ UNCHANGED scratch
    /\ \/ reply[c] = "ok" /\ Go(c, "back") /\ UNCHANGED reply
       \/ reply[c] # "ok" /\ request[c].op = "create" /\ Go(c, "restat") /\ UNCHANGED reply
       \/ reply[c] # "ok" /\ request[c].op # "create" /\ Back(c, "error")
    /\ NoChange
    /\ UNCHANGED <<backend, dead, dirs, job, request, met, attempt, outcome, walk>>

\* A refused link: SFTP has no code for "exists", so a stat tells.
Restat(c) ==
    /\ at[c] = "restat" /\ Alive(c)
    /\ Back(c, IF Exists(request[c].key) THEN "exists" ELSE "error")
    /\ NoChange
    /\ UNCHANGED <<backend, dead, dirs, scratch, job, request, met, attempt, outcome, walk>>

\* get_opts, the stat: it tells how much there is to read.
Size(c) ==
    LET k == request[c].key IN
    /\ at[c] = "size" /\ Alive(c)
    /\ \/ /\ Exists(k)
          /\ met' = [met EXCEPT ![c] = file[k]]
          /\ Go(c, "read") /\ UNCHANGED reply
       \/ ~Exists(k) /\ Back(c, "missing") /\ UNCHANGED met
    /\ NoChange
    /\ UNCHANGED <<backend, dead, dirs, scratch, job, request, attempt, outcome, walk>>

\* read_whole: exactly so many bytes of whatever is there now.  What has become
\* longer comes back cut, what has become shorter is an UnexpectedEof.
Cut(then, now) ==
    IF Length[now] = Length[then] THEN now
    ELSE IF Length[now] > Length[then] THEN "truncated" ELSE "error"

\* get_opts, the read: through the handle the object was opened with.
Read(c) ==
    LET k == request[c].key IN
    /\ at[c] = "read" /\ Alive(c)
    /\ Back(c, IF Exists(k) THEN Cut(met[c], file[k]) ELSE "missing")
    /\ NoChange
    /\ UNCHANGED <<backend, dead, dirs, scratch, job, request, met, attempt, outcome, walk>>

\* delete_stream: an object that is missing counts as deleted.
Unlink(c) ==
    /\ at[c] = "remove" /\ Alive(c)
    /\ Store(request[c].key, None)
    /\ Back(c, "ok")
    /\ UNCHANGED <<backend, dead, dirs, scratch, job, request, met, attempt, outcome, walk>>

\* A local directory or S3: one request.  A conditional put whose answer is
\* lost is repeated by the client library and then finds its own object.
AtomicRequest(c) ==
    LET k == request[c].key
        op == request[c].op
    IN  /\ at[c] = "request"
        /\ \/ /\ op = "create" /\ Exists(k)
              /\ Back(c, "exists") /\ NoChange
           \/ /\ op = "create" /\ ~Exists(k)
              /\ Store(k, c)
              /\ Back(c, "ok") \/ (Breaks /\ UNCHANGED <<at, reply>>)
           \/ op = "put" /\ Store(k, c) /\ Back(c, "ok")
           \/ op = "get" /\ NoChange /\ Back(c, IF Exists(k) THEN file[k] ELSE "missing")
           \/ op = "delete" /\ Store(k, None) /\ Back(c, "ok")
        /\ UNCHANGED <<backend, dead, dirs, scratch, job, request, met, attempt, outcome, walk>>
-----------------------------------------------------------------------------
(* walk: every directory below snapshots/, one open_dir after the other.   *)

SnapshotKeys == {k \in Key : DirOf(k) \in Ids}

\* Scratch files have names that start with a dot and are passed over.
Hidden(name) == name \in Client
Names(d) == {k \in Stored : DirOf(k) = d} \cup {c \in Client : scratch[c] = d}
\* A slip: scratch files are listed.
ShownInAll(d) == Names(d)
ShownIn(d) == {name \in Names(d) : ~Hidden(name)}
Subdirs(d) == {s \in dirs : Parent(s) = d}

\* The directory was there when its parent was read and is gone now: the walk
\* takes that for a prefix without objects and returns what it has.
OpenDir(c) ==
    /\ at[c] = "walk" /\ backend # "atomic" /\ Alive(c)
    /\ \E d \in walk[c].left :
          walk' = [walk EXCEPT ![c] =
                      IF d \in dirs
                      THEN [left |-> (@.left \ {d}) \cup Subdirs(d), found |-> @.found \cup ShownIn(d)]
                      ELSE [@ EXCEPT !.left = {}]]
    /\ NoChange
    /\ UNCHANGED <<backend, dead, dirs, scratch, job, callVars, attempt, outcome>>

\* A local directory or S3: one listing.
ListAtOnce(c) ==
    /\ at[c] = "walk" /\ backend = "atomic" /\ walk[c].left # {}
    /\ walk' = [walk EXCEPT ![c] = [left |-> {}, found |-> SnapshotKeys \cap Stored]]
    /\ NoChange
    /\ UNCHANGED <<backend, dead, dirs, scratch, job, callVars, attempt, outcome>>

EndList(c) ==
    /\ at[c] = "walk" /\ walk[c].left = {}
    /\ Go(c, "over")
    /\ outcome' = [outcome EXCEPT ![c] = "ok"]
    /\ NoChange
    /\ UNCHANGED <<backend, dead, dirs, scratch, job, request, reply, met, attempt, walk>>
-----------------------------------------------------------------------------
(* The callers. *)

End(c, how) ==
    /\ Go(c, "over")
    /\ outcome' = [outcome EXCEPT ![c] = how]

Start(c) ==
    /\ at[c] = "start"
    /\ \/ job[c].kind = "init" /\ Call(c, "create", Config) /\ UNCHANGED <<listVars>>
       \/ job[c].kind = "commit" /\ Call(c, "create", Snapshot(job[c].id, 0)) /\ UNCHANGED <<listVars>>
       \/ job[c].kind = "touch" /\ Call(c, "put", Touch) /\ UNCHANGED <<listVars>>
       \/ job[c].kind = "forget" /\ Call(c, "delete", Snapshot(job[c].id, 0)) /\ UNCHANGED <<listVars>>
       \/ job[c].kind = "read" /\ Call(c, "get", Snapshot(job[c].id, 0)) /\ UNCHANGED <<listVars>>
       \/ /\ job[c].kind = "list"
          /\ Go(c, "walk")
          /\ walk' = [walk EXCEPT ![c].left = {Top}]
          /\ present' = [present EXCEPT ![c] = SnapshotKeys \cap Stored]
          /\ seen' = [seen EXCEPT ![c] = Stored]
          /\ UNCHANGED <<request, reply, met>>
    /\ UNCHANGED <<backend, dead, file, dirs, scratch, job, attempt, outcome>>

\* A slip: an existing configuration is taken for one's own.
InitReturnsUnread(c) ==
    /\ at[c] = "back" /\ job[c].kind = "init"
    /\ End(c, IF reply[c] \in {"ok", "exists"} THEN "ok" ELSE reply[c])
    /\ NoChange
    /\ UNCHANGED <<backend, dead, dirs, scratch, job, request, reply, met, attempt, walk>>

\* init: put_if_absent_verified reads the configuration back and compares.
InitReturns(c) ==
    /\ at[c] = "back" /\ job[c].kind = "init"
    /\ \/ request[c].op = "create" /\ reply[c] = "ok" /\ Call(c, "get", Config) /\ UNCHANGED outcome
       \/ /\ request[c].op = "create" /\ reply[c] # "ok"
          /\ End(c, reply[c]) /\ UNCHANGED <<request, reply, met>>
       \/ /\ request[c].op = "get"
          /\ End(c, IF reply[c] = c THEN "ok"
                    ELSE IF reply[c] \in {"missing", "error"} THEN reply[c]
                    ELSE "concurrent")
          /\ UNCHANGED <<request, reply, met>>
    /\ NoChange
    /\ UNCHANGED <<backend, dead, dirs, scratch, job, attempt, walk>>

\* A slip: a key that is taken counts as written, as it does for replicas.
CommitReturnsTaken(c) ==
    /\ at[c] = "back" /\ job[c].kind = "commit"
    /\ End(c, IF reply[c] = "exists" THEN "ok" ELSE reply[c])
    /\ NoChange
    /\ UNCHANGED <<backend, dead, dirs, scratch, job, request, reply, met, attempt, walk>>

\* commit_snapshot: a taken key moves the time on by 1 ns, three times at most.
CommitReturns(c) ==
    /\ at[c] = "back" /\ job[c].kind = "commit"
    /\ \/ /\ reply[c] # "exists"
          /\ End(c, reply[c]) /\ UNCHANGED <<request, reply, met, attempt>>
       \/ /\ reply[c] = "exists" /\ attempt[c] + 1 < MaxAttempts
          /\ attempt' = [attempt EXCEPT ![c] = @ + 1]
          /\ Call(c, "create", Snapshot(job[c].id, attempt[c] + 1))
          /\ UNCHANGED outcome
       \/ /\ reply[c] = "exists" /\ attempt[c] + 1 = MaxAttempts
          /\ End(c, "collided") /\ UNCHANGED <<request, reply, met, attempt>>
    /\ NoChange
    /\ UNCHANGED <<backend, dead, dirs, scratch, job, walk>>

OtherReturns(c) ==
    /\ at[c] = "back" /\ job[c].kind \in {"touch", "forget", "read"}
    /\ End(c, reply[c])
    /\ NoChange
    /\ UNCHANGED <<backend, dead, dirs, scratch, job, request, reply, met, attempt, walk>>

\* The connection is lost during a request: it may have been served, what was
\* spooled stays behind, and a walk fails as a whole.
Drop(c) ==
    LET k == request[c].key IN
    /\ Breaks
    /\ \/ /\ at[c] \in {"stat", "mkdir", "open", "write", "restat", "size", "read", "request"}
          /\ NoChange
       \/ /\ at[c] = "publish" /\ (Renames(c) \/ ~Exists(k))
          /\ Store(k, c) \/ NoChange
       \/ /\ at[c] = "publish" /\ ~Renames(c) /\ Exists(k)
          /\ NoChange
       \/ /\ at[c] = "remove"
          /\ Store(k, None) \/ NoChange
    /\ Back(c, "error")
    /\ UNCHANGED <<backend, dead, dirs, scratch, job, request, met, attempt, outcome, walk>>

ListFails(c) ==
    /\ Breaks /\ at[c] = "walk" /\ walk[c].left # {}
    /\ End(c, "error")
    /\ NoChange
    /\ UNCHANGED <<backend, dead, dirs, scratch, job, request, reply, met, attempt, walk>>

\* rclone dies in mid-session.
Die(c) ==
    /\ Breaks /\ Lenient
    /\ at[c] # "over" /\ Alive(c)
    /\ dead' = dead \cup {c}
    /\ UNCHANGED <<backend, file, dirs, scratch, job, callVars, attempt, outcome, listVars>>

\* What is sent to a dead rclone may for a while look as if it had been done
\* (docs/decisions/014-rclone-bridge.md:139): requests whose answer is a bare
\* status.  Nothing happens in the store.
FalseSuccess(c) ==
    /\ c \in dead
    /\ \/ at[c] = "mkdir" /\ Go(c, "open") /\ UNCHANGED reply
       \/ at[c] = "write" /\ Go(c, "publish") /\ UNCHANGED reply
       \/ at[c] = "publish" /\ Go(c, "clean") /\ Reply(c, "ok")
       \/ at[c] = "remove" /\ Back(c, "ok")
    /\ NoChange
    /\ UNCHANGED <<backend, dead, dirs, scratch, job, request, met, attempt, outcome, walk>>

\* An object store behind rclone has no directories: one that holds nothing
\* any more is gone.
DirVanishes ==
    /\ backend = "rclone"
    /\ \E d \in dirs :
          /\ Names(d) = {} /\ Subdirs(d) = {}
          /\ dirs' = dirs \ {d}
    /\ UNCHANGED <<backend, dead, file, scratch, job, callVars, attempt, outcome, listVars>>
-----------------------------------------------------------------------------
StorageInit ==
    /\ backend \in Backends /\ dead = {}
    /\ job \in Plans
    /\ \E old \in SUBSET {Snapshot(id, 0) : id \in Ids} :
          /\ file = [k \in Key |-> IF k \in old THEN Old ELSE None]
          /\ dirs = IF old = {} THEN {} ELSE {Top} \cup {DirOf(k) : k \in old}
    /\ scratch = [c \in Client |-> None]
    /\ at = [c \in Client |-> IF job[c].kind = "none" THEN "over" ELSE "start"]
    /\ request = [c \in Client |-> NoRequest]
    /\ reply = [c \in Client |-> "none"]
    /\ met = [c \in Client |-> None]
    /\ attempt = [c \in Client |-> 0]
    /\ outcome = [c \in Client |-> "none"]
    /\ walk = [c \in Client |-> NoWalk]
    /\ present = [c \in Client |-> {}]
    /\ seen = [c \in Client |-> {}]

StorageNext ==
    \/ \E c \in Client :
          \/ Start(c)
          \/ Stat(c) \/ EnsureDir(c) \/ OpenScratch(c) \/ WriteScratch(c)
          \/ Publish(c) \/ Clean(c) \/ Restat(c)
          \/ Size(c) \/ Read(c) \/ Unlink(c) \/ AtomicRequest(c)
          \/ OpenDir(c) \/ ListAtOnce(c) \/ EndList(c)
          \/ InitReturns(c) \/ CommitReturns(c) \/ OtherReturns(c)
          \/ Drop(c) \/ FalseSuccess(c) \/ Die(c) \/ ListFails(c)
    \/ DirVanishes

StorageSpec == StorageInit /\ [][StorageNext]_storageVars
-----------------------------------------------------------------------------
Objects == INSTANCE ObjectStore
              WITH Content <- Contents, object <- file, lenient <- Lenient

\* The requests of an SFTP store are those of ObjectStore: the stat, the
\* scratch file and the link of sftp.rs put_opts together are one conditional
\* put of a whole object, whatever other writers do between them; the stat and
\* the read of get_opts are one get, unless the object is replaced between the
\* two.  Only who talks to a dead rclone may be told of what did not happen.
RequestsAtomic == [][backend # "atomic" => Objects!Next]_(Objects!vars)

\* commit_snapshot: the key it returned holds the snapshot it wrote until a
\* forget, however many clients try the same key and whatever replies got
\* lost.  On the rclone bridge this needs keys no other client uses, and an
\* rclone that has not died before the commit returned: the snapshot of a
\* client that was answered by a dead one may not be there.
CommitKept ==
    \A c \in Client :
        /\ job[c].kind = "commit" /\ outcome[c] = "ok" /\ c \notin dead
        /\ \A other \in Client \ {c} :
              job[other].id = job[c].id =>
                  /\ job[other].kind # "forget"
                  /\ Lenient => job[other].kind # "commit"
        => file[Snapshot(job[c].id, attempt[c])] = c

\* init: on a store with an exact conditional put, who reported success owns
\* the configuration; on the rclone bridge two inits that overwrite each other
\* cannot both give up: when all have ended, the owner reported success.
InitSettled ==
    /\ \A c \in Client : job[c].kind = "init" /\ outcome[c] = "ok" /\ ~Lenient => file[Config] = c
    /\ /\ backend # "atomic"
       /\ \A c \in Client : job[c].kind = "init" => outcome[c] \notin {"none", "error"}
       /\ file[Config] # None
       => outcome[file[Config]] = "ok"

\* walk: a listing holds every snapshot that was there from its beginning to its
\* end, whatever comes and goes meanwhile.
ListComplete ==
    \A c \in Client : job[c].kind = "list" /\ outcome[c] = "ok" => present[c] \subseteq walk[c].found

\* walk: nothing but objects that were there at some moment of the listing, no
\* scratch file of a running or a dead writer; and complete where directories
\* stay.
ListFaithful ==
    /\ ~Lenient => ListComplete
    /\ \A c \in Client : job[c].kind = "list" => walk[c].found \subseteq seen[c]
=============================================================================
