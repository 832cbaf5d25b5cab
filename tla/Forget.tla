------------------------------- MODULE Forget -------------------------------
(***************************************************************************)
(* Retention: crates/kist-core/src/forget.rs, with the part of a backup    *)
(* that puts a snapshot (repo.rs, write_snapshot).                         *)
(*                                                                         *)
(* A snapshot is a primary object and, in a repository with replicas, an   *)
(* `.r1` copy.  A backup puts the copy first and the primary last; forget  *)
(* lists the snapshots once, decides for each group of one client and one  *)
(* set of paths what its policy keeps, and then deletes the others one by  *)
(* one, the copy before the primary.  Nothing holds a lock: backups        *)
(* commit, and other forgets delete, between its listing and its last      *)
(* delete, and it may be killed anywhere.                                  *)
(*                                                                         *)
(* Time is a counter, and a bucket (hour, day, ISO week, month, year) an   *)
(* interval of it.  A group is the pair (client id, paths).                *)
(***************************************************************************)
EXTENDS Naturals, Sequences, SequencesExt, FiniteSets, FiniteSetsExt, Functions

CONSTANTS
    Group,          \* (client id, paths)
    GroupOrder,     \* the groups, in the order of the BTreeMap
    Kind,           \* the kinds of bucket a policy can count
    BucketOf,       \* the bucket of a time, by kind (external: calendar)
    Policies,       \* the policies given to forget, refused ones included
    Forgetter,      \* processes that run forget
    Named,          \* whether forget is given snapshots by name
    Replicas,       \* config.replicas = 1
    Faults,         \* whether processes die and requests fail
    LastDay,        \* bound on the clock
    NotSet          \* a rule the policy does not have

Time == 1..LastDay
Snapshot == [group : Group, time : Time]
Rule == {NotSet} \union Nat

(* RetentionPolicy: keep_last, keep_within and the counts by bucket. *)
Policy == [last : Rule, within : Rule, count : [Kind -> Rule]]

ASSUME ForgetConstants ==
    /\ IsFiniteSet(Group) /\ GroupOrder \in Seq(Group)
    /\ Range(GroupOrder) = Group /\ Len(GroupOrder) = Cardinality(Group)
    /\ NotSet \notin Nat /\ LastDay \in Nat
    /\ Policies \subseteq Policy
    /\ {Named, Replicas, Faults} \subseteq BOOLEAN

(* A later time is never in an earlier bucket. *)
ASSUME BucketsInOrder ==
    \A k \in Kind, t \in Time :
        /\ BucketOf[k][t] \in Nat
        /\ \A u \in Time : t <= u => BucketOf[k][t] <= BucketOf[k][u]

VARIABLES
    primary,        \* the snapshots that are stored
    replica,        \* the snapshots whose `.r1` is stored
    today,          \* the clock
    config,         \* the policy of the configuration file, or NotSet:
                    \* each forget gets one on its command line
    backup,         \* per group: "idle", or the phase and time of a backup
    forget          \* per forgetter: see NoForget

forgetVars == <<primary, replica, today, config, backup, forget>>

NoBackup == [phase |-> "idle", time |-> 0]

(* A forget that is not running. *)
NoForget == [pc |-> "idle", policy |-> NotSet, named |-> {}, listed |-> {}, removed |-> <<>>, next |-> 1]

ForgetInit ==
    /\ primary = {} /\ replica = {}
    /\ today = 1
    /\ config \in Policies \union {NotSet}
    /\ backup = [g \in Group |-> NoBackup]
    /\ forget = [f \in Forgetter |-> NoForget]

-----------------------------------------------------------------------------
(* Backups.  The time of a snapshot is the start of its backup; one client *)
(* runs one backup at a time.                                              *)

BackupStart(g) ==
    /\ backup[g].phase = "idle"
    /\ today <= LastDay
    /\ backup' = [backup EXCEPT ![g] =
                    [phase |-> IF Replicas THEN "replica" ELSE "primary", time |-> today]]
    /\ today' = today + 1
    /\ UNCHANGED <<primary, replica, forget, config>>

PutReplica(g) ==
    /\ backup[g].phase = "replica"
    /\ replica' = replica \union {[group |-> g, time |-> backup[g].time]}
    /\ backup' = [backup EXCEPT ![g].phase = "primary"]
    /\ UNCHANGED <<primary, today, forget, config>>

PutPrimary(g) ==
    /\ backup[g].phase = "primary"
    /\ primary' = primary \union {[group |-> g, time |-> backup[g].time]}
    /\ backup' = [backup EXCEPT ![g] = NoBackup]
    /\ UNCHANGED <<replica, today, forget, config>>

BackupDies(g) ==
    /\ Faults
    /\ backup[g].phase # "idle"
    /\ backup' = [backup EXCEPT ![g] = NoBackup]
    /\ UNCHANGED <<primary, replica, today, forget, config>>

-----------------------------------------------------------------------------
(* The policy. *)

is_empty(p) ==
    p.last = NotSet /\ p.within = NotSet /\ \A k \in Kind : p.count[k] = NotSet

(* Slip: the refusal of 0 is left out. *)
ValidateAny(p) == p \in Policies

validate(p) ==
    p.last # 0 /\ p.within # 0 /\ \A k \in Kind : p.count[k] # 0

OrZero(rule) == IF rule = NotSet THEN 0 ELSE rule

(* The members of S in an order: the n-th has n - 1 before it. *)
Ranked(S, before) ==
    [n \in 1..Cardinality(S) |->
        CHOOSE s \in S : Cardinality({t \in S : <<t, s>> \in before}) = n - 1]

(* Newest first. *)
Sorted(candidates) ==
    Ranked(candidates, {x \in candidates \X candidates : x[1].time > x[2].time})

(* Slip: a rule with nothing left still counts the bucket once. *)
CountingOneMore(st, c) == {k \in Kind : st.seen[k] # BucketOf[k][c.time]}

(* The buckets that count snapshot c: rules with something left and a      *)
(* bucket other than the last one they counted.                            *)
Counting(st, c) == {k \in Kind : st.left[k] > 0 /\ st.seen[k] # BucketOf[k][c.time]}

Consider(p, latest, st, c) ==
    LET counting == Counting(st, c)
        kept == \/ st.last > 0
                \/ p.within # NotSet /\ c.time + OrZero(p.within) >= latest
                \/ counting # {}
    IN [last |-> IF st.last > 0 THEN st.last - 1 ELSE 0,
        left |-> [k \in Kind |-> IF k \in counting THEN st.left[k] - 1 ELSE st.left[k]],
        seen |-> [k \in Kind |-> IF k \in counting THEN BucketOf[k][c.time] ELSE st.seen[k]],
        out  |-> IF kept THEN st.out ELSE Append(st.out, c)]

(* The candidates of one group that the policy gives no reason to keep. *)
apply_policy(candidates, p) ==
    LET sorted == Sorted(candidates)
        start == [last |-> OrZero(p.last),
                  left |-> [k \in Kind |-> OrZero(p.count[k])],
                  seen |-> [k \in Kind |-> NotSet],
                  out  |-> <<>>]
    IN FoldLeft(LAMBDA st, c : Consider(p, sorted[1].time, st, c), start, sorted).out

(* The order of snapshot keys: client, then time. *)
KeyBefore(a, b) ==
    LET at(s) == CHOOSE i \in DOMAIN GroupOrder : GroupOrder[i] = s.group
    IN at(a) < at(b) \/ (a.group = b.group /\ a.time < b.time)

ByKey(named) == Ranked(named, {x \in named \X named : KeyBefore(x[1], x[2])})

(* What forget deletes, in its order: the snapshots that were named, then  *)
(* group by group what the policy drops.                                   *)
Removed(listed, named, p) ==
    LET groups == [i \in DOMAIN GroupOrder |->
                     LET of == {s \in listed \ named : s.group = GroupOrder[i]}
                     IN IF is_empty(p) \/ of = {} THEN <<>> ELSE apply_policy(of, p)]
    IN ByKey(named) \o FlattenSeq(groups)

-----------------------------------------------------------------------------
(* Forget. *)

(* Slip: `.r1` keys are listed as snapshots. *)
ListWithReplicas == primary \union replica

(* Snapshots as a LIST sees them: a key that ends in `.r1` is not one. *)
list_snapshots == primary

(* The requests: the configured policy (jobs.rs), or what the command line *)
(* gives.                                                                  *)
Requested(p, named) ==
    /\ config \in {p, NotSet}
    /\ named = {} \/ Named

(* The listing, the reads and the decision.  A snapshot never changes, so  *)
(* reading it later tells the same; a read of one that is gone ends the    *)
(* command before it deletes anything (ForgetFails).  A dry run stops here.*)
ForgetPlan(f, p, named) ==
    /\ forget[f].pc = "idle"
    /\ Requested(p, named)
    /\ named \subseteq list_snapshots
    /\ ~(named = {} /\ is_empty(p))
    /\ validate(p)
    /\ forget' = [forget EXCEPT ![f] =
                    [pc |-> "replica", policy |-> p, named |-> named, listed |-> list_snapshots,
                     removed |-> Removed(list_snapshots, named, p), next |-> 1]]
    /\ UNCHANGED <<primary, replica, today, backup, config>>

Deleting(f, pc) == forget[f].pc = pc /\ forget[f].next <= Len(forget[f].removed)

Current(f) == forget[f].removed[forget[f].next]

(* A replica that is not there is no error. *)
DeleteReplica(f) ==
    /\ Deleting(f, "replica")
    /\ replica' = replica \ {Current(f)}
    /\ forget' = [forget EXCEPT ![f].pc = "primary"]
    /\ UNCHANGED <<primary, today, backup, config>>

(* On a store where deleting a missing object succeeds, forget goes on; on *)
(* the others another forget was first and this one ends (ForgetFails).    *)
DeletePrimary(f) ==
    /\ Deleting(f, "primary")
    /\ primary' = primary \ {Current(f)}
    /\ forget' = [forget EXCEPT ![f].pc = "replica", ![f].next = @ + 1]
    /\ UNCHANGED <<replica, today, backup, config>>

ForgetDone(f) ==
    /\ forget[f].pc = "replica"
    /\ forget[f].next > Len(forget[f].removed)
    /\ forget' = [forget EXCEPT ![f] = NoForget]
    /\ UNCHANGED <<primary, replica, today, backup, config>>

(* A crash, or the first error: of a read, of the delete of a replica, or  *)
(* of the delete of a primary.                                             *)
ForgetFails(f) ==
    /\ forget[f].pc # "idle"
    /\ Faults \/ \E i \in DOMAIN forget[f].removed : forget[f].removed[i] \notin primary
    /\ forget' = [forget EXCEPT ![f] = NoForget]
    /\ UNCHANGED <<primary, replica, today, backup, config>>

-----------------------------------------------------------------------------
BackupNext(g) == BackupStart(g) \/ PutReplica(g) \/ PutPrimary(g) \/ BackupDies(g)

ForgetStep(f) == DeleteReplica(f) \/ DeletePrimary(f) \/ ForgetDone(f)

ForgetNext ==
    \/ \E g \in Group : BackupNext(g)
    \/ \E f \in Forgetter, p \in Policies : \E named \in SUBSET primary : ForgetPlan(f, p, named)
    \/ \E f \in Forgetter : ForgetStep(f) \/ ForgetFails(f)

ForgetSpec == ForgetInit /\ [][ForgetNext]_forgetVars

-----------------------------------------------------------------------------
(* The policy, stated without an order of evaluation. *)

Newer(S, s) == {t \in S : t.group = s.group /\ t.time > s.time}

BucketsIn(S, k) == {BucketOf[k][t.time] : t \in S}

(* Why policy p keeps s among the snapshots S: it is one of the newest     *)
(* n, it is near the newest one, or it is the newest of one of the n       *)
(* latest buckets that have a snapshot.                                    *)
Keeps(S, p, s) ==
    \/ p.last # NotSet /\ Cardinality(Newer(S, s)) < p.last
    \/ p.within # NotSet /\ \A t \in Newer(S, s) : t.time - s.time <= p.within
    \/ \E k \in Kind :
         /\ p.count[k] # NotSet
         /\ BucketOf[k][s.time] \notin BucketsIn(Newer(S, s), k)
         /\ Cardinality(BucketsIn(Newer(S, s), k)) < p.count[k]

-----------------------------------------------------------------------------
(* Properties. *)

(* The single pass of apply_policy from newest to oldest, with its         *)
(* counters and last buckets, deletes what the policy means: a snapshot    *)
(* that was not named is deleted exactly if no rule keeps it among the     *)
(* snapshots of its group that were not named.  It is deleted once: the    *)
(* second delete would be an error on a local store.                       *)
PlanMatchesPolicy ==
    \A f \in DOMAIN forget :
        forget[f].pc # "idle" =>
            LET fg == forget[f]
                rest == fg.listed \ fg.named
            IN /\ IsInjective(fg.removed)
               /\ Range(fg.removed) =
                    fg.named \union
                      {s \in rest : ~is_empty(fg.policy) /\ ~Keeps(rest, fg.policy, s)}

(* Forgets with different policies, backups that commit while they run and *)
(* crashes: a group that has a snapshot keeps one, unless it is named.     *)
(* (forget.rs:13: a rule of 0 is refused because it would delete the whole *)
(* group.)                                                                 *)
GroupSurvives ==
    [][\A g \in Group :
         (~Named /\ \E s \in primary : s.group = g) => (\E s \in primary' : s.group = g)]_forgetVars

(* A plan made from an old listing is still right when it is carried out:  *)
(* forget never deletes a snapshot its policy would keep among those that  *)
(* are stored at that moment.  An interrupted forget, or one that overlaps *)
(* with another, loses nothing the policy keeps - if all use the           *)
(* configured policy and none is given names.                              *)
StalePlanSafe ==
    [][\A f \in DOMAIN forget :
         \A s \in primary \ primary' :
            (config # NotSet /\ ~Named /\ forget[f] # forget'[f])
                => ~Keeps(primary, forget[f].policy, s)]_forgetVars

=============================================================================
