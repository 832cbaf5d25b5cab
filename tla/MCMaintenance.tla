--------------------------- MODULE MCMaintenance ---------------------------
(***************************************************************************)
(* The daemon and what is below it, for TLC: the opening of the store by a *)
(* job, and forget, one of the jobs.  The daemon does not look into a job: *)
(* one of the three is at work and the others have nothing to do.  Forget  *)
(* has two settings: with the constants of the configuration file, two     *)
(* forgets of one group overlap; in Plans, one forget plans for two groups *)
(* and every policy.                                                       *)
(***************************************************************************)
EXTENDS Daemon, Connect, Forget, TLC

VARIABLE part

(* Backup every other tick, prune every fourth: sometimes together. *)
TwoSchedules == ("backup" :> 2) @@ ("prune" :> 4)

(* Two kinds of bucket, neither inside the other (weeks and months). *)
TwoBuckets == [week |-> [t \in 1..5 |-> t \div 2], month |-> [t \in 1..5 |-> (t + 1) \div 3]]

OneGroup == <<"g">>

Rules(last, within, week, month) ==
    [last : last, within : within, count : [week : week, month : month]]

(* Every combination of rules, with the ones forget refuses. *)
AllPolicies == LET some == {NotSet, 1, 2}
               IN Rules(some, some, some, some) \union Rules({0, 1}, {NotSet}, {0, NotSet}, {NotSet})

(* Policies of every kind, among them one with a zero and an empty one. *)
SomePolicies ==
    Rules({NotSet, 2}, {NotSet}, {1}, {2}) \union Rules({1}, {1}, {NotSet}, {NotSet})
        \union Rules({NotSet}, {NotSet, 2}, {NotSet}, {NotSet})
        \union Rules({0}, {NotSet}, {NotSet}, {NotSet})

Plans == INSTANCE Forget WITH Group <- {"g", "h"}, GroupOrder <- <<"g", "h">>, Policies <- AllPolicies,
                              Forgetter <- {"f1"}, Named <- TRUE, Replicas <- FALSE, LastDay <- 5

(* Every world without what its transport ignores, and the best of them. *)
AllWorlds ==
    {w \in World : w.via = "rclone" =>
        w.hostKey = "known" /\ w.has = {} /\ w.accepts = {} /\ w.keyReadable}
GoodWorld == [via |-> "ssh", hostKey |-> "known", has |-> {"key"}, accepts |-> {"key"},
              keyReadable |-> TRUE, extensions |-> {"hardlink", "rename"}]

Opened == phase = "open" /\ world = GoodWorld /\ said = "version" /\ child = "none" /\ timer = "none"
NoDaemon ==
    /\ once = FALSE /\ now = 0 /\ triggers = 0 /\ lastEnd = 0 /\ sleep = 0 /\ suspended = 0
    /\ pc = "off" /\ batch = <<>> /\ due = << >> /\ channel = <<>> /\ received = NoJob
    /\ queued = <<>> /\ running = NoJob /\ history = <<>> /\ shutdown = FALSE
NoRepository ==
    /\ primary = {} /\ replica = {} /\ today = 0 /\ config = NotSet
    /\ backup = << >> /\ forget = << >>

MCInit ==
    \/ part = "daemon" /\ Init /\ Opened /\ NoRepository
    \/ part = "connect" /\ NoDaemon /\ ConnInit /\ NoRepository
    \/ part = "forget" /\ NoDaemon /\ Opened /\ ForgetInit
    \/ part = "plans" /\ NoDaemon /\ Opened /\ Plans!ForgetInit /\ config = NotSet
MCNext ==
    /\ \/ part = "daemon" /\ Next /\ UNCHANGED <<connVars, forgetVars>>
       \/ part = "connect" /\ ConnNext /\ UNCHANGED <<vars, forgetVars>>
       \/ part = "forget" /\ ForgetNext /\ UNCHANGED <<vars, connVars>>
       \/ part = "plans" /\ Plans!ForgetNext /\ UNCHANGED <<vars, connVars>>
    /\ UNCHANGED part
MCSpec == MCInit /\ [][MCNext]_<<vars, connVars, forgetVars, part>> /\ LoopFair /\ ConnFair

(* Of Plans, plans are made and none is carried out, and the snapshots are *)
(* what backups that end or die leave.                                     *)
PlansOnly == part = "plans" => \A f \in DOMAIN forget : forget[f] = NoForget
=============================================================================
