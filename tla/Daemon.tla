------------------------------- MODULE Daemon -------------------------------
(***************************************************************************)
(* The scheduler of crates/kist-app/src/daemon.rs: one loop that runs one  *)
(* job at a time, on a cron schedule, on a trigger from the web UI, or, in *)
(* `run --once`, every configured job in turn.                             *)
(*                                                                         *)
(* Three tasks share its state.  The loop owns the receiving end of a      *)
(* channel of capacity one and the list of jobs it still has to run; HTTP  *)
(* handlers call `trigger`, which puts a job in the channel and in the     *)
(* list `queued` that the UI shows, under one lock; a signal handler sets  *)
(* the shutdown flag.  The loop takes a job out of the channel before it   *)
(* gets the lock to take it out of the list.                               *)
(*                                                                         *)
(* A job itself is opaque: it takes time and ends with a status.           *)
(***************************************************************************)
EXTENDS Naturals, Sequences, SequencesExt, FiniteSets, FiniteSetsExt

CONSTANTS
    Configured,     \* the jobs with a section in the configuration
    Every,          \* the period of each scheduled job (external: croner)
    HistoryMax,     \* HISTORY_MAX
    MaxTime,        \* bound on the clock, suspensions included
    MaxTriggers,    \* bound on accepted triggers
    NoJob

(* JobKind, in the order in which jobs due together run. *)
JobOrder == <<"backup", "forget", "prune">>
Job == Range(JobOrder)
Status == {"success", "incomplete", "failure"}

Scheduled == DOMAIN Every

ASSUME DaemonConstants ==
    /\ Configured \subseteq Job /\ Scheduled \subseteq Configured
    /\ Every \in [Scheduled -> Nat \ {0}]
    /\ HistoryMax \in Nat \ {0}
    /\ MaxTime \in Nat /\ MaxTriggers \in Nat
    /\ NoJob \notin Job

VARIABLES
    once,           \* `run --once`, by an external cron, or the daemon
    now,            \* the clock
    pc,             \* the loop; "off" when the process was killed
    due,            \* the next time of each scheduled job
    sleep,          \* what is left of the loop's sleep, on the monotonic clock
    batch,          \* the jobs to run before the loop looks again
    channel,        \* trigger_tx / trigger_rx
    received,       \* the job taken out of the channel
    queued, running, history,   \* DaemonState
    shutdown,       \* the watch channel of the signal handler
    triggers,       \* accepted triggers, for the bound
    lastEnd,        \* when the last job ended
    suspended       \* how long the machine was suspended during this sleep

stateVars == <<queued, running, history>>
vars == <<once, now, pc, due, sleep, batch, channel, received, stateVars, shutdown, triggers, lastEnd, suspended>>

(* The jobs of a set, in running order. *)
InOrder(jobs) == SelectSeq(JobOrder, LAMBDA k : k \in jobs)

FirstPc == IF once THEN "once" ELSE "plan"
FirstBatch == IF once THEN InOrder(Configured) ELSE <<>>

Init ==
    /\ once \in BOOLEAN
    /\ now = 0 /\ triggers = 0 /\ lastEnd = 0 /\ suspended = 0
    /\ pc = FirstPc /\ batch = FirstBatch
    /\ due = [k \in {} |-> 0] /\ sleep = 0
    /\ channel = <<>> /\ received = NoJob
    /\ queued = <<>> /\ running = NoJob /\ history = <<>>
    /\ shutdown = FALSE

Tick ==
    /\ now < MaxTime
    /\ now' = now + 1
    /\ sleep' = IF sleep > 0 THEN sleep - 1 ELSE 0
    /\ UNCHANGED <<once, pc, due, batch, channel, received, stateVars, shutdown, triggers,
                   lastEnd, suspended>>

(* The machine is suspended: its clock goes on, the monotonic one of tokio *)
(* (on Linux) does not.                                                    *)
Suspend ==
    /\ \E t \in now + 1 .. MaxTime :
          /\ now' = t
          /\ suspended' = IF pc = "select" THEN suspended + (t - now) ELSE suspended
    /\ UNCHANGED <<once, pc, due, sleep, batch, channel, received, stateVars, shutdown,
                   triggers, lastEnd>>

(* A slip: an occurrence that is now counts as the next one. *)
NextAfterFrom(k, t) == ((t + Every[k] - 1) \div Every[k]) * Every[k]

(* Schedule::next_after: strictly later. *)
NextAfter(k, t) == (t \div Every[k] + 1) * Every[k]

Earliest == Min({due[k] : k \in DOMAIN due})

(* The top of the loop: the next time of each job, from the present, and   *)
(* how long it is until the first of them.                                 *)
Plan ==
    /\ pc = "plan"
    /\ due' = [k \in Scheduled |-> NextAfter(k, now)]
    /\ sleep' = IF Scheduled = {} THEN 0 ELSE Earliest' - now
    /\ pc' = "select"
    /\ UNCHANGED <<once, now, batch, channel, received, stateVars, shutdown, triggers,
                   lastEnd, suspended>>

(* The sleep is over, now or late: all jobs of that instant run, whatever  *)
(* the clock says.                                                         *)
Wake ==
    /\ pc = "select" /\ Scheduled # {} /\ sleep = 0
    /\ batch' = InOrder({k \in Scheduled : due[k] = Earliest})
    /\ pc' = "start" /\ suspended' = 0
    /\ UNCHANGED <<once, now, due, sleep, channel, received, stateVars, shutdown, triggers,
                   lastEnd>>

(* A slip: the flag is looked at when a sleep is over. *)
SeeShutdownAfterSleep ==
    /\ pc = "select" /\ shutdown /\ sleep = 0
    /\ pc' = "done"
    /\ UNCHANGED <<once, now, due, sleep, batch, channel, received, stateVars, shutdown,
                   triggers, lastEnd, suspended>>

(* shutdown.changed(): a signal, whenever it came, is seen here. *)
SeeShutdown ==
    /\ pc = "select" /\ shutdown
    /\ pc' = "done"
    /\ UNCHANGED <<once, now, due, sleep, batch, channel, received, stateVars, shutdown,
                   triggers, lastEnd, suspended>>

(* trigger_rx.recv(): the channel has room again. *)
Receive ==
    /\ pc = "select" /\ channel # <<>>
    /\ received' = Head(channel) /\ channel' = Tail(channel)
    /\ pc' = "received" /\ suspended' = 0
    /\ UNCHANGED <<once, now, due, sleep, batch, stateVars, shutdown, triggers, lastEnd>>

(* ... and then, under the lock, the job leaves the list. *)
Unlist ==
    /\ pc = "received"
    /\ queued' = IF received \in Range(queued)
                 THEN RemoveFirst(queued, received)
                 ELSE queued
    /\ batch' = <<received>> /\ received' = NoJob
    /\ pc' = "start"
    /\ UNCHANGED <<once, now, due, sleep, channel, running, history, shutdown, triggers,
                   lastEnd, suspended>>

(* run_once: the next job, unless told to stop. *)
OnceNext ==
    /\ pc = "once"
    /\ pc' = IF batch # <<>> /\ ~shutdown THEN "start" ELSE "done"
    /\ UNCHANGED <<once, now, due, sleep, batch, channel, received, stateVars, shutdown,
                   triggers, lastEnd, suspended>>

(* execute: the job is shown as running. *)
Start ==
    /\ pc = "start"
    /\ running' = Head(batch) /\ batch' = Tail(batch)
    /\ pc' = "exec"
    /\ UNCHANGED <<once, now, due, sleep, channel, received, queued, history, shutdown,
                   triggers, lastEnd, suspended>>

(* ... run_job has returned: it is history, newest first. *)
Finish(status) ==
    /\ pc = "exec"
    /\ history' = SubSeq(<<[job |-> running, status |-> status]>> \o history, 1,
                         Min({HistoryMax, Len(history) + 1}))
    /\ running' = NoJob
    /\ lastEnd' = now
    /\ pc' = "record"
    /\ UNCHANGED <<once, now, due, sleep, batch, channel, received, queued, shutdown,
                   triggers, suspended>>

(* ... metrics, the notification and the caller are told; then the loop    *)
(* stops, goes on with its batch, or starts over.                          *)
Record ==
    /\ pc = "record"
    /\ pc' = IF once THEN "once"
             ELSE IF shutdown THEN "done"
             ELSE IF batch # <<>> THEN "start"
             ELSE "plan"
    /\ UNCHANGED <<once, now, due, sleep, batch, channel, received, stateVars, shutdown,
                   triggers, lastEnd, suspended>>

(* A slip: the list is changed whether or not the channel took the job. *)
TriggerListed(k) ==
    /\ pc \notin {"done", "off"}
    /\ ~once /\ k \in Configured
    /\ triggers < MaxTriggers
    /\ channel' = IF channel = <<>> THEN <<k>> ELSE channel
    /\ queued' = Append(queued, k)
    /\ triggers' = triggers + 1
    /\ UNCHANGED <<once, now, pc, due, sleep, batch, received, running, history, shutdown,
                   lastEnd, suspended>>

(* A slip: a newer trigger takes the place of the one in the channel. *)
TriggerReplaces(k) ==
    /\ pc \notin {"done", "off"}
    /\ ~once /\ k \in Configured
    /\ triggers < MaxTriggers
    /\ channel' = <<k>>
    /\ queued' = Append(SelectSeq(queued, LAMBDA j : <<j>> # channel), k)
    /\ triggers' = triggers + 1
    /\ UNCHANGED <<once, now, pc, due, sleep, batch, received, running, history, shutdown,
                   lastEnd, suspended>>

(* DaemonHandle::trigger, when it accepts: try_send and push in one lock.  *)
(* With the channel full or closed it changes nothing.                     *)
Trigger(k) ==
    /\ pc \notin {"done", "off"}
    /\ ~once /\ k \in Configured
    /\ triggers < MaxTriggers
    /\ channel = <<>>
    /\ channel' = <<k>>
    /\ queued' = Append(queued, k)
    /\ triggers' = triggers + 1
    /\ UNCHANGED <<once, now, pc, due, sleep, batch, received, running, history, shutdown,
                   lastEnd, suspended>>

(* spawn_shutdown_watcher: SIGINT or SIGTERM. *)
Signal ==
    /\ ~shutdown /\ pc \notin {"done", "off"}
    /\ shutdown' = TRUE
    /\ UNCHANGED <<once, now, pc, due, sleep, batch, channel, received, stateVars, triggers,
                   lastEnd, suspended>>

(* The process is killed, with whatever it was running. *)
Crash ==
    /\ pc \notin {"done", "off"}
    /\ pc' = "off"
    /\ UNCHANGED <<once, now, due, sleep, batch, channel, received, stateVars, shutdown,
                   triggers, lastEnd, suspended>>

(* The service manager starts it again: DaemonState is in memory only. *)
Boot ==
    /\ pc \in {"done", "off"}
    /\ pc' = FirstPc /\ batch' = FirstBatch
    /\ due' = [k \in {} |-> 0] /\ sleep' = 0
    /\ channel' = <<>> /\ received' = NoJob
    /\ queued' = <<>> /\ running' = NoJob /\ history' = <<>>
    /\ shutdown' = FALSE /\ suspended' = 0
    /\ UNCHANGED <<once, now, triggers, lastEnd>>

Loop ==
    \/ Plan \/ Wake \/ SeeShutdown \/ Receive \/ Unlist
    \/ OnceNext \/ Start \/ (\E s \in Status : Finish(s)) \/ Record

Next ==
    \/ Tick \/ Suspend \/ Loop
    \/ \E k \in Job : Trigger(k)
    \/ Signal \/ Crash \/ Boot

(* The loop runs, and a job ends, sooner or later; `select!` picks one of  *)
(* the branches that are ready at random, so none is passed over for ever. *)
LoopFair == WF_vars(Loop) /\ SF_vars(Receive) /\ SF_vars(SeeShutdown)

Spec == Init /\ [][Next]_vars /\ LoopFair
-----------------------------------------------------------------------------
(* The UI lists exactly the jobs that were accepted and are not started:   *)
(* the one the loop has just taken and the one in the channel.  Nothing    *)
(* stays listed that will not run, nothing that will run is missing        *)
(* (daemon.rs, trigger: no remnant of a job received before it is listed). *)
QueueListed ==
    queued = (IF received = NoJob THEN <<>> ELSE <<received>>) \o channel

(* A scheduled time that passed while a job ran, or while the process was  *)
(* down, is not made up for, and none runs twice: a wake-up is for a time  *)
(* later than the end of the job before it.  A time that the machine       *)
(* sleeps through is made up for, and late by all of the suspension, where *)
(* daemon.rs, line 5, says that it is skipped.                             *)
MissedSkipped == [][Wake => lastEnd < Earliest /\ Earliest + suspended =< now]_vars

(* A trigger that was accepted is run, unless the daemon stops first. *)
TriggerRuns ==
    \A k \in Job : channel = <<k>> ~> (running = k \/ pc \in {"done", "off"})

(* The daemon stops after a shutdown signal, whatever else arrives. *)
ShutdownStops == shutdown ~> pc \in {"done", "off"}
=============================================================================
