-------------------------- MODULE MaintenanceProofs --------------------------
(***************************************************************************)
(* Proofs about what keeps a repository in order: Daemon, for any          *)
(* schedules, any number of triggers and any length of time, and Forget,   *)
(* for any number of snapshots, groups, policies and forgetters.           *)
(*                                                                         *)
(* Daemon: what the UI lists, and which times a wake-up is for.  Forget:   *)
(* the pass of apply_policy with its counters means what the policy says,  *)
(* a group keeps its newest snapshot, and a plan made from an old listing  *)
(* stays right.                                                            *)
(*                                                                         *)
(* FoldLeft and FlattenSeq are recursive functions of the community        *)
(* modules; what they compute is proved by induction over a set of         *)
(* numbers (UpTo), once there is known to be a function that obeys the     *)
(* recursion (FoldExists, ChainExists).                                    *)
(***************************************************************************)
EXTENDS Daemon, Forget, SequenceTheorems, FiniteSetTheorems, NaturalsInduction, TLAPS

-----------------------------------------------------------------------------
(***************************************************************************)
(* Daemon: lemmas about the operators.                                     *)
(***************************************************************************)
\* Removing what a sequence begins with leaves the rest of it.
LEMMA RemoveFirstHead ==
    ASSUME NEW S, NEW e \in S, NEW rest \in Seq(S)
    PROVE  RemoveFirst(<<e>> \o rest, e) = rest
<1> DEFINE s == <<e>> \o rest
           I == {i \in 1 .. Len(s) : s[i] = e}
<1>1. s \in Seq(S) /\ Len(s) = Len(rest) + 1 /\ s[1] = e
  OBVIOUS
<1>2. 1 \in I /\ \A i \in I : 1 =< i
  BY <1>1
<1>3. Min(I) = 1
  <2> HIDE DEF I
  <2>1. \A i \in I : i \in Int
    BY DEF I
  <2>2. Min(I) \in I /\ \A i \in I : Min(I) =< i
    BY <1>2 DEF Min
  <2> QED BY <1>2, <2>1, <2>2
<1>4. SelectInSeq(s, LAMBDA v : v = e) = 1
  <2>1. SelectInSeq(s, LAMBDA v : v = e) = IF I # {} THEN Min(I) ELSE 0
    BY DEF SelectInSeq
  <2> QED BY <1>2, <1>3, <2>1
<1>5. RemoveFirst(s, e) = RemoveAt(s, 1)
  BY <1>1, <1>2, <1>4 DEF RemoveFirst
<1>6. RemoveAt(s, 1) = SubSeq(s, 1, 0) \o SubSeq(s, 2, Len(s))
  BY DEF RemoveAt
<1>7. SubSeq(s, 1, 0) = <<>> /\ SubSeq(s, 2, Len(s)) = rest
  BY <1>1
<1>8. <<>> \o rest = rest
  OBVIOUS
<1> QED BY ONLY <1>5, <1>6, <1>7, <1>8

\* The jobs are three.
LEMMA Jobs == Job = {"backup", "forget", "prune"}
<1>1. DOMAIN JobOrder = 1 .. 3 /\ Range(JobOrder) = {JobOrder[i] : i \in DOMAIN JobOrder}
  BY DEF JobOrder, Range
<1> QED BY <1>1 DEF Job, JobOrder

\* Of the times of some jobs one is the earliest.
LEMMA EarliestTime ==
    ASSUME NEW D, D \subseteq Job, D # {}, NEW f \in [D -> Nat]
    PROVE  \E k \in D : Min({f[l] : l \in D}) = f[k]
<1>1. \E k \in D : \A l \in D : f[k] =< f[l]
  <2> SUFFICES ASSUME \A k \in D : \E l \in D : f[l] < f[k] PROVE FALSE
    OBVIOUS
  <2>1. PICK i \in D, j \in D, k \in D, l \in D : f[i] < f[j] /\ f[j] < f[k] /\ f[k] < f[l]
    OBVIOUS
  <2>2. f[i] \in Nat /\ f[j] \in Nat /\ f[k] \in Nat /\ f[l] \in Nat
    OBVIOUS
  <2> QED BY <2>1, <2>2, Jobs
<1> DEFINE S == {f[l] : l \in D}
<1>2. \E t \in S : \A u \in S : t =< u
  BY <1>1
<1> HIDE DEF S
<1>3. Min(S) \in S
  BY <1>2 DEF Min
<1> QED BY <1>3 DEF S

\* The next time of a schedule is later than the time it is asked for.
LEMMA NextLater ==
    ASSUME NEW k \in Scheduled, NEW t \in Nat
    PROVE  NextAfter(k, t) \in Nat /\ NextAfter(k, t) > t
<1>1. Every[k] \in Nat \ {0}
  BY DaemonConstants
<1>2. ASSUME NEW b \in Nat \ {0} PROVE t < (t \div b + 1) * b /\ (t \div b + 1) * b \in Int
  OBVIOUS
<1> QED BY <1>1, <1>2 DEF NextAfter

-----------------------------------------------------------------------------
(***************************************************************************)
(* The inductive invariant.                                                *)
(***************************************************************************)
\* What the loop, the channel and the list agree about.
TriggersListed ==
    /\ channel \in Seq(Job) /\ Len(channel) =< 1
    /\ received \in Job \cup {NoJob}
    /\ pc = "received" => received \in Job
    /\ pc \notin {"received", "off"} => received = NoJob
    /\ QueueListed

\* While the loop waits, every time it waits for is later than the last job.
TimesAhead ==
    /\ now \in Nat /\ lastEnd \in Nat /\ lastEnd =< now
    /\ pc = "select" =>
          /\ due \in [Scheduled -> Nat]
          /\ \A k \in Scheduled : due[k] > lastEnd

\* The sleep is never over before the first of these times and a suspension after it.
SleepCounts ==
    /\ sleep \in Nat /\ suspended \in Nat
    /\ pc \notin {"select", "done", "off"} => suspended = 0
    /\ pc = "select" /\ Scheduled # {} => Earliest + suspended =< now + sleep

IInv == TriggersListed /\ TimesAhead /\ SleepCounts

\* IInv holds at the start.
LEMMA InvInit == Init => IInv
<1> SUFFICES ASSUME Init PROVE IInv
  OBVIOUS
<1>1. pc \notin {"received", "select"}
  BY DEF Init, FirstPc
<1>2. TriggersListed
  BY <1>1 DEF Init, TriggersListed, QueueListed
<1>3. TimesAhead
  BY <1>1 DEF Init, TimesAhead
<1>4. SleepCounts
  BY <1>1 DEF Init, SleepCounts
<1> QED BY <1>2, <1>3, <1>4 DEF IInv

\* A step that leaves the list, the channel and what has been received alone.
LEMMA ListStays ==
    ASSUME TriggersListed, UNCHANGED <<channel, received, queued>>,
           pc' = "received" => pc = "received",
           pc = "received" => pc' \in {"received", "off"},
           pc = "off" => pc' = "off"
    PROVE  TriggersListed'
  BY DaemonConstants DEF TriggersListed, QueueListed

\* Every step keeps the list exact: trigger adds to the list and the channel at
\* once, and only the loop takes from either.
LEMMA ListStep == TriggersListed /\ [Next]_vars => TriggersListed'
<1> SUFFICES ASSUME TriggersListed, [Next]_vars PROVE TriggersListed'
  OBVIOUS
<1> USE DEF TriggersListed, QueueListed
<1>1. CASE UNCHANGED vars
  BY <1>1 DEF vars, stateVars
<1>2. CASE Tick \/ Suspend \/ Plan \/ Wake \/ SeeShutdown \/ OnceNext \/ Start \/ Record \/ Signal \/ Crash
  <2>1. UNCHANGED <<channel, received, queued>>
    BY <1>2 DEF Tick, Suspend, Plan, Wake, SeeShutdown, OnceNext, Start, Record, Signal, Crash, stateVars
  <2>2. /\ pc' = "received" => pc = "received"
        /\ pc = "received" => pc' \in {"received", "off"}
        /\ pc = "off" => pc' = "off"
    BY <1>2 DEF Tick, Suspend, Plan, Wake, SeeShutdown, OnceNext, Start, Record, Signal, Crash
  <2> QED BY <2>1, <2>2, ListStays
<1>3. ASSUME NEW s \in Status, Finish(s) PROVE TriggersListed'
  BY <1>3, ListStays DEF Finish
<1>4. CASE Receive
  <2>1. channel = <<Head(channel)>> /\ Head(channel) \in Job /\ Tail(channel) = <<>>
    <3>1. channel \in Seq(Job) /\ Len(channel) = 1
      <4>1. channel \in Seq(Job) /\ Len(channel) =< 1 /\ channel # <<>>
        BY <1>4 DEF Receive
      <4>2. Len(channel) \in Nat \ {0}
        BY <4>1, EmptySeq
      <4> QED BY <4>1, <4>2
    <3>2. Head(channel) \in Job /\ Tail(channel) \in Seq(Job) /\ Len(Tail(channel)) = 0
      BY <3>1
    <3>3. Tail(channel) = <<>>
      BY <3>2, EmptySeq
    <3>4. channel = <<Head(channel)>>
      BY <3>1
    <3> QED BY <3>2, <3>3, <3>4
  <2>2. received = NoJob /\ received' = Head(channel) /\ channel' = <<>> /\ pc' = "received"
    BY <1>4, <2>1 DEF Receive
  <2>3. queued = channel /\ queued' = queued
    BY <1>4, <2>2 DEF Receive, stateVars
  <2> QED BY <2>1, <2>2, <2>3, DaemonConstants
<1>5. CASE Unlist
  <2>1. received \in Job /\ received # NoJob /\ pc = "received"
    BY <1>5, DaemonConstants DEF Unlist
  <2>2. queued = <<received>> \o channel
    BY <2>1
  <2>3. received \in Range(queued)
    <3>1. queued[1] = received /\ 1 \in DOMAIN queued
      BY <2>1, <2>2
    <3> QED BY <3>1 DEF Range
  <2>4. queued' = channel
    BY <1>5, <2>1, <2>2, <2>3, RemoveFirstHead DEF Unlist
  <2>5. received' = NoJob /\ channel' = channel /\ pc' = "start"
    BY <1>5 DEF Unlist
  <2>6. <<>> \o channel = channel
    OBVIOUS
  <2> QED BY <2>4, <2>5, <2>6, DaemonConstants
<1>6. ASSUME NEW k \in Job, Trigger(k) PROVE TriggersListed'
  <2> DEFINE taken == IF received = NoJob THEN <<>> ELSE <<received>>
  <2>1. channel = <<>> /\ channel' = <<k>> /\ queued' = Append(queued, k)
        /\ UNCHANGED <<pc, received>>
    BY <1>6 DEF Trigger
  <2>2. taken \in Seq(Job)
    OBVIOUS
  <2>3. taken \o <<>> = taken
    BY <2>2
  <2>4. queued = taken
    BY <2>1, <2>3
  <2>5. queued' = taken \o channel'
    BY <2>1, <2>2, <2>4
  <2> QED BY <2>1, <2>5
<1>7. CASE Boot
  <2>1. pc' \notin {"received", "off"}
    BY <1>7 DEF Boot, FirstPc
  <2> QED BY <1>7, <2>1 DEF Boot
<1> QED BY <1>1, <1>2, <1>3, <1>4, <1>5, <1>6, <1>7 DEF Next, Loop

\* Every step keeps the times ahead: Plan looks at the clock when no job runs,
\* and a job that ends makes the loop plan anew.
LEMMA TimesStep == TimesAhead /\ [Next]_vars => TimesAhead'
<1> SUFFICES ASSUME TimesAhead, [Next]_vars PROVE TimesAhead'
  OBVIOUS
<1>1. CASE UNCHANGED vars
  BY <1>1 DEF TimesAhead, vars
<1>2. CASE Tick \/ Suspend
  <2>1. now' \in Nat /\ now =< now' /\ UNCHANGED <<pc, due, lastEnd>>
    BY <1>2, DaemonConstants DEF TimesAhead, Tick, Suspend
  <2> QED BY <2>1 DEF TimesAhead
<1>3. CASE Plan
  <2>1. due' \in [Scheduled -> Nat] /\ \A k \in Scheduled : due'[k] > now
    BY <1>3, NextLater DEF TimesAhead, Plan
  <2>2. UNCHANGED <<now, lastEnd>>
    BY <1>3 DEF Plan
  <2> QED BY <2>1, <2>2 DEF TimesAhead
<1>4. ASSUME UNCHANGED <<now, lastEnd>>, pc' = "select" => pc = "select" /\ due' = due
      PROVE  TimesAhead'
  BY <1>4 DEF TimesAhead
<1>5. CASE Wake \/ SeeShutdown \/ Receive \/ Unlist \/ OnceNext \/ Start \/ Record
           \/ Signal \/ Crash \/ Boot
  BY <1>4, <1>5 DEF Wake, SeeShutdown, Receive, Unlist, OnceNext, Start, Record, Signal, Crash,
                    Boot, FirstPc
<1>6. ASSUME NEW s \in Status, Finish(s) PROVE TimesAhead'
  BY <1>6 DEF TimesAhead, Finish
<1>7. ASSUME NEW k \in Job, Trigger(k) PROVE TimesAhead'
  BY <1>4, <1>7 DEF Trigger
<1> QED BY <1>1, <1>2, <1>3, <1>5, <1>6, <1>7 DEF Next, Loop

\* The first of the times is one of them.
LEMMA FirstTime ==
    ASSUME NEW f \in [Scheduled -> Nat], Scheduled # {}
    PROVE  \E k \in Scheduled : Min({f[l] : l \in DOMAIN f}) = f[k]
<1>1. Scheduled \subseteq Job
  BY DaemonConstants
<1> QED BY <1>1, EarliestTime

\* A tick takes one from the sleep and adds one to the clock, a suspension adds
\* the same to the clock and to what is counted of it.
LEMMA SleepStep == TimesAhead /\ SleepCounts /\ [Next]_vars => SleepCounts'
<1> SUFFICES ASSUME TimesAhead, SleepCounts, [Next]_vars PROVE SleepCounts'
  OBVIOUS
<1>1. CASE UNCHANGED vars
  BY <1>1 DEF SleepCounts, vars, Earliest
<1>2. ASSUME UNCHANGED <<pc, due>>, now' \in Nat, sleep' \in Nat, suspended' \in Nat,
             pc \notin {"select", "done", "off"} => suspended' = suspended,
             pc = "select" => (now' + sleep') - suspended' >= (now + sleep) - suspended
      PROVE  SleepCounts'
  <2>1. ASSUME pc = "select", Scheduled # {} PROVE Earliest' + suspended' =< now' + sleep'
    <3>1. Earliest \in Nat /\ Earliest' = Earliest
      BY <1>2, <2>1, FirstTime DEF TimesAhead, Earliest
    <3>2. Earliest + suspended =< now + sleep
      BY <2>1, <1>2 DEF SleepCounts
    <3>3. now \in Nat /\ sleep \in Nat /\ suspended \in Nat
      BY DEF TimesAhead, SleepCounts
    <3>4. ASSUME NEW e \in Nat, e + suspended =< now + sleep
          PROVE  e + suspended' =< now' + sleep'
      <4>1. (now' + sleep') - suspended' >= (now + sleep) - suspended
        BY <1>2, <2>1
      <4>2. ASSUME NEW n \in Nat, NEW m \in Nat, NEW u \in Nat, NEW v \in Nat, NEW w \in Nat, NEW z \in Nat,
                   (m + v) - z >= (n + u) - w, e + w =< n + u
            PROVE  e + z =< m + v
        BY <4>2
      <4> QED BY <1>2, <3>3, <3>4, <4>1, <4>2
    <3> QED BY <3>1, <3>2, <3>4
  <2> QED BY <1>2, <2>1 DEF SleepCounts
<1>3. CASE Tick
  <2>1. now \in Nat /\ sleep \in Nat /\ suspended \in Nat
    BY DEF TimesAhead, SleepCounts
  <2>2. now' \in Nat /\ sleep' \in Nat /\ suspended' = suspended /\ now' + sleep' >= now + sleep
    BY <1>3, <2>1 DEF Tick
  <2> QED BY <1>2, <1>3, <2>1, <2>2 DEF Tick
<1>4. CASE Suspend
  <2>1. now \in Nat /\ sleep \in Nat /\ suspended \in Nat
    BY DEF TimesAhead, SleepCounts
  <2>2. PICK t \in now + 1 .. MaxTime :
            /\ now' = t
            /\ suspended' = IF pc = "select" THEN suspended + (t - now) ELSE suspended
    BY <1>4 DEF Suspend
  <2>3. t \in Nat /\ t > now
    BY <2>1, <2>2, DaemonConstants
  <2> QED BY <1>2, <1>4, <2>1, <2>2, <2>3 DEF Suspend
<1>5. CASE Plan
  <2>1. due' \in [Scheduled -> Nat] /\ \A k \in Scheduled : due'[k] > now
    BY <1>5, NextLater DEF TimesAhead, Plan
  <2>2. ASSUME Scheduled # {} PROVE Earliest' \in Nat /\ Earliest' > now
    BY <2>1, <2>2, FirstTime DEF Earliest
  <2>3. suspended' = 0 /\ now' = now /\ now \in Nat
    BY <1>5 DEF Plan, SleepCounts, TimesAhead
  <2>4. sleep' = IF Scheduled = {} THEN 0 ELSE Earliest' - now
    BY <1>5 DEF Plan
  <2> QED BY <2>2, <2>3, <2>4 DEF SleepCounts
<1>6. ASSUME UNCHANGED sleep, pc' # "select",
             suspended' = 0 \/ (suspended' = suspended /\ pc' \in {"done", "off"})
      PROVE  SleepCounts'
  BY <1>6 DEF SleepCounts
<1>7. CASE Wake \/ SeeShutdown \/ Receive \/ Unlist \/ OnceNext \/ Start \/ Record \/ Crash
  BY <1>6, <1>7 DEF SleepCounts, Wake, SeeShutdown, Receive, Unlist, OnceNext, Start, Record, Crash
<1>8. ASSUME NEW s \in Status, Finish(s) PROVE SleepCounts'
  BY <1>6, <1>8 DEF SleepCounts, Finish
<1>9. ASSUME UNCHANGED <<pc, due, now, sleep, suspended>> PROVE SleepCounts'
  BY <1>9 DEF SleepCounts, Earliest
<1>10. CASE Signal
  BY <1>9, <1>10 DEF Signal
<1>11. ASSUME NEW k \in Job, Trigger(k) PROVE SleepCounts'
  BY <1>9, <1>11 DEF Trigger
<1>12. CASE Boot
  BY <1>12 DEF SleepCounts, Boot, FirstPc
<1> QED BY <1>1, <1>3, <1>4, <1>5, <1>7, <1>8, <1>10, <1>11, <1>12 DEF Next, Loop

-----------------------------------------------------------------------------
(***************************************************************************)
(* The theorems.                                                           *)
(***************************************************************************)
\* The invariant holds in every reachable state.
THEOREM DaemonInvariance == Spec => []IInv
<1>1. IInv /\ [Next]_vars => IInv'
  BY ListStep, TimesStep, SleepStep DEF IInv
<1> QED BY <1>1, InvInit, PTL DEF Spec

\* The list of the UI is what trigger has accepted and the loop has not started.
THEOREM QueueExact == Spec => []QueueListed
<1>1. IInv => QueueListed
  BY DEF IInv, TriggersListed
<1> QED BY <1>1, DaemonInvariance, PTL

\* A wake-up is for a time later than the end of the last job, for schedules of
\* any period and wherever the machine is suspended: what a job or a downtime has
\* passed over is not made up for.  What a suspension passes over is: the wake-up
\* for it is late by at least the whole suspension.
THEOREM NoMakingUp == Spec => MissedSkipped
<1>1. IInv /\ [Next]_vars => [Wake => lastEnd < Earliest /\ Earliest + suspended =< now]_vars
  <2> SUFFICES ASSUME IInv, Wake PROVE lastEnd < Earliest /\ Earliest + suspended =< now
    OBVIOUS
  <2>1. due \in [Scheduled -> Nat] /\ \A k \in Scheduled : due[k] > lastEnd
    BY DEF IInv, TimesAhead, Wake
  <2>2. PICK k \in Scheduled : Earliest = due[k]
    BY <2>1, FirstTime DEF Earliest, Wake
  <2>3. Earliest + suspended =< now + sleep /\ sleep = 0 /\ now \in Nat
    BY DEF IInv, TimesAhead, SleepCounts, Wake
  <2> QED BY <2>1, <2>2, <2>3
<1> QED BY <1>1, DaemonInvariance, PTL DEF Spec, MissedSkipped

-----------------------------------------------------------------------------
(***************************************************************************)
(* Forget                                                                  *)
(***************************************************************************)
(* Induction over an interval of natural numbers, on a set. *)
LEMMA UpTo ==
    ASSUME NEW n \in Nat, NEW P, 0 \in P, \A i \in 0 .. n - 1 : i \in P => i + 1 \in P
    PROVE  \A i \in 0 .. n : i \in P
<1> DEFINE Bad == {i \in 0 .. n : i \notin P}
<1> SUFFICES ASSUME Bad # {} PROVE FALSE
  OBVIOUS
<1>1. PICK x \in Bad : \A y \in Bad : ~ (<<y, x>> \in OpToRel(<, Nat))
  <2>1. Bad \subseteq Nat
    OBVIOUS
  <2>2. IsWellFoundedOn(OpToRel(<, Nat), Nat)
    BY NatLessThanWellFounded
  <2> HIDE DEF Bad
  <2> QED
    BY <2>1, <2>2, WFMin
<1>2. x \in 0 .. n /\ x # 0 /\ x \notin P
  OBVIOUS
<1>3. x - 1 \notin Bad
  <2>1. x \in Nat /\ x - 1 \in Nat /\ x - 1 < x
    BY <1>2
  <2>2. <<x - 1, x>> \in Nat \X Nat
    BY <2>1
  <2>3. <<x - 1, x>> \in OpToRel(<, Nat)
    BY <2>1, <2>2 DEF OpToRel
  <2> HIDE DEF Bad
  <2> QED
    BY <1>1, <2>3
<1>4. x - 1 \in P /\ x - 1 \in 0 .. n - 1
  BY <1>2, <1>3
<1> QED
  BY <1>2, <1>4

(* A set of numbers up to m that has a member has a greatest one. *)
LEMMA Greatest ==
    ASSUME NEW m \in Nat, NEW s \in SUBSET (1 .. m), s # {}
    PROVE  Max(s) \in s /\ \A y \in s : Max(s) >= y
<1> DEFINE P == {i \in 0 .. m : s \cap 1 .. i = {} \/ \E x \in s : \A y \in s \cap 1 .. i : x >= y}
<1>1. 0 \in P
  OBVIOUS
<1>2. ASSUME NEW i \in 0 .. m - 1, i \in P PROVE i + 1 \in P
  <2>1. CASE i + 1 \in s
    <3>1. \A y \in s \cap 1 .. i + 1 : i + 1 >= y
      OBVIOUS
    <3> QED
      BY <2>1, <3>1
  <2>2. CASE i + 1 \notin s
    <3>1. s \cap 1 .. i + 1 = s \cap 1 .. i
      BY <2>2
    <3> QED
      BY <1>2, <3>1
  <2> QED
    BY <2>1, <2>2
<1>3. m \in P
  <2> HIDE DEF P
  <2> QED
    BY <1>1, <1>2, UpTo
<1>4. s \cap 1 .. m = s
  OBVIOUS
<1>5. \E x \in s : \A y \in s : x >= y
  BY <1>3, <1>4
<1> QED
  BY <1>5 DEF Max

(* A recursive function over the parts of 1 .. n, by their greatest members. *)
Folding(g, St, n, base, step) ==
    /\ g \in [SUBSET (1 .. n) -> St]
    /\ \A s \in SUBSET (1 .. n) :
          g[s] = IF s = {} THEN base ELSE step[<<g[s \ {Max(s)}], Max(s)>>]

(* There is one, as FoldLeft takes for granted. *)
LEMMA FoldExists ==
    ASSUME NEW St, NEW base \in St, NEW n \in Nat, NEW step \in [St \X (1 .. n) -> St]
    PROVE  \E g : Folding(g, St, n, base, step)
<1> DEFINE Obeys(g, m) ==
              /\ g \in [SUBSET (1 .. m) -> St]
              /\ g[{}] = base
              /\ \A s \in SUBSET (1 .. m) : s # {} => g[s] = step[<<g[s \ {Max(s)}], Max(s)>>]
           P == {m \in 0 .. n : \E g : Obeys(g, m)}
<1>1. 0 \in P
  <2>1. \A s \in SUBSET (1 .. 0) : s = {}
    OBVIOUS
  <2>2. Obeys([s \in SUBSET (1 .. 0) |-> base], 0)
    BY <2>1
  <2> HIDE DEF Obeys
  <2> QED
    BY <2>2
<1>2. ASSUME NEW m \in 0 .. n - 1, m \in P PROVE m + 1 \in P
  <2>1. PICK g : Obeys(g, m)
    BY <1>2
  <2> DEFINE h == [s \in SUBSET (1 .. m + 1) |->
                      IF m + 1 \in s THEN step[<<g[s \ {m + 1}], m + 1>>] ELSE g[s]]
  <2>2. ASSUME NEW s \in SUBSET (1 .. m + 1), m + 1 \in s
        PROVE  Max(s) = m + 1 /\ s \ {m + 1} \in SUBSET (1 .. m) /\ h[s \ {m + 1}] = g[s \ {m + 1}]
    <3>1. Max(s) \in s /\ \A y \in s : Max(s) >= y
      <4>1. m + 1 \in Nat /\ s # {}
        BY <2>2
      <4> QED
        BY <4>1, Greatest
    <3>2. Max(s) \in 1 .. m + 1 /\ Max(s) >= m + 1
      BY <2>2, <3>1
    <3> QED
      BY <3>2
  <2>3. ASSUME NEW s \in SUBSET (1 .. m + 1), m + 1 \notin s
        PROVE  s \in SUBSET (1 .. m) /\ h[s] = g[s]
    BY <2>3
  <2>4. h \in [SUBSET (1 .. m + 1) -> St]
    <3> SUFFICES ASSUME NEW s \in SUBSET (1 .. m + 1) PROVE h[s] \in St
      OBVIOUS
    <3>1. CASE m + 1 \in s
      <4>1. g[s \ {m + 1}] \in St /\ m + 1 \in 1 .. n
        BY <2>1, <2>2, <3>1
      <4> QED
        BY <3>1, <4>1
    <3>2. CASE m + 1 \notin s
      BY <2>1, <2>3, <3>2
    <3> QED
      BY <3>1, <3>2
  <2>5. h[{}] = base
    BY <2>1, <2>3
  <2>6. ASSUME NEW s \in SUBSET (1 .. m + 1), s # {}
        PROVE  h[s] = step[<<h[s \ {Max(s)}], Max(s)>>]
    <3>1. CASE m + 1 \in s
      <4>1. h[s] = step[<<g[s \ {m + 1}], m + 1>>]
        BY <3>1
      <4> HIDE DEF h
      <4> QED
        BY <2>2, <3>1, <4>1
    <3>2. CASE m + 1 \notin s
      <4>1. s \in SUBSET (1 .. m) /\ s \ {Max(s)} \in SUBSET (1 .. m + 1) /\ m + 1 \notin s \ {Max(s)}
        BY <2>3, <3>2
      <4>2. h[s] = g[s] /\ h[s \ {Max(s)}] = g[s \ {Max(s)}]
        BY <2>3, <3>2, <4>1
      <4> HIDE DEF h
      <4> QED
        BY <2>1, <2>6, <4>1, <4>2
    <3> QED
      BY <3>1, <3>2
  <2>7. Obeys(h, m + 1)
    <3> HIDE DEF h
    <3> QED
      BY <2>4, <2>5, <2>6
  <2> HIDE DEF Obeys, h
  <2> QED
    BY <2>7
<1>3. n \in P
  <2> HIDE DEF P
  <2> QED
    BY <1>1, <1>2, UpTo
<1>4. PICK g : Obeys(g, n)
  BY <1>3
<1>5. \A s \in SUBSET (1 .. n) :
         g[s] = IF s = {} THEN base ELSE step[<<g[s \ {Max(s)}], Max(s)>>]
  BY <1>4
<1> QED
  BY <1>4, <1>5 DEF Folding

(* A recursive function over 1 .. n. *)
Chaining(g, St, n, first, step) ==
    /\ g \in [1 .. n -> St]
    /\ \A i \in 1 .. n : g[i] = IF i = 1 THEN first ELSE step[<<g[i - 1], i>>]

(* There is one, as FlattenSeq takes for granted. *)
LEMMA ChainExists ==
    ASSUME NEW St, NEW n \in Nat, NEW first \in St, NEW step \in [St \X (1 .. n) -> St]
    PROVE  \E g : Chaining(g, St, n, first, step)
<1> DEFINE Obeys(g, m) ==
              /\ g \in [1 .. m -> St]
              /\ \A i \in 1 .. m : g[i] = IF i = 1 THEN first ELSE step[<<g[i - 1], i>>]
           P == {m \in 0 .. n : \E g : Obeys(g, m)}
<1>1. 0 \in P
  <2>1. Obeys([i \in 1 .. 0 |-> first], 0)
    OBVIOUS
  <2> HIDE DEF Obeys
  <2> QED
    BY <2>1
<1>2. ASSUME NEW m \in 0 .. n - 1, m \in P PROVE m + 1 \in P
  <2>1. PICK g : Obeys(g, m)
    BY <1>2
  <2> DEFINE h == [i \in 1 .. m + 1 |->
                      IF i = 1 THEN first ELSE IF i = m + 1 THEN step[<<g[m], i>>] ELSE g[i]]
  <2>2. ASSUME NEW i \in 1 .. m PROVE h[i] = g[i]
    <3>1. m \in Nat /\ i \in 1 .. m + 1 /\ i # m + 1 /\ 1 \in 1 .. m
      OBVIOUS
    <3>2. g[1] = first
      BY <2>1, <3>1
    <3> QED
      BY <3>1, <3>2
  <2>3. m # 0 => g[m] \in St
    BY <2>1
  <2>4. h \in [1 .. m + 1 -> St]
    BY <2>1, <2>3
  <2>5. \A i \in 1 .. m + 1 : h[i] = IF i = 1 THEN first ELSE step[<<h[i - 1], i>>]
    <3> SUFFICES ASSUME NEW i \in 1 .. m + 1, i # 1 PROVE h[i] = step[<<h[i - 1], i>>]
      OBVIOUS
    <3>1. h[i - 1] = g[i - 1]
      <4>1. i - 1 \in 1 .. m
        OBVIOUS
      <4> HIDE DEF h
      <4> QED
        BY <2>2, <4>1
    <3>2. CASE i = m + 1
      BY <3>1, <3>2
    <3>3. CASE i # m + 1
      BY <2>1, <3>1, <3>3
    <3> QED
      BY <3>2, <3>3
  <2>6. Obeys(h, m + 1)
    BY <2>4, <2>5
  <2> HIDE DEF Obeys, h
  <2> QED
    BY <2>6
<1>3. n \in P
  <2> HIDE DEF P
  <2> QED
    BY <1>1, <1>2, UpTo
<1>4. PICK g : Obeys(g, n)
  BY <1>3
<1> QED
  BY <1>4 DEF Chaining
-----------------------------------------------------------------------------
(***************************************************************************)
(* Snapshots in an order.                                                  *)
(***************************************************************************)
(* R is a strict total order on S. *)
Orders(R, S) ==
    /\ \A a \in S : <<a, a>> \notin R
    /\ \A a, b, c \in S : <<a, b>> \in R /\ <<b, c>> \in R => <<a, c>> \in R
    /\ \A a, b \in S : a = b \/ <<a, b>> \in R \/ <<b, a>> \in R

Below(R, S, s) == {t \in S : <<t, s>> \in R}

(* Every place of an order has exactly one member (Ranked). *)
LEMMA PlacesFilled ==
    ASSUME NEW S, IsFiniteSet(S), NEW R, Orders(R, S)
    PROVE  /\ Cardinality(S) \in Nat
           /\ Ranked(S, R) \in [1 .. Cardinality(S) -> S]
           /\ \A i \in 1 .. Cardinality(S) : Cardinality(Below(R, S, Ranked(S, R)[i])) = i - 1
           /\ \A i, j \in 1 .. Cardinality(S) : i < j <=> <<Ranked(S, R)[i], Ranked(S, R)[j]>> \in R
           /\ \A s \in S : \E i \in 1 .. Cardinality(S) : Ranked(S, R)[i] = s
<1> DEFINE n == Cardinality(S)
           rank(s) == Cardinality(Below(R, S, s))
<1>1. n \in Nat
  BY FS_CardinalityType
<1>2. ASSUME NEW s \in S PROVE IsFiniteSet(Below(R, S, s)) /\ rank(s) \in 0 .. n - 1
  <2>1. Below(R, S, s) \in SUBSET (S \ {s})
    BY DEF Below, Orders
  <2>2. IsFiniteSet(S \ {s}) /\ Cardinality(S \ {s}) = n - 1
    BY FS_RemoveElement
  <2>3. IsFiniteSet(Below(R, S, s)) /\ rank(s) <= n - 1
    BY <2>1, <2>2, FS_Subset
  <2>4. rank(s) \in Nat
    BY <2>3, FS_CardinalityType
  <2> HIDE DEF rank, n
  <2> QED
    BY <1>1, <2>3, <2>4
<1>3. ASSUME NEW a \in S, NEW b \in S, <<a, b>> \in R PROVE rank(a) < rank(b)
  <2>1. Below(R, S, a) \in SUBSET Below(R, S, b)
    BY <1>3 DEF Below, Orders
  <2>2. a \in Below(R, S, b) /\ a \notin Below(R, S, a)
    BY <1>3 DEF Below, Orders
  <2>3. rank(a) <= rank(b) /\ rank(a) # rank(b)
    BY <1>2, <2>1, <2>2, FS_Subset
  <2> HIDE DEF rank, n
  <2> QED
    BY <1>1, <1>2, <2>3
<1>4. \A a, b \in S : (rank(a) < rank(b) <=> <<a, b>> \in R) /\ (rank(a) = rank(b) => a = b)
  <2> SUFFICES ASSUME NEW a \in S, NEW b \in S
               PROVE  (rank(a) < rank(b) <=> <<a, b>> \in R) /\ (rank(a) = rank(b) => a = b)
    OBVIOUS
  <2>1. rank(a) \in Int /\ rank(b) \in Int
    BY <1>1, <1>2
  <2>2. a = b \/ <<a, b>> \in R \/ <<b, a>> \in R
    BY DEF Orders
  <2> HIDE DEF rank, n
  <2> QED
    BY <1>3, <2>1, <2>2
<1>5. \A i \in 1 .. n : \E s \in S : rank(s) = i - 1
  <2> DEFINE f == [s \in S |-> rank(s) + 1]
  <2>1. f \in [S -> 1 .. n]
    <3> HIDE DEF rank, n
    <3> QED
      BY <1>1, <1>2
  <2>2. \A a, b \in S : f[a] = f[b] => a = b
    <3> SUFFICES ASSUME NEW a \in S, NEW b \in S, f[a] = f[b] PROVE a = b
      OBVIOUS
    <3>1. rank(a) = rank(b)
      <4>1. rank(a) \in Int /\ rank(b) \in Int
        BY <1>1, <1>2
      <4> HIDE DEF rank
      <4> QED
        BY <4>1
    <3> HIDE DEF rank
    <3> QED
      BY <1>4, <3>1
  <2>3. f \in Injection(S, 1 .. n)
    <3> HIDE DEF f
    <3> QED
      BY <2>1, <2>2 DEF Injection, IsInjective
  <2>4. IsFiniteSet(1 .. n) /\ Cardinality(1 .. n) = n
    BY <1>1, FS_Interval
  <2>5. f \in Surjection(S, 1 .. n)
    <3> HIDE DEF f
    <3> QED
      BY <2>3, <2>4, FS_Injection
  <2> SUFFICES ASSUME NEW i \in 1 .. n PROVE \E s \in S : rank(s) = i - 1
    OBVIOUS
  <2>6. PICK s \in S : f[s] = i
    <3> HIDE DEF f
    <3> QED
      BY <2>5 DEF Surjection
  <2>7. rank(s) = i - 1
    <3>1. rank(s) \in Int /\ i \in Int /\ rank(s) + 1 = i
      BY <1>1, <1>2, <2>6
    <3> HIDE DEF rank
    <3> QED
      BY <3>1
  <2> QED
    BY <2>7
<1> DEFINE p == Ranked(S, R)
<1>6. \A i \in 1 .. n : p[i] \in S /\ rank(p[i]) = i - 1
  BY <1>5 DEF Ranked, Below
<1>7. p \in [1 .. n -> S]
  BY <1>6 DEF Ranked, Below
<1>8. \A i, j \in 1 .. n : i < j <=> <<p[i], p[j]>> \in R
  <2> SUFFICES ASSUME NEW i \in 1 .. n, NEW j \in 1 .. n PROVE i < j <=> <<p[i], p[j]>> \in R
    OBVIOUS
  <2>1. rank(p[i]) = i - 1 /\ rank(p[j]) = j - 1 /\ p[i] \in S /\ p[j] \in S
    BY <1>6
  <2>2. rank(p[i]) < rank(p[j]) <=> <<p[i], p[j]>> \in R
    BY <1>4, <2>1
  <2>3. i \in Int /\ j \in Int
    BY <1>1
  <2> HIDE DEF rank, p
  <2> QED
    BY <2>1, <2>2, <2>3
<1>9. \A s \in S : \E i \in 1 .. n : p[i] = s
  <2> SUFFICES ASSUME NEW s \in S PROVE \E i \in 1 .. n : p[i] = s
    OBVIOUS
  <2>1. rank(s) \in 0 .. n - 1
    BY <1>2
  <2>2. rank(s) + 1 \in 1 .. n /\ rank(s) = (rank(s) + 1) - 1
    <3> HIDE DEF rank, n
    <3> QED
      BY <1>1, <2>1
  <2>3. p[rank(s) + 1] \in S /\ rank(p[rank(s) + 1]) = rank(s)
    <3> HIDE DEF rank, p, n
    <3> QED
      BY <1>6, <2>2
  <2>4. p[rank(s) + 1] = s
    BY <1>4, <2>3
  <2> HIDE DEF rank, p
  <2> QED
    BY <2>2, <2>4
<1> QED
  BY <1>1, <1>6, <1>7, <1>8, <1>9

(* There are finitely many snapshots. *)
LEMMA FiniteSnapshots ==
    ASSUME NEW S \in SUBSET Snapshot
    PROVE  IsFiniteSet(S)
<1> DEFINE f == [x \in Group \X Time |-> [group |-> x[1], time |-> x[2]]]
<1>1. IsFiniteSet(Group) /\ LastDay \in Nat
  BY ForgetConstants
<1>2. IsFiniteSet(Time)
  BY <1>1, FS_Interval DEF Time
<1>3. IsFiniteSet(Group \X Time)
  BY <1>1, <1>2, FS_Product
<1>4. f \in [Group \X Time -> Snapshot]
  BY DEF Snapshot
<1>5. \A s \in Snapshot : \E x \in Group \X Time : f[x] = s
  <2> SUFFICES ASSUME NEW s \in Snapshot PROVE \E x \in Group \X Time : f[x] = s
    OBVIOUS
  <2>1. <<s.group, s.time>> \in Group \X Time /\ [group |-> s.group, time |-> s.time] = s
    BY DEF Snapshot
  <2>2. f[<<s.group, s.time>>] = s
    BY <2>1
  <2> HIDE DEF f
  <2> QED
    BY <2>1, <2>2
<1>6. f \in Surjection(Group \X Time, Snapshot)
  <2> HIDE DEF f
  <2> QED
    BY <1>4, <1>5 DEF Surjection
<1>7. IsFiniteSet(Snapshot)
  BY <1>3, <1>6, FS_Surjection
<1> QED
  BY <1>7, FS_Subset

(* A snapshot is known by its group and its time, a number. *)
LEMMA SnapshotFacts ==
    /\ \A s \in Snapshot : s.group \in Group /\ s.time \in Time /\ s.time \in Nat
    /\ \A s, t \in Snapshot : s.group = t.group /\ s.time = t.time => s = t
<1>1. Time \subseteq Nat
  BY ForgetConstants DEF Time
<1>2. \A s \in Snapshot : s.group \in Group /\ s.time \in Time /\ s = [group |-> s.group, time |-> s.time]
  BY DEF Snapshot
<1>3. ASSUME NEW s \in Snapshot, NEW t \in Snapshot, s.group = t.group, s.time = t.time PROVE s = t
  BY <1>2, <1>3
<1> QED
  BY <1>1, <1>2, <1>3

OneGroup(S) == \A s, t \in S : s.group = t.group

(* The candidates of one group, newest first (apply_policy). *)
LEMMA SortedFacts ==
    ASSUME NEW S \in SUBSET Snapshot, OneGroup(S)
    PROVE  /\ Cardinality(S) \in Nat
           /\ Sorted(S) \in [1 .. Cardinality(S) -> S]
           /\ \A i, j \in 1 .. Cardinality(S) : i < j <=> Sorted(S)[i].time > Sorted(S)[j].time
           /\ \A s \in S : \E i \in 1 .. Cardinality(S) : Sorted(S)[i] = s
<1> DEFINE R == {x \in S \X S : x[1].time > x[2].time}
<1>1. IsFiniteSet(S)
  BY FiniteSnapshots
<1>2. \A a, b \in S : <<a, b>> \in R <=> a.time > b.time
  OBVIOUS
<1>3. Orders(R, S)
  <2>1. \A a \in S : a.time \in Nat
    BY SnapshotFacts
  <2>2. \A a, b \in S : a.time = b.time => a = b
    BY SnapshotFacts DEF OneGroup
  <2> HIDE DEF R
  <2> QED
    BY <1>2, <2>1, <2>2 DEF Orders
<1>4. Sorted(S) = Ranked(S, R)
  BY DEF Sorted
<1>5. \A i, j \in 1 .. Cardinality(S) : <<Ranked(S, R)[i], Ranked(S, R)[j]>> \in R
                                          <=> Ranked(S, R)[i].time > Ranked(S, R)[j].time
  <2>1. Ranked(S, R) \in [1 .. Cardinality(S) -> S]
    BY <1>1, <1>3, PlacesFilled
  <2> HIDE DEF R
  <2> QED
    BY <1>2, <2>1
<1> HIDE DEF R
<1>6. /\ Cardinality(S) \in Nat
      /\ Ranked(S, R) \in [1 .. Cardinality(S) -> S]
      /\ \A i, j \in 1 .. Cardinality(S) : i < j <=> <<Ranked(S, R)[i], Ranked(S, R)[j]>> \in R
      /\ \A s \in S : \E i \in 1 .. Cardinality(S) : Ranked(S, R)[i] = s
  BY <1>1, <1>3, PlacesFilled
<1>7. \A i, j \in 1 .. Cardinality(S) : i < j <=> Ranked(S, R)[i].time > Ranked(S, R)[j].time
  BY <1>5, <1>6
<1> QED
  BY <1>4, <1>6, <1>7

(* The newer ones of the i-th candidate are those before it. *)
LEMMA NewerFacts ==
    ASSUME NEW S \in SUBSET Snapshot, OneGroup(S), NEW i \in 1 .. Cardinality(S)
    PROVE  /\ Newer(S, Sorted(S)[i]) = {Sorted(S)[j] : j \in 1 .. i - 1}
           /\ Cardinality(Newer(S, Sorted(S)[i])) = i - 1
<1> DEFINE q == Sorted(S)
           n == Cardinality(S)
           m == i - 1
<1>1. /\ n \in Nat /\ q \in [1 .. n -> S]
      /\ \A k, j \in 1 .. n : k < j <=> q[k].time > q[j].time
      /\ \A s \in S : \E k \in 1 .. n : q[k] = s
  BY SortedFacts
<1>2. i \in Nat /\ m \in Nat /\ 1 .. m \subseteq 1 .. n /\ \A j \in 1 .. n : j \in 1 .. m <=> j < i
  BY <1>1
<1> HIDE DEF q, n, m
<1>3. Newer(S, q[i]) = {q[j] : j \in 1 .. m}
  <2>0. q[i] \in S /\ i \in 1 .. n
    BY <1>1 DEF n
  <2>1. ASSUME NEW t \in Newer(S, q[i]) PROVE t \in {q[j] : j \in 1 .. m}
    <3>1. t \in S /\ t.time > q[i].time
      BY <2>1 DEF Newer
    <3>2. PICK j \in 1 .. n : q[j] = t
      BY <1>1, <3>1
    <3> QED
      BY <1>1, <1>2, <2>0, <3>1, <3>2
  <2>2. ASSUME NEW j \in 1 .. m PROVE q[j] \in Newer(S, q[i])
    <3>1. j \in 1 .. n /\ j < i /\ q[j] \in S
      BY <1>1, <1>2
    <3>2. q[j].time > q[i].time /\ q[j].group = q[i].group
      BY <1>1, <2>0, <3>1 DEF OneGroup
    <3> QED
      BY <3>1, <3>2 DEF Newer
  <2> QED
    BY <2>1, <2>2
<1>4. Cardinality(Newer(S, q[i])) = m
  <2> DEFINE f == [j \in 1 .. m |-> q[j]]
             T == {q[j] : j \in 1 .. m}
  <2>1. f \in [1 .. m -> T] /\ \A t \in T : \E j \in 1 .. m : f[j] = t
    OBVIOUS
  <2>2. \A j, k \in 1 .. m : f[j] = f[k] => j = k
    <3> SUFFICES ASSUME NEW j \in 1 .. m, NEW k \in 1 .. m, q[j] = q[k] PROVE j = k
      OBVIOUS
    <3>1. j \in 1 .. n /\ k \in 1 .. n
      BY <1>2
    <3>2. q[j].time = q[k].time /\ q[j].time \in Nat /\ q[k].time \in Nat
      BY <1>1, <3>1, SnapshotFacts
    <3>3. ~(j < k) /\ ~(k < j)
      BY <1>1, <3>1, <3>2
    <3> QED
      BY <3>1, <3>3, <1>1
  <2> HIDE DEF f, T
  <2>3. f \in Surjection(1 .. m, T) /\ f \in Injection(1 .. m, T)
    BY <2>1, <2>2 DEF Surjection, Injection, IsInjective
  <2>4. IsFiniteSet(1 .. m) /\ Cardinality(1 .. m) = m
    BY <1>2, FS_Interval
  <2>5. Cardinality(T) = m
    BY <2>3, <2>4, FS_Surjection
  <2> QED
    BY <1>3, <2>5 DEF T
<1> QED
  BY <1>3, <1>4 DEF q, m

(* The groups are listed once each. *)
LEMMA GroupsListed ==
    /\ GroupOrder \in Seq(Group)
    /\ \A g \in Group : \E i \in DOMAIN GroupOrder : GroupOrder[i] = g
    /\ \A i, j \in DOMAIN GroupOrder : GroupOrder[i] = GroupOrder[j] => i = j
<1> DEFINE n == Len(GroupOrder)
<1>1. /\ GroupOrder \in Seq(Group) /\ n \in Nat /\ DOMAIN GroupOrder = 1 .. n
      /\ GroupOrder \in [1 .. n -> Group]
      /\ \A g \in Group : \E i \in 1 .. n : GroupOrder[i] = g
      /\ n = Cardinality(Group)
  BY ForgetConstants DEF Range
<1> HIDE DEF n
<1>2. GroupOrder \in Surjection(1 .. n, Group)
  BY <1>1 DEF Surjection
<1>3. IsFiniteSet(1 .. n) /\ Cardinality(1 .. n) = n
  BY <1>1, FS_Interval
<1>4. GroupOrder \in Injection(1 .. n, Group)
  BY <1>1, <1>2, <1>3, FS_Surjection
<1> QED
  BY <1>1, <1>4 DEF Injection, IsInjective

(* The named snapshots, once each, in the order of their keys (forget). *)
LEMMA NamedInOrder ==
    ASSUME NEW S \in SUBSET Snapshot
    PROVE  /\ Cardinality(S) \in Nat
           /\ ByKey(S) \in [1 .. Cardinality(S) -> S]
           /\ IsInjective(ByKey(S))
           /\ \A s \in S : \E i \in 1 .. Cardinality(S) : ByKey(S)[i] = s
<1> DEFINE R == {x \in S \X S : KeyBefore(x[1], x[2])}
           pos(s) == CHOOSE i \in DOMAIN GroupOrder : GroupOrder[i] = s.group
<1>1. IsFiniteSet(S)
  BY FiniteSnapshots
<1>2. \A a, b \in S : <<a, b>> \in R <=> KeyBefore(a, b)
  <2> HIDE DEF pos
  <2> QED
    OBVIOUS
<1>3. \A s \in S : pos(s) \in DOMAIN GroupOrder /\ GroupOrder[pos(s)] = s.group /\ pos(s) \in Nat
  BY GroupsListed, SnapshotFacts
<1>4. \A a, b \in S : KeyBefore(a, b) <=> pos(a) < pos(b) \/ (a.group = b.group /\ a.time < b.time)
  BY DEF KeyBefore
<1>5. \A a, b \in S : pos(a) = pos(b) <=> a.group = b.group
  <2>1. \A a, b \in S : a.group = b.group => pos(a) = pos(b)
    OBVIOUS
  <2> HIDE DEF pos
  <2> QED
    BY <1>3, <2>1
<1>6. Orders(R, S)
  <2> HIDE DEF R, pos
  <2>1. \A a \in S : a.time \in Nat
    BY SnapshotFacts
  <2>2. \A a, b \in S : a.group = b.group /\ a.time = b.time => a = b
    BY SnapshotFacts
  <2>3. \A a, b \in S : <<a, b>> \in R <=> pos(a) < pos(b) \/ (pos(a) = pos(b) /\ a.time < b.time)
    BY <1>2, <1>4, <1>5
  <2>4. \A a \in S : <<a, a>> \notin R
    BY <1>3, <2>1, <2>3
  <2>5. \A a, b, c \in S : <<a, b>> \in R /\ <<b, c>> \in R => <<a, c>> \in R
    BY <1>3, <2>1, <2>3
  <2>6. \A a, b \in S : a = b \/ <<a, b>> \in R \/ <<b, a>> \in R
    <3> SUFFICES ASSUME NEW a \in S, NEW b \in S, a # b PROVE <<a, b>> \in R \/ <<b, a>> \in R
      OBVIOUS
    <3>1. pos(a) # pos(b) \/ a.time # b.time
      BY <1>5, <2>2
    <3> QED
      BY <1>3, <2>1, <2>3, <3>1
  <2> QED
    BY <2>4, <2>5, <2>6 DEF Orders
<1>7. ByKey(S) = Ranked(S, R)
  BY DEF ByKey
<1> HIDE DEF R, pos
<1>8. /\ Cardinality(S) \in Nat
      /\ Ranked(S, R) \in [1 .. Cardinality(S) -> S]
      /\ \A i, j \in 1 .. Cardinality(S) : i < j <=> <<Ranked(S, R)[i], Ranked(S, R)[j]>> \in R
      /\ \A s \in S : \E i \in 1 .. Cardinality(S) : Ranked(S, R)[i] = s
  BY <1>1, <1>6, PlacesFilled
<1>9. IsInjective(Ranked(S, R))
  <2> DEFINE p == Ranked(S, R)
             n == Cardinality(S)
  <2> SUFFICES ASSUME NEW i \in 1 .. n, NEW j \in 1 .. n, p[i] = p[j] PROVE i = j
    BY <1>8 DEF IsInjective
  <2>1. <<p[i], p[j]>> \notin R /\ <<p[j], p[i]>> \notin R
    BY <1>6, <1>8 DEF Orders
  <2>2. ~(i < j) /\ ~(j < i) /\ i \in Int /\ j \in Int
    BY <1>8, <2>1
  <2> HIDE DEF p, n
  <2> QED
    BY <2>2
<1> QED
  BY <1>7, <1>8, <1>9

-----------------------------------------------------------------------------
(***************************************************************************)
(* One pass over a group.                                                  *)
(***************************************************************************)
PassState == [last : Nat, left : [Kind -> Nat], seen : [Kind -> Nat \cup {NotSet}], out : Seq(Snapshot)]

Less(m, n) == IF m < n THEN n - m ELSE 0

(* The buckets of the newest i candidates. *)
First(S, k, i) == {BucketOf[k][Sorted(S)[j].time] : j \in 1 .. i}

Dropped(S, p, i) == {Sorted(S)[j] : j \in {l \in 1 .. i : ~Keeps(S, p, Sorted(S)[l])}}

(* What the pass knows after i candidates. *)
PassInv(S, p, i, st) ==
    /\ st \in PassState
    /\ st.last = Less(i, OrZero(p.last))
    /\ \A k \in Kind :
          /\ st.left[k] = Less(Cardinality(First(S, k, i)), OrZero(p.count[k]))
          /\ st.left[k] > 0
                => st.seen[k] = IF i = 0 THEN NotSet ELSE BucketOf[k][Sorted(S)[i].time]
    /\ IsInjective(st.out) /\ Range(st.out) = Dropped(S, p, i)

(* The rules of a policy are numbers, if there are any. *)
LEMMA RuleFacts ==
    ASSUME NEW p \in Policy
    PROVE  /\ OrZero(p.last) \in Nat /\ (p.last # NotSet => p.last \in Nat /\ OrZero(p.last) = p.last)
           /\ OrZero(p.within) \in Nat /\ (p.within # NotSet => p.within \in Nat /\ OrZero(p.within) = p.within)
           /\ \A k \in Kind : /\ OrZero(p.count[k]) \in Nat
                              /\ p.count[k] # NotSet => p.count[k] \in Nat /\ OrZero(p.count[k]) = p.count[k]
           /\ p.last = NotSet => OrZero(p.last) = 0
           /\ \A k \in Kind : p.count[k] = NotSet => OrZero(p.count[k]) = 0
  BY DEF Policy, Rule, OrZero

(* The buckets so far: of the newer ones, and one more with every candidate *)
(* whose bucket is not that of the one before it.                           *)
LEMMA BucketFacts ==
    ASSUME NEW S \in SUBSET Snapshot, OneGroup(S), NEW k \in Kind, NEW i \in 0 .. Cardinality(S) - 1
    PROVE  LET b == BucketOf[k][Sorted(S)[i + 1].time]
           IN  /\ b \in Nat
               /\ First(S, k, i) = BucketsIn(Newer(S, Sorted(S)[i + 1]), k)
               /\ Cardinality(First(S, k, i)) \in Nat
               /\ b \in First(S, k, i) <=> i # 0 /\ b = BucketOf[k][Sorted(S)[i].time]
               /\ Cardinality(First(S, k, i + 1)) =
                    IF b \in First(S, k, i) THEN Cardinality(First(S, k, i))
                    ELSE Cardinality(First(S, k, i)) + 1
<1> DEFINE q == Sorted(S)
           n == Cardinality(S)
           B(t) == BucketOf[k][t]
<1>1. /\ n \in Nat /\ q \in [1 .. n -> S]
      /\ \A l, j \in 1 .. n : l < j <=> q[l].time > q[j].time
  BY SortedFacts
<1>2. i \in Nat /\ i + 1 \in 1 .. n /\ (i + 1) - 1 = i /\ \A j \in 1 .. i : j \in 1 .. n /\ j < i + 1
  BY <1>1
<1>3. \A j \in 1 .. n : q[j].time \in Time /\ q[j].time \in Nat /\ B(q[j].time) \in Nat
  BY <1>1, SnapshotFacts, BucketsInOrder
<1>4. First(S, k, i) = BucketsIn(Newer(S, q[i + 1]), k)
  <2>1. Newer(S, q[i + 1]) = {q[j] : j \in 1 .. i}
    BY <1>2, NewerFacts
  <2> QED
    BY <2>1 DEF First, BucketsIn
<1>5. IsFiniteSet(First(S, k, i)) /\ Cardinality(First(S, k, i)) \in Nat
  <2> DEFINE f == [j \in 1 .. i |-> B(q[j].time)]
  <2>1. f \in [1 .. i -> First(S, k, i)] /\ \A b \in First(S, k, i) : \E j \in 1 .. i : f[j] = b
    BY DEF First
  <2>2. IsFiniteSet(1 .. i)
    BY <1>2, FS_Interval
  <2> HIDE DEF f
  <2>3. f \in Surjection(1 .. i, First(S, k, i))
    BY <2>1 DEF Surjection
  <2>4. IsFiniteSet(First(S, k, i))
    BY <2>2, <2>3, FS_Surjection
  <2> QED
    BY <2>4, FS_CardinalityType
<1> DEFINE b == B(q[i + 1].time)
<1>6. b \in First(S, k, i) <=> i # 0 /\ b = B(q[i].time)
  <2>1. ASSUME i # 0, b = B(q[i].time) PROVE b \in First(S, k, i)
    <3>1. i \in 1 .. i
      BY <1>2, <2>1
    <3> QED
      BY <2>1, <3>1 DEF First
  <2>2. ASSUME b \in First(S, k, i) PROVE i # 0 /\ b = B(q[i].time)
    <3>1. PICK j \in 1 .. i : b = B(q[j].time)
      BY <2>2 DEF First
    <3>2. i # 0 /\ i \in 1 .. n /\ j \in 1 .. n /\ i < i + 1 /\ (j = i \/ j < i)
      BY <1>2
    <3>3. q[i].time > q[i + 1].time /\ (j = i \/ q[j].time > q[i].time)
      BY <1>1, <1>2, <3>2
    <3>4. b <= B(q[i].time) /\ (j = i \/ B(q[i].time) <= B(q[j].time))
      <4>1. \A t, u \in Time : t <= u => B(t) <= B(u)
        BY BucketsInOrder
      <4>2. q[i + 1].time <= q[i].time /\ (j = i \/ q[i].time <= q[j].time)
        BY <1>2, <1>3, <3>2, <3>3
      <4> HIDE DEF B
      <4> QED
        BY <1>2, <1>3, <3>2, <4>1, <4>2
    <3> HIDE DEF B, q
    <3>5. B(q[i].time) \in Nat /\ B(q[j].time) \in Nat /\ b \in Nat
      BY <1>2, <1>3, <3>2
    <3> HIDE DEF b
    <3> QED
      BY <3>1, <3>2, <3>4, <3>5
  <2> QED
    BY <2>1, <2>2
<1>7. First(S, k, i + 1) = First(S, k, i) \cup {b}
  <2>1. 1 .. i + 1 = 1 .. i \cup {i + 1}
    BY <1>2
  <2> QED
    BY <2>1 DEF First
<1>8. Cardinality(First(S, k, i + 1)) = IF b \in First(S, k, i) THEN Cardinality(First(S, k, i))
                                        ELSE Cardinality(First(S, k, i)) + 1
  <2> HIDE DEF b
  <2> QED
    BY <1>5, <1>7, FS_AddElement
<1> QED
  BY <1>2, <1>3, <1>4, <1>5, <1>6, <1>8

(* What keeps a candidate, in terms of what comes before it. *)
LEMMA KeepsByPlace ==
    ASSUME NEW S \in SUBSET Snapshot, OneGroup(S), NEW p \in Policy, NEW i \in 0 .. Cardinality(S) - 1
    PROVE  Keeps(S, p, Sorted(S)[i + 1]) <=>
             \/ i < OrZero(p.last)
             \/ p.within # NotSet /\ Sorted(S)[i + 1].time + OrZero(p.within) >= Sorted(S)[1].time
             \/ \E k \in Kind : /\ Cardinality(First(S, k, i)) < OrZero(p.count[k])
                                /\ BucketOf[k][Sorted(S)[i + 1].time] \notin First(S, k, i)
<1> DEFINE q == Sorted(S)
           n == Cardinality(S)
           c == q[i + 1]
<1>1. /\ n \in Nat /\ q \in [1 .. n -> S]
      /\ \A l, j \in 1 .. n : l < j <=> q[l].time > q[j].time
  BY SortedFacts
<1>2. i \in Nat /\ i + 1 \in 1 .. n /\ (i + 1) - 1 = i /\ 1 \in 1 .. n /\ 1 .. i \subseteq 1 .. n
  BY <1>1
<1>3. \A j \in 1 .. n : q[j].time \in Nat
  BY <1>1, SnapshotFacts
<1>4. Newer(S, c) = {q[j] : j \in 1 .. i} /\ Cardinality(Newer(S, c)) = i
  BY <1>2, NewerFacts
<1>5. p.last # NotSet /\ Cardinality(Newer(S, c)) < p.last <=> i < OrZero(p.last)
  <2> HIDE DEF c
  <2> QED
    BY <1>2, <1>4, RuleFacts
<1>6. p.within # NotSet => ((\A t \in Newer(S, c) : t.time - c.time <= p.within)
                              <=> c.time + OrZero(p.within) >= q[1].time)
  <2> SUFFICES ASSUME p.within # NotSet
               PROVE  (\A t \in Newer(S, c) : t.time - c.time <= p.within) <=> c.time + p.within >= q[1].time
    BY RuleFacts
  <2>1. p.within \in Nat /\ c.time \in Nat /\ q[1].time \in Nat
    BY <1>2, <1>3, RuleFacts
  <2>2. CASE i = 0
    <3>1. c = q[1] /\ 1 .. i = {}
      BY <2>2
    <3>2. Newer(S, c) = {}
      BY <1>4, <3>1
    <3> HIDE DEF c, q
    <3> QED
      BY <2>1, <3>1, <3>2
  <2>3. CASE i # 0
    <3>1. 1 \in 1 .. i
      BY <1>2, <2>3
    <3>2. q[1] \in Newer(S, c)
      BY <1>4, <3>1
    <3>3. \A j \in 1 .. i : j \in 1 .. n /\ q[j].time \in Nat /\ q[j].time <= q[1].time
      <4> SUFFICES ASSUME NEW j \in 1 .. i PROVE j \in 1 .. n /\ q[j].time \in Nat /\ q[j].time <= q[1].time
        OBVIOUS
      <4>1. j \in 1 .. n /\ (j = 1 \/ 1 < j)
        BY <1>2
      <4>2. j = 1 \/ q[1].time > q[j].time
        BY <1>1, <1>2, <4>1
      <4> HIDE DEF q, n
      <4> QED
        BY <1>2, <1>3, <4>1, <4>2
    <3>4. \A t \in Newer(S, c) : t.time \in Nat /\ t.time <= q[1].time
      BY <1>4, <3>3
    <3> HIDE DEF c, q
    <3> QED
      BY <2>1, <3>2, <3>4
  <2> QED
    BY <2>2, <2>3
<1>7. ASSUME NEW k \in Kind
      PROVE  /\ p.count[k] # NotSet /\ BucketOf[k][c.time] \notin BucketsIn(Newer(S, c), k)
             /\ Cardinality(BucketsIn(Newer(S, c), k)) < p.count[k]
             <=> Cardinality(First(S, k, i)) < OrZero(p.count[k]) /\ BucketOf[k][c.time] \notin First(S, k, i)
  <2>1. First(S, k, i) = BucketsIn(Newer(S, c), k) /\ Cardinality(First(S, k, i)) \in Nat
    BY BucketFacts
  <2>2. p.count[k] # NotSet => OrZero(p.count[k]) = p.count[k]
    BY RuleFacts
  <2>3. p.count[k] = NotSet => OrZero(p.count[k]) = 0
    BY RuleFacts
  <2> HIDE DEF c
  <2> QED
    BY <2>1, <2>2, <2>3
<1> HIDE DEF c
<1>8. Keeps(S, p, c) <=>
        \/ i < OrZero(p.last)
        \/ p.within # NotSet /\ c.time + OrZero(p.within) >= q[1].time
        \/ \E k \in Kind : /\ Cardinality(First(S, k, i)) < OrZero(p.count[k])
                           /\ BucketOf[k][c.time] \notin First(S, k, i)
  BY <1>5, <1>6, <1>7 DEF Keeps
<1> QED
  BY <1>8 DEF c

(* A sequence without repetitions stays one when something new is added. *)
LEMMA AppendNew ==
    ASSUME NEW T, NEW s \in Seq(T), NEW e \in T, IsInjective(s), e \notin Range(s)
    PROVE  IsInjective(Append(s, e)) /\ Range(Append(s, e)) = Range(s) \cup {e} /\ Append(s, e) \in Seq(T)
<1> DEFINE n == Len(s)
           a == Append(s, e)
<1>1. /\ n \in Nat /\ DOMAIN s = 1 .. n /\ a \in Seq(T) /\ DOMAIN a = 1 .. n + 1
      /\ a[n + 1] = e /\ \A i \in 1 .. n : a[i] = s[i]
  OBVIOUS
<1> HIDE DEF n, a
<1>2. \A i \in 1 .. n + 1 : i \in 1 .. n \/ i = n + 1
  BY <1>1
<1>3. IsInjective(a)
  BY <1>1, <1>2 DEF IsInjective, Range
<1>4. n + 1 \in 1 .. n + 1 /\ 1 .. n \subseteq 1 .. n + 1
  BY <1>1
<1>5. Range(a) = Range(s) \cup {e}
  BY <1>1, <1>2, <1>4 DEF Range
<1> QED
  BY <1>1, <1>3, <1>5 DEF a

(* One candidate more (the body of the loop of apply_policy). *)
LEMMA PassStep ==
    ASSUME NEW S \in SUBSET Snapshot, OneGroup(S), NEW p \in Policy, NEW i \in 0 .. Cardinality(S) - 1,
           NEW st, PassInv(S, p, i, st)
    PROVE  PassInv(S, p, i + 1, Consider(p, Sorted(S)[1].time, st, Sorted(S)[i + 1]))
<1> DEFINE q == Sorted(S)
           n == Cardinality(S)
           c == q[i + 1]
           latest == q[1].time
           next == Consider(p, latest, st, c)
           b == [k \in Kind |-> BucketOf[k][c.time]]
           F == [k \in Kind |-> Cardinality(First(S, k, i))]
           kept == st.last > 0 \/ (p.within # NotSet /\ c.time + OrZero(p.within) >= latest) \/ Counting(st, c) # {}
<1>1. /\ n \in Nat /\ q \in [1 .. n -> S]
      /\ \A l, j \in 1 .. n : l < j <=> q[l].time > q[j].time
  BY SortedFacts
<1>2. i \in Nat /\ i + 1 \in 1 .. n /\ c \in S /\ c \in Snapshot
  BY <1>1
<1>3. ASSUME NEW k \in Kind
      PROVE  /\ b[k] = BucketOf[k][c.time] /\ b[k] \in Nat /\ F[k] \in Nat /\ F[k] = Cardinality(First(S, k, i))
             /\ b[k] \in First(S, k, i) <=> i # 0 /\ b[k] = BucketOf[k][q[i].time]
             /\ Cardinality(First(S, k, i + 1)) = IF b[k] \in First(S, k, i) THEN F[k] ELSE F[k] + 1
  BY BucketFacts
<1>4. /\ st \in PassState /\ st.last = Less(i, OrZero(p.last))
      /\ \A k \in Kind :
            /\ st.left[k] = Less(F[k], OrZero(p.count[k]))
            /\ st.left[k] > 0 => st.seen[k] = IF i = 0 THEN NotSet ELSE BucketOf[k][q[i].time]
      /\ IsInjective(st.out) /\ Range(st.out) = Dropped(S, p, i)
  BY DEF PassInv
<1>5. /\ st.last \in Nat /\ st.left \in [Kind -> Nat] /\ st.seen \in [Kind -> Nat \cup {NotSet}]
      /\ st.out \in Seq(Snapshot)
  BY <1>4 DEF PassState
<1>6. NotSet \notin Nat
  BY ForgetConstants
<1>7. ASSUME NEW k \in Kind
      PROVE  k \in Counting(st, c) <=> F[k] < OrZero(p.count[k]) /\ b[k] \notin First(S, k, i)
  <2>1. k \in Counting(st, c) <=> st.left[k] > 0 /\ st.seen[k] # b[k]
    BY <1>3 DEF Counting
  <2>2. OrZero(p.count[k]) \in Nat /\ F[k] \in Nat
    BY <1>3, RuleFacts
  <2>3. st.left[k] > 0 <=> F[k] < OrZero(p.count[k])
    <3> HIDE DEF F
    <3> QED
      BY <1>4, <2>2 DEF Less
  <2>4. st.left[k] > 0 => (st.seen[k] # b[k] <=> b[k] \notin First(S, k, i))
    <3> HIDE DEF b, F
    <3> QED
      BY <1>3, <1>4, <1>6
  <2> QED
    BY <2>1, <2>3, <2>4
<1> HIDE DEF b, F
<1>8. kept <=> Keeps(S, p, c)
  <2>1. st.last > 0 <=> i < OrZero(p.last)
    BY <1>2, <1>4, RuleFacts DEF Less
  <2>2. Counting(st, c) # {} <=> \E k \in Kind : F[k] < OrZero(p.count[k]) /\ b[k] \notin First(S, k, i)
    <3>1. Counting(st, c) \subseteq Kind
      BY DEF Counting
    <3> QED
      BY <1>7, <3>1
  <2>3. Keeps(S, p, c) <=>
           \/ i < OrZero(p.last)
           \/ p.within # NotSet /\ c.time + OrZero(p.within) >= latest
           \/ \E k \in Kind : F[k] < OrZero(p.count[k]) /\ b[k] \notin First(S, k, i)
    <3>1. \A k \in Kind : b[k] = BucketOf[k][c.time] /\ F[k] = Cardinality(First(S, k, i))
      BY <1>3
    <3> QED
      BY <3>1, KeepsByPlace
  <2> QED
    BY <2>1, <2>2, <2>3
<1>9. next = [last |-> IF st.last > 0 THEN st.last - 1 ELSE 0,
              left |-> [k \in Kind |-> IF k \in Counting(st, c) THEN st.left[k] - 1 ELSE st.left[k]],
              seen |-> [k \in Kind |-> IF k \in Counting(st, c) THEN BucketOf[k][c.time] ELSE st.seen[k]],
              out  |-> IF kept THEN st.out ELSE Append(st.out, c)]
  BY DEF Consider
<1> HIDE DEF next, kept
<1>10. next.last = Less(i + 1, OrZero(p.last)) /\ next.last \in Nat
  <2>1. OrZero(p.last) \in Nat
    BY RuleFacts
  <2>2. next.last = IF st.last > 0 THEN st.last - 1 ELSE 0
    BY <1>9
  <2> QED
    BY <1>2, <1>4, <2>1, <2>2 DEF Less
<1>11. ASSUME NEW k \in Kind
       PROVE  /\ next.left[k] \in Nat /\ next.seen[k] \in Nat \cup {NotSet}
              /\ next.left[k] = Less(Cardinality(First(S, k, i + 1)), OrZero(p.count[k]))
              /\ next.left[k] > 0 => next.seen[k] = BucketOf[k][c.time]
  <2>1. /\ next.left[k] = IF k \in Counting(st, c) THEN st.left[k] - 1 ELSE st.left[k]
        /\ next.seen[k] = IF k \in Counting(st, c) THEN BucketOf[k][c.time] ELSE st.seen[k]
    BY <1>9
  <2>2. OrZero(p.count[k]) \in Nat /\ F[k] \in Nat /\ b[k] \in Nat /\ b[k] = BucketOf[k][c.time]
    BY <1>3, RuleFacts
  <2>3. st.left[k] = Less(F[k], OrZero(p.count[k])) /\ st.left[k] \in Nat /\ st.seen[k] \in Nat \cup {NotSet}
    BY <1>4, <1>5
  <2>4. CASE k \in Counting(st, c)
    <3>1. F[k] < OrZero(p.count[k]) /\ Cardinality(First(S, k, i + 1)) = F[k] + 1
      BY <1>3, <1>7, <2>4
    <3> QED
      BY <2>1, <2>2, <2>3, <2>4, <3>1 DEF Less
  <2>5. CASE k \notin Counting(st, c) /\ F[k] < OrZero(p.count[k])
    <3>1. b[k] \in First(S, k, i) /\ Cardinality(First(S, k, i + 1)) = F[k]
      BY <1>3, <1>7, <2>5
    <3>2. i # 0 /\ b[k] = BucketOf[k][q[i].time]
      BY <1>3, <3>1
    <3>3. st.left[k] > 0
      BY <2>2, <2>3, <2>5 DEF Less
    <3>4. st.seen[k] = b[k]
      BY <1>4, <3>2, <3>3
    <3> QED
      BY <2>1, <2>2, <2>3, <2>5, <3>1, <3>4
  <2>6. CASE k \notin Counting(st, c) /\ ~(F[k] < OrZero(p.count[k]))
    <3>1. Cardinality(First(S, k, i + 1)) \in {F[k], F[k] + 1}
      BY <1>3
    <3>2. st.left[k] = 0 /\ Less(Cardinality(First(S, k, i + 1)), OrZero(p.count[k])) = 0
      BY <2>2, <2>3, <2>6, <3>1 DEF Less
    <3> QED
      BY <2>1, <2>3, <2>6, <3>2
  <2> QED
    BY <2>4, <2>5, <2>6
<1>12. Dropped(S, p, i + 1) = IF kept THEN Dropped(S, p, i) ELSE Dropped(S, p, i) \cup {c}
  <2>1. \A j \in 1 .. i + 1 : j \in 1 .. i \/ j = i + 1
    BY <1>2
  <2>2. 1 .. i \subseteq 1 .. i + 1 /\ i + 1 \in 1 .. i + 1
    BY <1>2
  <2> QED
    BY <1>8, <2>1, <2>2 DEF Dropped
<1>13. c \notin Dropped(S, p, i)
  <2> SUFFICES ASSUME NEW j \in 1 .. i, q[j] = c PROVE FALSE
    BY DEF Dropped
  <2>1. j \in 1 .. n /\ j < i + 1 /\ c.time \in Nat
    BY <1>1, <1>2, SnapshotFacts
  <2>2. q[j].time > c.time
    BY <1>1, <1>2, <2>1
  <2> QED
    BY <2>1, <2>2
<1>14. IsInjective(next.out) /\ Range(next.out) = Dropped(S, p, i + 1) /\ next.out \in Seq(Snapshot)
  <2>1. next.out = IF kept THEN st.out ELSE Append(st.out, c)
    BY <1>9
  <2> HIDE DEF c
  <2>2. CASE kept
    BY <1>4, <1>5, <1>12, <2>1, <2>2
  <2>3. CASE ~kept
    <3>1. c \notin Range(st.out)
      BY <1>4, <1>13
    <3>2. IsInjective(Append(st.out, c)) /\ Range(Append(st.out, c)) = Range(st.out) \cup {c}
          /\ Append(st.out, c) \in Seq(Snapshot)
      BY <1>2, <1>4, <1>5, <3>1, AppendNew
    <3> QED
      BY <1>4, <1>12, <2>1, <2>3, <3>2
  <2> QED
    BY <2>2, <2>3
<1>15. next \in PassState
  <2>1. next.left \in [Kind -> Nat] /\ next.seen \in [Kind -> Nat \cup {NotSet}]
    <3>1. /\ next.left = [k \in Kind |-> next.left[k]]
          /\ next.seen = [k \in Kind |-> next.seen[k]]
      BY <1>9
    <3> QED
      BY <1>11, <3>1
  <2>2. next = [last |-> next.last, left |-> next.left, seen |-> next.seen, out |-> next.out]
    BY <1>9
  <2> QED
    BY <1>10, <1>14, <2>1, <2>2 DEF PassState
<1>16. i + 1 # 0
  BY <1>2
<1>17. PassInv(S, p, i + 1, next)
  BY <1>10, <1>11, <1>14, <1>15, <1>16 DEF PassInv
<1> QED
  BY <1>17 DEF next

(* The pass keeps to its types whatever it meets. *)
LEMMA ConsiderType ==
    ASSUME NEW p, NEW st \in PassState, NEW c \in Snapshot, NEW latest
    PROVE  Consider(p, latest, st, c) \in PassState
<1> DEFINE next == Consider(p, latest, st, c)
           kept == st.last > 0 \/ (p.within # NotSet /\ c.time + OrZero(p.within) >= latest) \/ Counting(st, c) # {}
<1>1. /\ st.last \in Nat /\ st.left \in [Kind -> Nat] /\ st.seen \in [Kind -> Nat \cup {NotSet}]
      /\ st.out \in Seq(Snapshot)
  BY DEF PassState
<1>2. \A k \in Kind : BucketOf[k][c.time] \in Nat
  BY SnapshotFacts, BucketsInOrder
<1>3. \A k \in Counting(st, c) : k \in Kind /\ st.left[k] > 0
  BY DEF Counting
<1>4. next = [last |-> IF st.last > 0 THEN st.last - 1 ELSE 0,
              left |-> [k \in Kind |-> IF k \in Counting(st, c) THEN st.left[k] - 1 ELSE st.left[k]],
              seen |-> [k \in Kind |-> IF k \in Counting(st, c) THEN BucketOf[k][c.time] ELSE st.seen[k]],
              out  |-> IF kept THEN st.out ELSE Append(st.out, c)]
  BY DEF Consider
<1> HIDE DEF next, kept
<1>5. (IF st.last > 0 THEN st.last - 1 ELSE 0) \in Nat
  BY <1>1
<1>6. [k \in Kind |-> IF k \in Counting(st, c) THEN st.left[k] - 1 ELSE st.left[k]] \in [Kind -> Nat]
  BY <1>1, <1>3
<1>7. [k \in Kind |-> IF k \in Counting(st, c) THEN BucketOf[k][c.time] ELSE st.seen[k]]
         \in [Kind -> Nat \cup {NotSet}]
  BY <1>1, <1>2
<1>8. (IF kept THEN st.out ELSE Append(st.out, c)) \in Seq(Snapshot)
  BY <1>1
<1>9. next \in PassState
  BY <1>4, <1>5, <1>6, <1>7, <1>8 DEF PassState
<1> QED
  BY <1>9 DEF next

(* apply_policy drops the candidates no rule keeps, each once. *)
LEMMA PolicyDrops ==
    ASSUME NEW S \in SUBSET Snapshot, OneGroup(S), NEW p \in Policy
    PROVE  /\ apply_policy(S, p) \in Seq(Snapshot)
           /\ IsInjective(apply_policy(S, p))
           /\ Range(apply_policy(S, p)) = {s \in S : ~Keeps(S, p, s)}
<1> DEFINE q == Sorted(S)
           n == Cardinality(S)
           latest == q[1].time
           start == [last |-> OrZero(p.last), left |-> [k \in Kind |-> OrZero(p.count[k])],
                     seen |-> [k \in Kind |-> NotSet], out |-> <<>>]
           step == [x \in PassState \X (1 .. n) |-> Consider(p, latest, x[1], q[x[2]])]
           Folds(f) == f = [s \in SUBSET DOMAIN q |->
                              IF s = {} THEN start ELSE Consider(p, latest, f[s \ {Max(s)}], q[Max(s)])]
<1>1. /\ n \in Nat /\ q \in [1 .. n -> S] /\ DOMAIN q = 1 .. n
      /\ \A s \in S : \E i \in 1 .. n : q[i] = s
  BY SortedFacts
<1>2. start \in PassState
  <2>1. OrZero(p.last) \in Nat /\ \A k \in Kind : OrZero(p.count[k]) \in Nat
    BY RuleFacts
  <2> QED
    BY <2>1 DEF PassState
<1>3. step \in [PassState \X (1 .. n) -> PassState]
  <2> SUFFICES ASSUME NEW st \in PassState, NEW i \in 1 .. n PROVE Consider(p, latest, st, q[i]) \in PassState
    OBVIOUS
  <2>1. q[i] \in Snapshot
    BY <1>1
  <2> QED
    BY <2>1, ConsiderType
<1>4. \E g : Folds(g)
  <2>0. PICK g : Folding(g, PassState, n, start, step)
    <3> HIDE DEF start, step, n
    <3> QED
      BY <1>1, <1>2, <1>3, FoldExists
  <2>1. /\ g \in [SUBSET (1 .. n) -> PassState]
        /\ \A s \in SUBSET (1 .. n) :
              g[s] = IF s = {} THEN start ELSE step[<<g[s \ {Max(s)}], Max(s)>>]
    <3> HIDE DEF start, step, n
    <3> QED
      BY <2>0 DEF Folding
  <2>2. ASSUME NEW s \in SUBSET (1 .. n), s # {}
        PROVE  step[<<g[s \ {Max(s)}], Max(s)>>] = Consider(p, latest, g[s \ {Max(s)}], q[Max(s)])
    <3>1. Max(s) \in 1 .. n
      <4> HIDE DEF n
      <4> QED
        BY <1>1, <2>2, Greatest
    <3>2. s \ {Max(s)} \in SUBSET (1 .. n)
      OBVIOUS
    <3>3. <<g[s \ {Max(s)}], Max(s)>> \in PassState \X (1 .. n)
      BY <2>1, <3>1, <3>2
    <3> QED
      BY <3>3
  <2>3. g = [s \in SUBSET (1 .. n) |->
               IF s = {} THEN start ELSE Consider(p, latest, g[s \ {Max(s)}], q[Max(s)])]
    <3> HIDE DEF start, step, n, q, latest
    <3> QED
      BY <2>1, <2>2
  <2> QED
    BY <1>1, <2>3
<1>5. PICK f : /\ FoldLeft(LAMBDA st, c : Consider(p, latest, st, c), start, q) = f[DOMAIN q]
               /\ Folds(f)
  <2> HIDE DEF start, latest, q
  <2> QED
    BY <1>4, Zenon DEF FoldLeft, MapThenFoldSet
<1>6. \A s \in SUBSET (1 .. n) :
         f[s] = IF s = {} THEN start ELSE Consider(p, latest, f[s \ {Max(s)}], q[Max(s)])
  <2> HIDE DEF start, latest, q, n
  <2> QED
    BY <1>1, <1>5
<1>7. \A i \in 0 .. n : PassInv(S, p, i, f[1 .. i])
  <2> DEFINE P == {i \in 0 .. n : PassInv(S, p, i, f[1 .. i])}
  <2>1. 0 \in P
    <3>1. f[1 .. 0] = start
      <4>1. 1 .. 0 = {}
        OBVIOUS
      <4> HIDE DEF start, latest, q, n
      <4> QED
        BY <1>1, <1>6, <4>1
    <3>2. \A k \in Kind : First(S, k, 0) = {}
      BY DEF First
    <3>3. Dropped(S, p, 0) = {}
      BY DEF Dropped
    <3>4. \A k \in Kind : Cardinality(First(S, k, 0)) = 0
      BY <3>2, FS_EmptySet
    <3>5. OrZero(p.last) \in Nat /\ \A k \in Kind : OrZero(p.count[k]) \in Nat
      BY RuleFacts
    <3>6. \A m \in Nat : Less(0, m) = m
      BY DEF Less
    <3>7. start.last = Less(0, OrZero(p.last))
      BY <3>5, <3>6
    <3>8. \A k \in Kind : start.left[k] = Less(Cardinality(First(S, k, 0)), OrZero(p.count[k]))
                          /\ start.seen[k] = NotSet
      BY <3>4, <3>5, <3>6
    <3>9. IsInjective(start.out) /\ Range(start.out) = {}
      BY DEF IsInjective, Range
    <3> HIDE DEF start
    <3>10. PassInv(S, p, 0, start)
      BY <1>2, <3>3, <3>7, <3>8, <3>9 DEF PassInv
    <3> HIDE DEF n
    <3> QED
      BY <1>1, <3>1, <3>10
  <2>2. ASSUME NEW i \in 0 .. n - 1, i \in P PROVE i + 1 \in P
    <3>1. i \in Nat /\ i + 1 \in 0 .. n /\ i + 1 \in Nat
      BY <1>1
    <3>2. 1 .. i + 1 \in SUBSET (1 .. n) /\ 1 .. i + 1 # {} /\ i + 1 \in 1 .. i + 1
      BY <1>1, <3>1
    <3>3. Max(1 .. i + 1) = i + 1
      <4>1. Max(1 .. i + 1) \in 1 .. i + 1 /\ Max(1 .. i + 1) >= i + 1
        <5>1. 1 .. i + 1 \in SUBSET (1 .. i + 1)
          OBVIOUS
        <5>2. Max(1 .. i + 1) \in 1 .. i + 1 /\ \A y \in 1 .. i + 1 : Max(1 .. i + 1) >= y
          BY <3>1, <3>2, <5>1, Greatest
        <5> QED
          BY <3>2, <5>2
      <4> QED
        BY <3>1, <4>1
    <3>4. (1 .. i + 1) \ {i + 1} = 1 .. i
      BY <3>1
    <3>5. f[1 .. i + 1] = Consider(p, latest, f[1 .. i], q[i + 1])
      <4> HIDE DEF start, latest, q, n
      <4> QED
        BY <1>6, <3>2, <3>3, <3>4
    <3>6. PassInv(S, p, i, f[1 .. i])
      BY <2>2
    <3>7. PassInv(S, p, i + 1, Consider(p, latest, f[1 .. i], q[i + 1]))
      BY <3>6, PassStep
    <3> HIDE DEF latest, q, n
    <3> QED
      BY <3>1, <3>5, <3>7
  <2> HIDE DEF P
  <2>3. \A i \in 0 .. n : i \in P
    <3> HIDE DEF n
    <3> QED
      BY <1>1, <2>1, <2>2, UpTo
  <2> QED
    BY <2>3 DEF P
<1>8. PassInv(S, p, n, f[1 .. n])
  BY <1>1, <1>7
<1>9. apply_policy(S, p) = f[1 .. n].out
  <2>1. apply_policy(S, p) = FoldLeft(LAMBDA st, c : Consider(p, latest, st, c), start, q).out
    BY DEF apply_policy
  <2> HIDE DEF latest, start, q, n
  <2> QED
    BY <1>1, <1>5, <2>1
<1>10. Dropped(S, p, n) = {s \in S : ~Keeps(S, p, s)}
  <2> HIDE DEF n
  <2>1. Dropped(S, p, n) \subseteq {s \in S : ~Keeps(S, p, s)}
    BY <1>1 DEF Dropped
  <2>2. {s \in S : ~Keeps(S, p, s)} \subseteq Dropped(S, p, n)
    BY <1>1 DEF Dropped
  <2> QED
    BY <2>1, <2>2
<1> QED
  BY <1>8, <1>9, <1>10 DEF PassInv, PassState

-----------------------------------------------------------------------------
(***************************************************************************)
(* The plan of a forget.                                                   *)
(***************************************************************************)
(* Two sequences without a common member, one after the other. *)
LEMMA ConcatOnce ==
    ASSUME NEW T, NEW s \in Seq(T), NEW t \in Seq(T), IsInjective(s), IsInjective(t),
           Range(s) \cap Range(t) = {}
    PROVE  s \o t \in Seq(T) /\ IsInjective(s \o t) /\ Range(s \o t) = Range(s) \cup Range(t)
<1> DEFINE m == Len(s)
           n == Len(t)
           c == s \o t
<1>1. /\ m \in Nat /\ n \in Nat /\ DOMAIN s = 1 .. m /\ DOMAIN t = 1 .. n
      /\ c \in Seq(T) /\ DOMAIN c = 1 .. m + n
      /\ \A i \in 1 .. m + n : c[i] = IF i <= m THEN s[i] ELSE t[i - m]
  OBVIOUS
<1> HIDE DEF m, n, c
<1>2. \A i \in 1 .. m : i \in 1 .. m + n /\ c[i] = s[i]
  BY <1>1
<1>3. \A i \in 1 .. n : m + i \in 1 .. m + n /\ c[m + i] = t[i]
  <2> SUFFICES ASSUME NEW i \in 1 .. n PROVE m + i \in 1 .. m + n /\ c[m + i] = t[i]
    OBVIOUS
  <2>1. m + i \in 1 .. m + n /\ ~(m + i <= m) /\ (m + i) - m = i
    BY <1>1
  <2> QED
    BY <1>1, <2>1
<1>4. \A i \in 1 .. m + n : i \in 1 .. m \/ \E j \in 1 .. n : i = m + j
  <2> SUFFICES ASSUME NEW i \in 1 .. m + n, i \notin 1 .. m PROVE \E j \in 1 .. n : i = m + j
    OBVIOUS
  <2>1. i - m \in 1 .. n /\ i = m + (i - m)
    BY <1>1
  <2> QED
    BY <2>1
<1>5. Range(c) = Range(s) \cup Range(t)
  <2>0. /\ Range(c) = {c[i] : i \in 1 .. m + n}
        /\ Range(s) = {s[i] : i \in 1 .. m}
        /\ Range(t) = {t[i] : i \in 1 .. n}
    BY <1>1 DEF Range
  <2>1. ASSUME NEW i \in 1 .. m + n PROVE c[i] \in Range(s) \cup Range(t)
    <3>1. CASE i \in 1 .. m
      BY <1>2, <2>0, <3>1
    <3>2. CASE \E j \in 1 .. n : i = m + j
      BY <1>3, <2>0, <3>2
    <3> QED
      BY <1>4, <3>1, <3>2
  <2>2. \A i \in 1 .. m : s[i] \in Range(c)
    BY <1>2, <2>0
  <2>3. \A i \in 1 .. n : t[i] \in Range(c)
    BY <1>3, <2>0
  <2> QED
    BY <2>0, <2>1, <2>2, <2>3
<1>6. ASSUME NEW i \in 1 .. m + n, NEW j \in 1 .. m + n, c[i] = c[j] PROVE i = j
  <2>0. /\ \A k \in 1 .. m : s[k] \in Range(s)
        /\ \A k \in 1 .. n : t[k] \in Range(t)
    BY <1>1 DEF Range
  <2>1. CASE i \in 1 .. m /\ j \in 1 .. m
    <3>1. s[i] = s[j]
      BY <1>2, <1>6, <2>1
    <3> QED
      BY <1>1, <2>1, <3>1 DEF IsInjective
  <2>2. CASE (\E k \in 1 .. n : i = m + k) /\ (\E k \in 1 .. n : j = m + k)
    <3>1. PICK k \in 1 .. n : i = m + k
      BY <2>2
    <3>2. PICK l \in 1 .. n : j = m + l
      BY <2>2
    <3>3. t[k] = t[l]
      BY <1>3, <1>6, <3>1, <3>2
    <3>4. k = l
      BY <1>1, <3>3 DEF IsInjective
    <3> QED
      BY <3>1, <3>2, <3>4
  <2>3. CASE i \in 1 .. m /\ (\E k \in 1 .. n : j = m + k)
    <3>1. c[i] \in Range(s) /\ c[j] \in Range(t)
      BY <1>2, <1>3, <2>0, <2>3
    <3> QED
      BY <1>6, <3>1
  <2>4. CASE (\E k \in 1 .. n : i = m + k) /\ j \in 1 .. m
    <3>1. c[j] \in Range(s) /\ c[i] \in Range(t)
      BY <1>2, <1>3, <2>0, <2>4
    <3> QED
      BY <1>6, <3>1
  <2> QED
    BY <1>4, <2>1, <2>2, <2>3, <2>4
<1>7. IsInjective(c)
  BY <1>1, <1>6 DEF IsInjective
<1> QED
  BY <1>1, <1>5, <1>7 DEF c

(* Any number of sequences, no two with a common member. *)
LEMMA FlattenOnce ==
    ASSUME NEW T, NEW ss \in Seq(Seq(T)),
           \A i \in DOMAIN ss : IsInjective(ss[i]),
           \A i, j \in DOMAIN ss : i # j => Range(ss[i]) \cap Range(ss[j]) = {}
    PROVE  /\ FlattenSeq(ss) \in Seq(T) /\ IsInjective(FlattenSeq(ss))
           /\ Range(FlattenSeq(ss)) = UNION {Range(ss[i]) : i \in DOMAIN ss}
<1> DEFINE n == Len(ss)
           step == [x \in Seq(T) \X (1 .. n) |-> x[1] \o ss[x[2]]]
           Flattens(f) == f = [i \in 1 .. n |-> IF i = 1 THEN ss[i] ELSE f[i - 1] \o ss[i]]
           Upto(i) == UNION {Range(ss[j]) : j \in 1 .. i}
<1>1. n \in Nat /\ DOMAIN ss = 1 .. n /\ \A i \in 1 .. n : ss[i] \in Seq(T)
  OBVIOUS
<1>2. CASE n = 0
  <2>1. ss = <<>> /\ DOMAIN ss = {} /\ FlattenSeq(ss) = ss
    BY <1>2 DEF FlattenSeq
  <2>2. <<>> \in Seq(T) /\ IsInjective(<<>>) /\ Range(<<>>) = {}
    BY DEF IsInjective, Range
  <2>3. UNION {Range(ss[i]) : i \in DOMAIN ss} = {}
    BY <2>1
  <2> QED
    BY <2>1, <2>2, <2>3
<1>3. CASE n # 0
  <2>0. 1 \in 1 .. n /\ ss[1] \in Seq(T)
    BY <1>1, <1>3
  <2>1. step \in [Seq(T) \X (1 .. n) -> Seq(T)]
    <3> SUFFICES ASSUME NEW s \in Seq(T), NEW i \in 1 .. n PROVE s \o ss[i] \in Seq(T)
      OBVIOUS
    <3>1. ss[i] \in Seq(T)
      BY <1>1
    <3> QED
      BY <3>1
  <2>2. PICK g : Chaining(g, Seq(T), n, ss[1], step)
    <3> HIDE DEF n, step
    <3> QED
      BY <1>1, <2>0, <2>1, ChainExists
  <2>3. /\ g \in [1 .. n -> Seq(T)]
        /\ \A i \in 1 .. n : g[i] = IF i = 1 THEN ss[1] ELSE step[<<g[i - 1], i>>]
    <3> HIDE DEF n, step
    <3> QED
      BY <2>2 DEF Chaining
  <2>4. \A i \in 1 .. n : g[i] = IF i = 1 THEN ss[i] ELSE g[i - 1] \o ss[i]
    <3> SUFFICES ASSUME NEW i \in 1 .. n, i # 1 PROVE g[i] = g[i - 1] \o ss[i]
      BY <2>3
    <3>1. i - 1 \in 1 .. n
      BY <1>1
    <3>2. <<g[i - 1], i>> \in Seq(T) \X (1 .. n)
      BY <2>3, <3>1
    <3>3. step[<<g[i - 1], i>>] = g[i - 1] \o ss[i]
      BY <3>2
    <3> HIDE DEF step, n
    <3> QED
      BY <2>3, <3>3
  <2>5. Flattens(g)
    <3> HIDE DEF step, n
    <3> QED
      BY <2>3, <2>4
  <2>6. PICK f : FlattenSeq(ss) = f[Len(ss)] /\ Flattens(f)
    <3>1. Len(ss) # 0 /\ \E f : Flattens(f)
      BY <1>3, <2>5
    <3> DEFINE f == CHOOSE f : Flattens(f)
    <3>2. Flattens(f)
      <4> HIDE DEF Flattens
      <4> QED
        BY <3>1, Zenon
    <3>3. FlattenSeq(ss) = f[Len(ss)]
      BY <3>1, Zenon DEF FlattenSeq
    <3> HIDE DEF f
    <3> QED
      BY <3>2, <3>3
  <2>7. \A i \in 1 .. n : f[i] = IF i = 1 THEN ss[i] ELSE f[i - 1] \o ss[i]
    <3> HIDE DEF n
    <3> QED
      BY <2>6
  <2> DEFINE P == {i \in 0 .. n : i # 0 => f[i] \in Seq(T) /\ IsInjective(f[i]) /\ Range(f[i]) = Upto(i)}
  <2>8. 0 \in P
    BY <1>1
  <2>9. ASSUME NEW i \in 0 .. n - 1, i \in P PROVE i + 1 \in P
    <3>1. i \in Nat /\ i + 1 \in 1 .. n /\ i + 1 \in 0 .. n /\ 1 .. i \subseteq 1 .. n
      BY <1>1
    <3>2. CASE i = 0
      <4>1. f[1] = ss[1] /\ 1 .. 1 = {1}
        BY <2>0, <2>7
      <4>2. Upto(1) = Range(ss[1])
        BY <4>1
      <4> HIDE DEF Upto, n
      <4> QED
        BY <1>1, <2>0, <3>1, <3>2, <4>1, <4>2
    <3>3. CASE i # 0
      <4>1. f[i] \in Seq(T) /\ IsInjective(f[i]) /\ Range(f[i]) = Upto(i)
        BY <2>9, <3>3
      <4>2. f[i + 1] = f[i] \o ss[i + 1]
        <5>1. i + 1 # 1 /\ (i + 1) - 1 = i
          BY <3>1, <3>3
        <5> HIDE DEF n
        <5> QED
          BY <2>7, <3>1, <5>1
      <4>3. Range(f[i]) \cap Range(ss[i + 1]) = {}
        <5>1. \A j \in 1 .. i : j \in DOMAIN ss /\ i + 1 \in DOMAIN ss /\ j # i + 1
          BY <1>1, <3>1
        <5>2. \A j \in 1 .. i : Range(ss[j]) \cap Range(ss[i + 1]) = {}
          BY <5>1
        <5> QED
          BY <4>1, <5>2
      <4>4. ss[i + 1] \in Seq(T) /\ IsInjective(ss[i + 1])
        BY <1>1, <3>1
      <4>5. f[i + 1] \in Seq(T) /\ IsInjective(f[i + 1]) /\ Range(f[i + 1]) = Range(f[i]) \cup Range(ss[i + 1])
        <5> DEFINE u == f[i]
                   v == ss[i + 1]
        <5>1. /\ u \in Seq(T) /\ v \in Seq(T) /\ IsInjective(u) /\ IsInjective(v)
              /\ Range(u) \cap Range(v) = {}
          BY <4>1, <4>3, <4>4
        <5> HIDE DEF u, v
        <5>2. u \o v \in Seq(T) /\ IsInjective(u \o v) /\ Range(u \o v) = Range(u) \cup Range(v)
          BY <5>1, ConcatOnce
        <5> QED
          BY <4>2, <5>2 DEF u, v
      <4>6. Upto(i + 1) = Upto(i) \cup Range(ss[i + 1])
        <5>1. 1 .. i + 1 = 1 .. i \cup {i + 1}
          BY <3>1
        <5> QED
          BY <5>1
      <4> HIDE DEF Upto, n
      <4> QED
        BY <3>1, <4>1, <4>5, <4>6
    <3> QED
      BY <3>2, <3>3
  <2>10. n \in P
    <3> HIDE DEF P, n
    <3>1. \A i \in 0 .. n : i \in P
      BY <1>1, <2>8, <2>9, UpTo
    <3> QED
      BY <1>1, <3>1
  <2>11. f[n] \in Seq(T) /\ IsInjective(f[n]) /\ Range(f[n]) = Upto(n)
    BY <1>3, <2>10
  <2>12. FlattenSeq(ss) = f[n]
    BY <2>6
  <2>13. Upto(n) = UNION {Range(ss[i]) : i \in DOMAIN ss}
    BY <1>1
  <2> HIDE DEF n, Upto
  <2> QED
    BY <2>11, <2>12, <2>13
<1> QED
  BY <1>2, <1>3

(* What the policy drops of what was not named, stated without an order. *)
DroppedOf(listed, named, p) == {s \in listed \ named : ~is_empty(p) /\ ~Keeps(listed \ named, p, s)}

(* What a forget removes: what was named and what the policy drops. *)
LEMMA RemovedFacts ==
    ASSUME NEW listed \in SUBSET Snapshot, NEW named \in SUBSET listed, NEW p \in Policy
    PROVE  /\ Removed(listed, named, p) \in Seq(Snapshot)
           /\ IsInjective(Removed(listed, named, p))
           /\ Range(Removed(listed, named, p)) = named \cup DroppedOf(listed, named, p)
<1> DEFINE rest == listed \ named
           Of(i) == {s \in rest : s.group = GroupOrder[i]}
           groups == [i \in DOMAIN GroupOrder |->
                        IF is_empty(p) \/ Of(i) = {} THEN <<>> ELSE apply_policy(Of(i), p)]
           byKey == ByKey(named)
           flat == FlattenSeq(groups)
           Drops == {s \in rest : ~is_empty(p) /\ ~Keeps(rest, p, s)}
<1>1. /\ byKey \in Seq(Snapshot) /\ IsInjective(byKey) /\ Range(byKey) = named
  <2>1. named \in SUBSET Snapshot
    OBVIOUS
  <2> DEFINE m == Cardinality(named)
  <2>2. /\ m \in Nat /\ byKey \in [1 .. m -> named] /\ IsInjective(byKey)
        /\ \A s \in named : \E i \in 1 .. m : byKey[i] = s
    BY <2>1, NamedInOrder
  <2> HIDE DEF m, byKey
  <2>3. byKey \in Seq(Snapshot)
    BY <2>1, <2>2
  <2>4. Range(byKey) = named
    BY <2>2 DEF Range
  <2> QED
    BY <2>2, <2>3, <2>4
<1>2. ASSUME NEW i \in DOMAIN GroupOrder
      PROVE  /\ groups[i] \in Seq(Snapshot) /\ IsInjective(groups[i])
             /\ Range(groups[i]) = {s \in Drops : s.group = GroupOrder[i]}
  <2>1. CASE is_empty(p) \/ Of(i) = {}
    <3>1. groups[i] = <<>> /\ {s \in Drops : s.group = GroupOrder[i]} = {}
      BY <2>1
    <3>2. <<>> \in Seq(Snapshot) /\ IsInjective(<<>>) /\ Range(<<>>) = {}
      BY DEF IsInjective, Range
    <3> HIDE DEF groups, Drops
    <3> QED
      BY <3>1, <3>2
  <2>2. CASE ~(is_empty(p) \/ Of(i) = {})
    <3> DEFINE S == Of(i)
    <3>1. S \in SUBSET Snapshot /\ OneGroup(S)
      BY DEF OneGroup
    <3>2. groups[i] = apply_policy(S, p)
      BY <2>2
    <3>3. \A s \in S : Newer(S, s) = Newer(rest, s)
      BY DEF Newer
    <3>4. \A s \in S : Keeps(S, p, s) <=> Keeps(rest, p, s)
      <4> HIDE DEF S, rest
      <4> QED
        BY <3>3 DEF Keeps
    <3>5. {s \in S : ~Keeps(S, p, s)} = {s \in Drops : s.group = GroupOrder[i]}
      <4>1. {s \in S : ~Keeps(S, p, s)} = {s \in S : ~Keeps(rest, p, s)}
        BY <3>4
      <4> QED
        BY <2>2, <4>1
    <3> HIDE DEF S, groups, Drops
    <3> QED
      BY <3>1, <3>2, <3>5, PolicyDrops
  <2> QED
    BY <2>1, <2>2
<1>3. /\ groups \in Seq(Seq(Snapshot)) /\ DOMAIN groups = DOMAIN GroupOrder
  <2> DEFINE n == Len(GroupOrder)
  <2>1. n \in Nat /\ DOMAIN GroupOrder = 1 .. n
    BY GroupsListed
  <2>2. groups \in [1 .. n -> Seq(Snapshot)]
    <3>1. groups = [i \in 1 .. n |-> groups[i]]
      BY <2>1
    <3> HIDE DEF groups, n
    <3> QED
      BY <1>2, <2>1, <3>1
  <2> HIDE DEF groups, n
  <2> QED
    BY <2>1, <2>2
<1> HIDE DEF groups, Drops, byKey
<1>4. ASSUME NEW i \in DOMAIN groups, NEW j \in DOMAIN groups, i # j
      PROVE  Range(groups[i]) \cap Range(groups[j]) = {}
  <2>1. GroupOrder[i] # GroupOrder[j]
    BY <1>3, <1>4, GroupsListed
  <2> QED
    BY <1>2, <1>3, <2>1
<1>5. /\ flat \in Seq(Snapshot) /\ IsInjective(flat)
      /\ Range(flat) = UNION {Range(groups[i]) : i \in DOMAIN groups}
  BY <1>2, <1>3, <1>4, FlattenOnce
<1>6. Range(flat) = Drops
  <2>1. \A s \in Drops : s \in Snapshot
    BY DEF Drops
  <2>2. \A s \in Drops : \E i \in DOMAIN groups : s \in Range(groups[i])
    <3> SUFFICES ASSUME NEW s \in Drops PROVE \E i \in DOMAIN groups : s \in Range(groups[i])
      OBVIOUS
    <3>1. PICK i \in DOMAIN GroupOrder : GroupOrder[i] = s.group
      BY <2>1, GroupsListed, SnapshotFacts
    <3> QED
      BY <1>2, <1>3, <3>1
  <2>3. \A i \in DOMAIN groups : Range(groups[i]) \subseteq Drops
    BY <1>2, <1>3
  <2> HIDE DEF flat
  <2> QED
    BY <1>5, <2>2, <2>3
<1>7. named \cap Drops = {}
  BY DEF Drops
<1>8. Removed(listed, named, p) = byKey \o flat
  BY DEF Removed, groups, byKey
<1> HIDE DEF flat
<1>9. byKey \o flat \in Seq(Snapshot) /\ IsInjective(byKey \o flat) /\ Range(byKey \o flat) = named \cup Drops
  BY <1>1, <1>5, <1>6, <1>7, ConcatOnce
<1> QED
  BY <1>8, <1>9 DEF Drops, DroppedOf

-----------------------------------------------------------------------------
(***************************************************************************)
(* The policy, when snapshots come and go.                                 *)
(***************************************************************************)
(* The newer ones of a snapshot, and their buckets, are finitely many. *)
LEMMA NewerFinite ==
    ASSUME NEW S \in SUBSET Snapshot, NEW s, NEW k
    PROVE  /\ IsFiniteSet(Newer(S, s)) /\ Cardinality(Newer(S, s)) \in Nat
           /\ IsFiniteSet(BucketsIn(Newer(S, s), k)) /\ Cardinality(BucketsIn(Newer(S, s), k)) \in Nat
<1> DEFINE N == Newer(S, s)
           f == [t \in N |-> BucketOf[k][t.time]]
<1>1. N \in SUBSET Snapshot
  BY DEF Newer
<1>2. IsFiniteSet(N)
  BY <1>1, FiniteSnapshots
<1>3. f \in [N -> BucketsIn(N, k)] /\ \A b \in BucketsIn(N, k) : \E t \in N : f[t] = b
  BY DEF BucketsIn
<1>4. f \in Surjection(N, BucketsIn(N, k))
  <2> HIDE DEF f, N
  <2> QED
    BY <1>3 DEF Surjection
<1>5. IsFiniteSet(BucketsIn(N, k))
  BY <1>2, <1>4, FS_Surjection
<1> QED
  BY <1>2, <1>5, FS_CardinalityType

(* A policy that validate() lets pass keeps the newest of a group. *)
LEMMA NewestKept ==
    ASSUME NEW S \in SUBSET Snapshot, NEW s, NEW p \in Policy, validate(p), ~is_empty(p), Newer(S, s) = {}
    PROVE  Keeps(S, p, s)
<1>1. Cardinality(Newer(S, s)) = 0 /\ \A k \in Kind : BucketsIn(Newer(S, s), k) = {}
  BY FS_EmptySet DEF BucketsIn
<1>2. \A k \in Kind : Cardinality(BucketsIn(Newer(S, s), k)) = 0
  BY <1>1, FS_EmptySet
<1>3. CASE p.last # NotSet
  <2>1. p.last \in Nat /\ p.last # 0
    BY <1>3 DEF validate, Policy, Rule
  <2> QED
    BY <1>1, <1>3, <2>1 DEF Keeps
<1>4. CASE p.within # NotSet
  BY <1>4 DEF Keeps
<1>5. CASE \E k \in Kind : p.count[k] # NotSet
  <2>1. PICK k \in Kind : p.count[k] # NotSet
    BY <1>5
  <2>2. p.count[k] \in Nat /\ p.count[k] # 0
    BY <2>1 DEF validate, Policy, Rule
  <2> QED
    BY <1>1, <1>2, <2>1, <2>2 DEF Keeps
<1> QED
  BY <1>3, <1>4, <1>5 DEF is_empty

(* A snapshot that comes takes a reason to keep another away, and never    *)
(* gives one.                                                              *)
LEMMA KeptAmongFewer ==
    ASSUME NEW S \in SUBSET Snapshot, NEW T \in SUBSET S, NEW s, NEW p \in Policy, Keeps(S, p, s)
    PROVE  Keeps(T, p, s)
<1>1. Newer(T, s) \subseteq Newer(S, s) /\ T \in SUBSET Snapshot
  BY DEF Newer
<1>2. Cardinality(Newer(T, s)) <= Cardinality(Newer(S, s))
  BY <1>1, NewerFinite, FS_Subset
<1>3. \A k : BucketsIn(Newer(T, s), k) \subseteq BucketsIn(Newer(S, s), k)
  BY <1>1 DEF BucketsIn
<1>4. \A k : Cardinality(BucketsIn(Newer(T, s), k)) <= Cardinality(BucketsIn(Newer(S, s), k))
  BY <1>3, NewerFinite, FS_Subset
<1>5. CASE p.last # NotSet /\ Cardinality(Newer(S, s)) < p.last
  <2>1. p.last \in Nat
    BY <1>5 DEF Policy, Rule
  <2>2. Cardinality(Newer(T, s)) \in Nat /\ Cardinality(Newer(S, s)) \in Nat
    BY <1>1, NewerFinite
  <2>3. Cardinality(Newer(T, s)) < p.last
    BY <1>2, <1>5, <2>1, <2>2
  <2> QED
    BY <1>5, <2>3 DEF Keeps
<1>6. CASE p.within # NotSet /\ \A t \in Newer(S, s) : t.time - s.time <= p.within
  BY <1>1, <1>6 DEF Keeps
<1>7. CASE \E k \in Kind :
             /\ p.count[k] # NotSet
             /\ BucketOf[k][s.time] \notin BucketsIn(Newer(S, s), k)
             /\ Cardinality(BucketsIn(Newer(S, s), k)) < p.count[k]
  <2>1. PICK k \in Kind :
             /\ p.count[k] # NotSet
             /\ BucketOf[k][s.time] \notin BucketsIn(Newer(S, s), k)
             /\ Cardinality(BucketsIn(Newer(S, s), k)) < p.count[k]
    BY <1>7
  <2> DEFINE a == Cardinality(BucketsIn(Newer(T, s), k))
             b == Cardinality(BucketsIn(Newer(S, s), k))
  <2>2. p.count[k] \in Nat
    BY <2>1 DEF Policy, Rule
  <2>3. a \in Nat /\ b \in Nat /\ a <= b
    BY <1>1, <1>4, NewerFinite
  <2>4. a < p.count[k]
    <3>1. b < p.count[k]
      BY <2>1
    <3> HIDE DEF a, b
    <3> QED
      BY <2>2, <2>3, <3>1
  <2>5. BucketOf[k][s.time] \notin BucketsIn(Newer(T, s), k)
    BY <1>3, <2>1
  <2> QED
    BY <2>1, <2>4, <2>5 DEF Keeps
<1> QED
  BY <1>5, <1>6, <1>7 DEF Keeps

(* When a snapshot goes that the policy drops, the policy still drops      *)
(* what it dropped: what would now be kept for a rule takes the place of   *)
(* one that was kept for the same rule.                                    *)
LEMMA StillDropped ==
    ASSUME NEW S \in SUBSET Snapshot, NEW d \in Snapshot, NEW e \in Snapshot, NEW p \in Policy,
           ~Keeps(S, p, d), ~Keeps(S, p, e)
    PROVE  ~Keeps(S \ {e}, p, d)
<1> DEFINE T == S \ {e}
<1> SUFFICES ASSUME Keeps(T, p, d) PROVE FALSE
  OBVIOUS
<1>1. T \in SUBSET Snapshot
  OBVIOUS
<1>2. CASE e \notin Newer(S, d)
  <2>1. Newer(T, d) = Newer(S, d)
    BY <1>2 DEF Newer
  <2>2. Keeps(S, p, d)
    <3> HIDE DEF T
    <3> QED
      BY <2>1 DEF Keeps
  <2> QED
    BY <2>2
<1>3. CASE e \in Newer(S, d)
  <2>1. e \in S /\ e.group = d.group /\ e.time > d.time /\ e.time \in Nat /\ d.time \in Nat
    BY <1>3, SnapshotFacts DEF Newer
  <2>2. \A t \in Newer(S, e) : t \in Newer(T, d) /\ t.time \in Nat
    <3> SUFFICES ASSUME NEW t \in Newer(S, e) PROVE t \in Newer(T, d) /\ t.time \in Nat
      OBVIOUS
    <3>1. t \in S /\ t.group = e.group /\ t.time > e.time /\ t.time \in Nat
      BY SnapshotFacts DEF Newer
    <3>2. t # e /\ t.time > d.time /\ t.group = d.group
      BY <2>1, <3>1
    <3> QED
      BY <3>1, <3>2 DEF Newer
  <2>3. Newer(S, d) = Newer(T, d) \cup {e}
    BY <1>3, <2>1 DEF Newer
  <2> HIDE DEF T
  <2>4. Cardinality(Newer(S, e)) <= Cardinality(Newer(T, d))
    BY <1>1, <2>2, NewerFinite, FS_Subset
  <2>5. \A k : BucketsIn(Newer(S, e), k) \subseteq BucketsIn(Newer(T, d), k)
    BY <2>2 DEF BucketsIn
  <2>6. \A k : Cardinality(BucketsIn(Newer(S, e), k)) <= Cardinality(BucketsIn(Newer(T, d), k))
    BY <1>1, <2>5, NewerFinite, FS_Subset
  <2>7. CASE p.last # NotSet /\ Cardinality(Newer(T, d)) < p.last
    <3>1. p.last \in Nat
      BY <2>7 DEF Policy, Rule
    <3>2. Cardinality(Newer(T, d)) \in Nat /\ Cardinality(Newer(S, e)) \in Nat
      BY <1>1, NewerFinite
    <3>3. Cardinality(Newer(S, e)) < p.last
      BY <2>4, <2>7, <3>1, <3>2
    <3> QED
      BY <2>7, <3>3 DEF Keeps
  <2>8. CASE p.within # NotSet /\ \A t \in Newer(T, d) : t.time - d.time <= p.within
    <3>1. p.within \in Nat
      BY <2>8 DEF Policy, Rule
    <3>2. ASSUME NEW t \in Newer(S, e) PROVE t.time - e.time <= p.within
      <4>1. t.time - d.time <= p.within /\ t.time \in Nat
        BY <2>2, <2>8
      <4> QED
        BY <2>1, <3>1, <4>1
    <3> QED
      BY <2>8, <3>2 DEF Keeps
  <2>9. CASE \E k \in Kind :
               /\ p.count[k] # NotSet
               /\ BucketOf[k][d.time] \notin BucketsIn(Newer(T, d), k)
               /\ Cardinality(BucketsIn(Newer(T, d), k)) < p.count[k]
    <3>1. PICK k \in Kind :
               /\ p.count[k] # NotSet
               /\ BucketOf[k][d.time] \notin BucketsIn(Newer(T, d), k)
               /\ Cardinality(BucketsIn(Newer(T, d), k)) < p.count[k]
      BY <2>9
    <3>2. CASE BucketOf[k][e.time] \in BucketsIn(Newer(T, d), k)
      <4>1. BucketsIn(Newer(S, d), k) = BucketsIn(Newer(T, d), k)
        BY <2>3, <3>2 DEF BucketsIn
      <4> QED
        BY <3>1, <4>1 DEF Keeps
    <3>3. CASE BucketOf[k][e.time] \notin BucketsIn(Newer(T, d), k)
      <4> DEFINE a == Cardinality(BucketsIn(Newer(S, e), k))
                 b == Cardinality(BucketsIn(Newer(T, d), k))
      <4>1. p.count[k] \in Nat /\ b < p.count[k]
        BY <3>1 DEF Policy, Rule
      <4>2. a \in Nat /\ b \in Nat /\ a <= b
        BY <1>1, <2>6, NewerFinite
      <4>3. a < p.count[k]
        <5> HIDE DEF a, b
        <5> QED
          BY <4>1, <4>2
      <4>4. BucketOf[k][e.time] \notin BucketsIn(Newer(S, e), k)
        BY <2>5, <3>3
      <4> QED
        BY <3>1, <4>3, <4>4 DEF Keeps
    <3> QED
      BY <3>2, <3>3
  <2> QED
    BY <2>7, <2>8, <2>9 DEF Keeps
<1> QED
  BY <1>2, <1>3
-----------------------------------------------------------------------------
(***************************************************************************)
(* The invariant.                                                          *)
(***************************************************************************)
Running(f) == forget[f].pc # "idle"

ForgetRecord ==
    [pc : {"idle", "replica", "primary"}, policy : Policies \cup {NotSet}, named : SUBSET Snapshot,
     listed : SUBSET Snapshot, removed : Seq(Snapshot), next : Nat \ {0}]

(* What the records hold. *)
ForgetType ==
    /\ primary \in SUBSET Snapshot /\ replica \in SUBSET Snapshot
    /\ today \in 1 .. LastDay + 1
    /\ config \in Policies \cup {NotSet}
    /\ backup \in [Group -> [phase : {"idle", "replica", "primary"}, time : 0 .. LastDay]]
    /\ \A g \in Group : backup[g].phase # "idle" => backup[g].time \in Time
    /\ forget \in [Forgetter -> ForgetRecord]

(* A forget works on what it listed, by a policy that validate() let pass  *)
(* and that is the configured one where there is one.                      *)
Planned(fg) ==
    /\ fg.policy \in Policies /\ validate(fg.policy)
    /\ config \in {fg.policy, NotSet}
    /\ fg.named \subseteq fg.listed /\ fg.listed \subseteq Snapshot
    /\ fg.named = {} \/ Named
    /\ ~(fg.named = {} /\ is_empty(fg.policy))
    /\ fg.removed = Removed(fg.listed, fg.named, fg.policy)

InForce == \A f \in Forgetter : Running(f) => Planned(forget[f])

(* What a plan still has to delete, or has deleted, has a newer snapshot   *)
(* of its group in the store.                                              *)
NewerStays ==
    ~Named => \A f \in Forgetter : Running(f) =>
        \A d \in Range(forget[f].removed) :
            \E s \in primary : s.group = d.group /\ s.time > d.time

(* And the policy drops it, whatever the others have done. *)
NotKept ==
    ~Named /\ config # NotSet =>
        \A f \in Forgetter : Running(f) =>
            \A d \in Range(forget[f].removed) : ~Keeps(primary, forget[f].policy, d)

ForgetInv == ForgetType /\ InForce /\ NewerStays /\ NotKept

-----------------------------------------------------------------------------
(* The lists are those of the policy, stated without an order. *)
LEMMA PlanFacts ==
    ASSUME NEW fg, Planned(fg)
    PROVE  /\ fg.removed \in Seq(Snapshot) /\ IsInjective(fg.removed)
           /\ Range(fg.removed) =
                fg.named \cup DroppedOf(fg.listed, fg.named, fg.policy)
<1> DEFINE listed == fg.listed
           named == fg.named
           p == fg.policy
<1>1. listed \in SUBSET Snapshot /\ named \in SUBSET listed /\ p \in Policy
      /\ fg.removed = Removed(listed, named, p)
  BY ForgetConstants DEF Planned
<1> HIDE DEF listed, named, p
<1>2. /\ Removed(listed, named, p) \in Seq(Snapshot)
      /\ IsInjective(Removed(listed, named, p))
      /\ Range(Removed(listed, named, p)) =
           named \cup DroppedOf(listed, named, p)
  BY <1>1, RemovedFacts
<1> QED
  BY <1>1, <1>2 DEF listed, named, p

(* The plans are of snapshots. *)
LEMMA InPlan ==
    ASSUME ForgetType, NEW f \in Forgetter, NEW d \in Range(forget[f].removed)
    PROVE  d \in Snapshot
<1>1. forget[f].removed \in Seq(Snapshot)
  BY DEF ForgetType, ForgetRecord
<1> QED
  BY <1>1 DEF Range

(* The records stay what they are. *)
LEMMA ForgetTypeStep ==
    ASSUME ForgetType, [ForgetNext]_forgetVars
    PROVE  ForgetType'
<1> USE DEF ForgetType
<1>0. LastDay \in Nat /\ Policies \subseteq Policy
  BY ForgetConstants
<1>1. ASSUME NEW g \in Group, BackupNext(g) PROVE ForgetType'
  <2>1. CASE BackupStart(g)
    <3>1. today \in Time /\ today' \in 1 .. LastDay + 1 /\ today \in 0 .. LastDay
      BY <1>0, <2>1 DEF BackupStart, Time
    <3>2. backup' \in [Group -> [phase : {"idle", "replica", "primary"}, time : 0 .. LastDay]]
      BY <2>1, <3>1 DEF BackupStart
    <3>3. \A h \in Group : backup'[h].phase # "idle" => backup'[h].time \in Time
      BY <2>1, <3>1 DEF BackupStart
    <3> QED
      BY <2>1, <3>1, <3>2, <3>3 DEF BackupStart
  <2>2. CASE PutReplica(g)
    <3>1. backup[g].time \in Time
      BY <2>2 DEF PutReplica
    <3>2. replica' \in SUBSET Snapshot
      BY <2>2, <3>1 DEF PutReplica, Snapshot
    <3>3. backup' \in [Group -> [phase : {"idle", "replica", "primary"}, time : 0 .. LastDay]]
      BY <2>2 DEF PutReplica
    <3>4. \A h \in Group : backup'[h].phase # "idle" => backup'[h].time \in Time
      BY <2>2, <3>1 DEF PutReplica
    <3> QED
      BY <2>2, <3>2, <3>3, <3>4 DEF PutReplica
  <2>3. CASE PutPrimary(g)
    <3>1. primary' \in SUBSET Snapshot
      BY <2>3 DEF PutPrimary, Snapshot
    <3>2. backup' \in [Group -> [phase : {"idle", "replica", "primary"}, time : 0 .. LastDay]]
      BY <1>0, <2>3 DEF PutPrimary, NoBackup
    <3>3. \A h \in Group : backup'[h].phase # "idle" => backup'[h].time \in Time
      BY <2>3 DEF PutPrimary, NoBackup
    <3> QED
      BY <2>3, <3>1, <3>2, <3>3 DEF PutPrimary
  <2>4. CASE BackupDies(g)
    <3>2. backup' \in [Group -> [phase : {"idle", "replica", "primary"}, time : 0 .. LastDay]]
      BY <1>0, <2>4 DEF BackupDies, NoBackup
    <3>3. \A h \in Group : backup'[h].phase # "idle" => backup'[h].time \in Time
      BY <2>4 DEF BackupDies, NoBackup
    <3> QED
      BY <2>4, <3>2, <3>3 DEF BackupDies
  <2> QED
    BY <1>1, <2>1, <2>2, <2>3, <2>4 DEF BackupNext
<1>2. ASSUME NEW f \in Forgetter, NEW p \in Policies, NEW named \in SUBSET primary, ForgetPlan(f, p, named)
      PROVE  ForgetType'
  <2>1. primary \in SUBSET Snapshot /\ named \in SUBSET primary /\ p \in Policy
    BY <1>0
  <2>2. Removed(primary, named, p) \in Seq(Snapshot)
    BY <2>1, RemovedFacts
  <2>3. forget' = [forget EXCEPT ![f] =
                    [pc |-> "replica", policy |-> p, named |-> named, listed |-> primary,
                     removed |-> Removed(primary, named, p), next |-> 1]]
    BY <1>2 DEF ForgetPlan, list_snapshots
  <2>4. forget' \in [Forgetter -> ForgetRecord]
    BY <2>1, <2>2, <2>3 DEF ForgetRecord
  <2> QED
    BY <1>2, <2>4 DEF ForgetPlan
<1>3. ASSUME NEW f \in Forgetter, ForgetStep(f) \/ ForgetFails(f) PROVE ForgetType'
  <2>0. forget[f] \in ForgetRecord
    OBVIOUS
  <2>1. CASE DeleteReplica(f)
    <3>1. [forget[f] EXCEPT !.pc = "primary"] \in ForgetRecord
      BY <2>0 DEF ForgetRecord
    <3>2. forget' \in [Forgetter -> ForgetRecord]
      BY <2>1, <3>1 DEF DeleteReplica
    <3> QED
      BY <2>1, <3>2 DEF DeleteReplica
  <2>2. CASE DeletePrimary(f)
    <3>1. [forget[f] EXCEPT !.pc = "replica", !.next = @ + 1] \in ForgetRecord
      <4>1. forget[f].next + 1 \in Nat \ {0}
        BY <2>0 DEF ForgetRecord
      <4> QED
        BY <2>0, <4>1 DEF ForgetRecord
    <3>2. forget' \in [Forgetter -> ForgetRecord]
      BY <2>2, <3>1 DEF DeletePrimary
    <3> QED
      BY <2>2, <3>2 DEF DeletePrimary
  <2>3. CASE ForgetDone(f) \/ ForgetFails(f)
    <3>1. NoForget \in ForgetRecord
      BY DEF NoForget, ForgetRecord
    <3>2. forget' = [forget EXCEPT ![f] = NoForget]
      BY <2>3 DEF ForgetDone, ForgetFails
    <3>3. forget' \in [Forgetter -> ForgetRecord]
      BY <3>1, <3>2
    <3> QED
      BY <2>3, <3>3 DEF ForgetDone, ForgetFails
  <2> QED
    BY <1>3, <2>1, <2>2, <2>3 DEF ForgetStep
<1>4. CASE UNCHANGED forgetVars
  BY <1>4 DEF forgetVars
<1> QED
  BY <1>1, <1>2, <1>3, <1>4 DEF ForgetNext

-----------------------------------------------------------------------------
(* A forget that goes on keeps its plan. *)
Continues ==
    \A f \in Forgetter : Running(f)' =>
        /\ Running(f)
        /\ forget'[f].policy = forget[f].policy
        /\ forget'[f].named = forget[f].named
        /\ forget'[f].listed = forget[f].listed
        /\ forget'[f].removed = forget[f].removed

(* What a step does to the stored snapshots and to the plans. *)
Commits == \E x \in Snapshot : primary' = primary \cup {x} /\ forget' = forget

Plans ==
    /\ primary' = primary
    /\ \E f \in Forgetter :
         /\ Planned(forget[f])' /\ forget'[f].listed = primary
         /\ \A h \in Forgetter \ {f} : forget'[h] = forget[h]

Deletes ==
    \E f \in Forgetter :
        /\ Running(f)
        /\ \E i \in DOMAIN forget[f].removed : primary' = primary \ {forget[f].removed[i]}
        /\ \A h \in Forgetter \ {f} : forget'[h] = forget[h]
        /\ Continues

Goes == primary' = primary /\ Continues

(* A step puts a snapshot, makes a plan, deletes one member of a plan, or  *)
(* leaves snapshots and plans as they are; forgets may end in any of them. *)
LEMMA StepKinds ==
    ASSUME ForgetType, [ForgetNext]_forgetVars
    PROVE  config' = config /\ (Commits \/ Plans \/ Deletes \/ Goes)
<1> USE DEF ForgetType
<1>1. ASSUME NEW g \in Group, BackupNext(g) PROVE config' = config /\ (Commits \/ Goes)
  <2>1. CASE BackupStart(g) \/ PutReplica(g) \/ BackupDies(g)
    BY <2>1 DEF BackupStart, PutReplica, BackupDies, Goes, Continues, Running
  <2>2. CASE PutPrimary(g)
    <3>1. [group |-> g, time |-> backup[g].time] \in Snapshot
      BY <2>2 DEF PutPrimary, Snapshot
    <3> QED
      BY <2>2, <3>1 DEF PutPrimary, Commits
  <2> QED
    BY <1>1, <2>1, <2>2 DEF BackupNext
<1>2. ASSUME NEW f \in Forgetter, NEW p \in Policies, NEW named \in SUBSET primary, ForgetPlan(f, p, named)
      PROVE  config' = config /\ Plans
  <2>1. forget'[f] = [pc |-> "replica", policy |-> p, named |-> named, listed |-> primary,
                      removed |-> Removed(primary, named, p), next |-> 1]
    BY <1>2 DEF ForgetPlan, list_snapshots
  <2>2. \A h \in Forgetter \ {f} : forget'[h] = forget[h]
    BY <1>2 DEF ForgetPlan
  <2>3. config' = config /\ primary' = primary
    BY <1>2 DEF ForgetPlan
  <2>4. /\ forget'[f].policy = p /\ forget'[f].named = named /\ forget'[f].listed = primary
        /\ forget'[f].removed = Removed(primary, named, p)
    BY <2>1
  <2>5. Planned(forget[f])'
    BY <1>2, <2>3, <2>4 DEF ForgetPlan, Planned, Requested, list_snapshots
  <2> QED
    BY <2>2, <2>3, <2>4, <2>5 DEF Plans
<1>3. ASSUME NEW f \in Forgetter, ForgetStep(f) \/ ForgetFails(f)
      PROVE  config' = config /\ (Deletes \/ Goes)
  <2>1. CASE DeleteReplica(f)
    BY <2>1 DEF DeleteReplica, Deleting, Goes, Continues, Running
  <2>2. CASE DeletePrimary(f)
    <3>1. Running(f) /\ forget[f].next \in DOMAIN forget[f].removed
      <4>1. forget[f].removed \in Seq(Snapshot) /\ forget[f].next \in Nat \ {0}
        BY DEF ForgetRecord
      <4>2. forget[f].pc = "primary" /\ forget[f].next <= Len(forget[f].removed)
        BY <2>2 DEF DeletePrimary, Deleting
      <4> QED
        BY <4>1, <4>2 DEF Running
    <3>2. Continues
      BY <2>2, <3>1 DEF DeletePrimary, Continues, Running
    <3> QED
      BY <2>2, <3>1, <3>2 DEF DeletePrimary, Current, Deletes
  <2>3. CASE ForgetDone(f) \/ ForgetFails(f)
    <3>1. forget' = [forget EXCEPT ![f] = NoForget] /\ primary' = primary /\ config' = config
      BY <2>3 DEF ForgetDone, ForgetFails
    <3>2. forget'[f].pc = "idle" /\ \A h \in Forgetter \ {f} : forget'[h] = forget[h]
      BY <3>1 DEF NoForget
    <3>3. Continues
      BY <3>2 DEF Continues, Running
    <3> QED
      BY <3>1, <3>3 DEF Goes
  <2> QED
    BY <1>3, <2>1, <2>2, <2>3 DEF ForgetStep
<1>4. CASE UNCHANGED forgetVars
  BY <1>4 DEF forgetVars, Goes, Continues, Running
<1> QED
  BY <1>1, <1>2, <1>3, <1>4 DEF ForgetNext

(* No step takes a plan out of force. *)
LEMMA InForceStep ==
    ASSUME ForgetType, InForce, [ForgetNext]_forgetVars
    PROVE  InForce'
<1> SUFFICES ASSUME NEW f \in Forgetter, Running(f)' PROVE Planned(forget[f])'
  BY DEF InForce
<1>1. config' = config /\ (Commits \/ Plans \/ Deletes \/ Goes)
  BY StepKinds
<1>2. CASE Continues \/ forget' = forget
  <2>1. /\ Running(f)
        /\ forget'[f].policy = forget[f].policy
        /\ forget'[f].named = forget[f].named
        /\ forget'[f].listed = forget[f].listed
        /\ forget'[f].removed = forget[f].removed
    BY <1>2 DEF Continues, Running
  <2>2. Planned(forget[f])
    BY <2>1 DEF InForce
  <2> QED
    BY <1>1, <2>1, <2>2 DEF Planned
<1>3. CASE Plans
  <2>1. PICK h \in Forgetter : Planned(forget[h])' /\ \A o \in Forgetter \ {h} : forget'[o] = forget[o]
    BY <1>3 DEF Plans
  <2>2. CASE f = h
    BY <2>1, <2>2
  <2>3. CASE f # h
    <3>1. forget'[f] = forget[f] /\ Planned(forget[f])
      BY <2>1, <2>3 DEF InForce, Running
    <3> QED
      BY <1>1, <3>1 DEF Planned
  <2> QED
    BY <2>2, <2>3
<1> QED
  BY <1>1, <1>2, <1>3 DEF Commits, Deletes, Goes

(* The newest snapshot of a group is in no plan, and what makes one old    *)
(* goes only when something newer stays.                                   *)
LEMMA NewerStaysStep ==
    ASSUME ForgetType, InForce, InForce', NewerStays, [ForgetNext]_forgetVars
    PROVE  NewerStays'
<1> SUFFICES ASSUME ~Named, NEW f \in Forgetter, Running(f)', NEW d \in Range(forget'[f].removed)
             PROVE  \E s \in primary' : s.group = d.group /\ s.time > d.time
  BY DEF NewerStays
<1>1. Commits \/ Plans \/ Deletes \/ Goes
  BY StepKinds
<1>2. ASSUME Running(f), forget'[f].removed = forget[f].removed
      PROVE  \E s \in primary : s.group = d.group /\ s.time > d.time
  BY <1>2 DEF NewerStays
<1>3. CASE Commits
  <2>1. primary \subseteq primary' /\ forget' = forget
    BY <1>3 DEF Commits
  <2>2. Running(f) /\ forget'[f].removed = forget[f].removed
    BY <2>1 DEF Running
  <2> QED
    BY <1>2, <2>1, <2>2
<1>4. CASE Plans
  <2>1. PICK h \in Forgetter :
           /\ Planned(forget[h])' /\ forget'[h].listed = primary
           /\ \A o \in Forgetter \ {h} : forget'[o] = forget[o]
    BY <1>4 DEF Plans
  <2>2. primary' = primary
    BY <1>4 DEF Plans
  <2>3. CASE f # h
    <3>1. forget'[f] = forget[f]
      BY <2>1, <2>3
    <3>2. Running(f) /\ forget'[f].removed = forget[f].removed
      BY <3>1 DEF Running
    <3> QED
      BY <1>2, <2>2, <3>2
  <2>4. CASE f = h
    <3> DEFINE p == forget'[f].policy
    <3>1. /\ p \in Policy /\ validate(p) /\ ~is_empty(p) /\ forget'[f].named = {}
          /\ d \in primary /\ ~Keeps(primary, p, d)
      <4> DEFINE fg == forget'[f]
      <4>1. /\ fg.policy \in Policies /\ validate(fg.policy) /\ fg.named \subseteq fg.listed
            /\ fg.listed \subseteq Snapshot
            /\ fg.named = {} \/ Named
            /\ ~(fg.named = {} /\ is_empty(fg.policy))
            /\ fg.removed = Removed(fg.listed, fg.named, fg.policy)
        BY <2>1, <2>4 DEF Planned
      <4>2. fg.listed = primary /\ fg.named = {} /\ fg.policy \in Policy
        BY <2>1, <2>4, <4>1, ForgetConstants
      <4> HIDE DEF fg
      <4>3. primary \in SUBSET Snapshot /\ {} \in SUBSET primary
        BY DEF ForgetType
      <4>4. Range(Removed(primary, {}, fg.policy)) = {} \cup DroppedOf(primary, {}, fg.policy)
        <5> DEFINE q == fg.policy
        <5>1. q \in Policy
          BY <4>2
        <5> HIDE DEF q
        <5>2. Range(Removed(primary, {}, q)) = {} \cup DroppedOf(primary, {}, q)
          BY <4>3, <5>1, RemovedFacts
        <5> QED
          BY <5>2 DEF q
      <4>5. primary \ {} = primary
        OBVIOUS
      <4>6. d \in Range(Removed(primary, {}, fg.policy))
        BY <4>1, <4>2 DEF fg
      <4> QED
        BY <4>1, <4>2, <4>4, <4>5, <4>6 DEF fg, DroppedOf
    <3> HIDE DEF p
    <3>2. Newer(primary, d) # {}
      BY <3>1, NewestKept DEF ForgetType
    <3> QED
      BY <2>2, <3>2 DEF Newer
  <2> QED
    BY <2>3, <2>4
<1>5. CASE Deletes
  <2>1. PICK h \in Forgetter :
           /\ Running(h)
           /\ \E i \in DOMAIN forget[h].removed : primary' = primary \ {forget[h].removed[i]}
    BY <1>5 DEF Deletes
  <2>2. PICK i \in DOMAIN forget[h].removed : primary' = primary \ {forget[h].removed[i]}
    BY <2>1
  <2> DEFINE e == forget[h].removed[i]
  <2>3. e \in Range(forget[h].removed)
    BY DEF Range
  <2>4. Running(f) /\ forget'[f].removed = forget[f].removed
    BY <1>5 DEF Deletes, Continues
  <2>5. PICK s \in primary : s.group = d.group /\ s.time > d.time
    BY <1>2, <2>4
  <2>6. PICK n \in primary : n.group = e.group /\ n.time > e.time
    BY <2>1, <2>3 DEF NewerStays
  <2>7. s.time \in Nat /\ n.time \in Nat /\ d.time \in Nat
    <3>1. d \in Snapshot
      BY <2>4, InPlan
    <3> QED
      BY <3>1, SnapshotFacts DEF ForgetType
  <2>8. primary' = primary \ {e}
    BY <2>2
  <2> HIDE DEF e
  <2>9. CASE s # e
    BY <2>5, <2>8, <2>9
  <2>10. CASE s = e
    <3>1. n # e /\ n.group = d.group /\ n.time > d.time
      BY <2>5, <2>6, <2>7, <2>10
    <3> QED
      BY <2>6, <2>8, <3>1
  <2> QED
    BY <2>9, <2>10
<1>6. CASE Goes
  BY <1>2, <1>6 DEF Goes, Continues
<1> QED
  BY <1>1, <1>3, <1>4, <1>5, <1>6

(* Forgets with one policy do not spoil each other's plans, and no backup  *)
(* does.                                                                   *)
LEMMA NotKeptStep ==
    ASSUME ForgetType, ForgetType', InForce, InForce', NotKept, [ForgetNext]_forgetVars
    PROVE  NotKept'
<1>1. config' = config /\ (Commits \/ Plans \/ Deletes \/ Goes)
  BY StepKinds
<1> SUFFICES ASSUME ~Named, config # NotSet,
                    NEW f \in Forgetter, Running(f)', NEW d \in Range(forget'[f].removed)
             PROVE  ~Keeps(primary', forget'[f].policy, d)
  BY <1>1 DEF NotKept, Keeps, Newer, BucketsIn
<1> DEFINE p == forget'[f].policy
<1>2. p = config /\ p \in Policy
  BY <1>1, ForgetConstants DEF InForce, Planned
<1>3. ASSUME Running(f), forget'[f].removed = forget[f].removed, forget'[f].policy = forget[f].policy
      PROVE  ~Keeps(primary, p, d)
  BY <1>3 DEF NotKept
<1>4. primary \in SUBSET Snapshot /\ primary' \in SUBSET Snapshot
  BY DEF ForgetType
<1>5. CASE Commits
  <2>1. primary \subseteq primary' /\ forget' = forget
    BY <1>5 DEF Commits
  <2>2. ~Keeps(primary, p, d)
    BY <1>3, <2>1 DEF Running
  <2> HIDE DEF p
  <2>3. ~Keeps(primary', p, d)
    BY <1>2, <1>4, <2>1, <2>2, KeptAmongFewer
  <2> QED
    BY <2>3 DEF p
<1>6. CASE Plans
  <2>1. PICK h \in Forgetter :
           /\ Planned(forget[h])' /\ forget'[h].listed = primary
           /\ \A o \in Forgetter \ {h} : forget'[o] = forget[o]
    BY <1>6 DEF Plans
  <2>2. primary' = primary
    BY <1>6 DEF Plans
  <2>3. CASE f # h
    <3>1. forget'[f] = forget[f]
      BY <2>1, <2>3
    <3> QED
      BY <1>3, <2>2, <3>1 DEF Running
  <2>4. CASE f = h
    <3> DEFINE fg == forget'[f]
    <3>1. /\ fg.named = {} /\ fg.listed = primary
          /\ fg.removed = Removed(fg.listed, fg.named, fg.policy)
      BY <2>1, <2>4 DEF Planned
    <3>2. d \in Range(Removed(primary, {}, p))
      BY <3>1
    <3> HIDE DEF p, fg
    <3>3. {} \in SUBSET primary /\ primary \ {} = primary
      OBVIOUS
    <3>4. Range(Removed(primary, {}, p)) = {} \cup DroppedOf(primary, {}, p)
      BY <1>2, <1>4, <3>3, RemovedFacts
    <3>5. ~Keeps(primary, p, d)
      BY <3>2, <3>3, <3>4 DEF DroppedOf
    <3> QED
      BY <2>2, <3>5 DEF p
  <2> QED
    BY <2>3, <2>4
<1>7. CASE Deletes
  <2>1. PICK h \in Forgetter :
           /\ Running(h)
           /\ \E i \in DOMAIN forget[h].removed : primary' = primary \ {forget[h].removed[i]}
    BY <1>7 DEF Deletes
  <2>2. PICK i \in DOMAIN forget[h].removed : primary' = primary \ {forget[h].removed[i]}
    BY <2>1
  <2> DEFINE e == forget[h].removed[i]
  <2>3. e \in Range(forget[h].removed) /\ primary' = primary \ {e}
    BY <2>2 DEF Range
  <2>4. Running(f) /\ forget'[f].removed = forget[f].removed /\ forget'[f].policy = forget[f].policy
    BY <1>7 DEF Deletes, Continues
  <2>5. d \in Snapshot
    BY <2>4, InPlan
  <2>6. e \in Snapshot
    BY <2>3, InPlan
  <2>7. ~Keeps(primary, p, d)
    BY <1>3, <2>4
  <2>8. ~Keeps(primary, p, e)
    <3>1. forget[h].policy = p
      BY <1>2, <2>1 DEF InForce, Planned
    <3> HIDE DEF p, e
    <3> QED
      BY <2>1, <2>3, <3>1 DEF NotKept
  <2> HIDE DEF p, e
  <2>9. ~Keeps(primary \ {e}, p, d)
    BY <1>2, <1>4, <2>5, <2>6, <2>7, <2>8, StillDropped
  <2> QED
    BY <2>3, <2>9 DEF p
<1>8. CASE Goes
  <2>1. primary' = primary
    BY <1>8 DEF Goes
  <2>2. ~Keeps(primary, p, d)
    BY <1>3, <1>8 DEF Goes, Continues
  <2> QED
    BY <2>1, <2>2
<1> QED
  BY <1>1, <1>5, <1>6, <1>7, <1>8
-----------------------------------------------------------------------------
(* The invariant holds: of the records, of the plans, of what the plans    *)
(* leave and of what the policy says of them now.                          *)
THEOREM ForgetInvariance == ForgetSpec => []ForgetInv
<1>1. ForgetInit => ForgetInv
  <2> SUFFICES ASSUME ForgetInit PROVE ForgetInv
    OBVIOUS
  <2>1. LastDay \in Nat
    BY ForgetConstants
  <2>2. \A f \in Forgetter : forget[f] = NoForget
    BY DEF ForgetInit
  <2>3. NoForget \in ForgetRecord
    BY DEF NoForget, ForgetRecord
  <2>4. NoBackup \in [phase : {"idle", "replica", "primary"}, time : 0 .. LastDay] /\ NoBackup.phase = "idle"
    BY <2>1 DEF NoBackup
  <2>5. ForgetType
    BY <2>1, <2>3, <2>4 DEF ForgetInit, ForgetType
  <2>6. \A f \in Forgetter : ~Running(f)
    BY <2>2 DEF Running, NoForget
  <2> QED
    BY <2>5, <2>6 DEF ForgetInv, InForce, NewerStays, NotKept
<1>2. ForgetInv /\ [ForgetNext]_forgetVars => ForgetInv'
  <2> SUFFICES ASSUME ForgetInv, [ForgetNext]_forgetVars PROVE ForgetInv'
    OBVIOUS
  <2>1. ForgetType /\ InForce /\ NewerStays /\ NotKept
    BY DEF ForgetInv
  <2>2. ForgetType'
    BY <2>1, ForgetTypeStep
  <2>3. InForce'
    BY <2>1, InForceStep
  <2>4. NewerStays'
    BY <2>1, <2>3, NewerStaysStep
  <2>5. NotKept'
    BY <2>1, <2>2, <2>3, NotKeptStep
  <2> QED
    BY <2>2, <2>3, <2>4, <2>5 DEF ForgetInv
<1> QED
  BY <1>1, <1>2, PTL DEF ForgetSpec

(* The single pass from newest to oldest, with its counters and its last   *)
(* buckets, deletes exactly what the policy means, each snapshot once.     *)
THEOREM PlansExact == ForgetSpec => []PlanMatchesPolicy
<1>1. ForgetInv => PlanMatchesPolicy
  <2> SUFFICES ASSUME ForgetInv, NEW f \in Forgetter, Running(f)
               PROVE  /\ IsInjective(forget[f].removed)
                      /\ Range(forget[f].removed) =
                           forget[f].named \cup
                             {s \in forget[f].listed \ forget[f].named :
                                /\ ~is_empty(forget[f].policy)
                                /\ ~Keeps(forget[f].listed \ forget[f].named, forget[f].policy, s)}
    BY DEF PlanMatchesPolicy, Running, ForgetInv, ForgetType
  <2>1. Planned(forget[f])
    BY DEF ForgetInv, InForce
  <2> QED
    BY <2>1, PlanFacts DEF DroppedOf
<1> QED
  BY <1>1, ForgetInvariance, PTL

(* Forgets with any policies, backups beside them and crashes: a group     *)
(* that has a snapshot keeps one, when none is named.                      *)
THEOREM GroupsSurvive == ForgetSpec => GroupSurvives
<1> DEFINE Survives == \A g \in Group :
              (~Named /\ \E s \in primary : s.group = g) => (\E s \in primary' : s.group = g)
<1>1. ForgetInv /\ [ForgetNext]_forgetVars => [Survives]_forgetVars
  <2> SUFFICES ASSUME ForgetInv, [ForgetNext]_forgetVars,
                      NEW g \in Group, ~Named, NEW s \in primary, s.group = g
               PROVE  \E t \in primary' : t.group = g
    OBVIOUS
  <2>1. Commits \/ Plans \/ Deletes \/ Goes
    BY StepKinds DEF ForgetInv
  <2>2. CASE Commits \/ Plans \/ Goes
    BY <2>2 DEF Commits, Plans, Goes
  <2>3. CASE Deletes
    <3>1. PICK f \in Forgetter :
             /\ Running(f)
             /\ \E i \in DOMAIN forget[f].removed : primary' = primary \ {forget[f].removed[i]}
      BY <2>3 DEF Deletes
    <3>2. PICK i \in DOMAIN forget[f].removed : primary' = primary \ {forget[f].removed[i]}
      BY <3>1
    <3> DEFINE e == forget[f].removed[i]
    <3>3. e \in Range(forget[f].removed)
      BY DEF Range
    <3>4. PICK n \in primary : n.group = e.group /\ n.time > e.time
      BY <3>1, <3>3 DEF ForgetInv, NewerStays
    <3>5. n.time \in Nat
      BY SnapshotFacts DEF ForgetInv, ForgetType
    <3>6. primary' = primary \ {e} /\ n # e
      BY <3>2, <3>4, <3>5
    <3> HIDE DEF e
    <3> QED
      BY <3>4, <3>6
  <2> QED
    BY <2>1, <2>2, <2>3
<1> QED
  BY <1>1, ForgetInvariance, PTL DEF ForgetSpec, GroupSurvives

(* A plan made from an old listing is still right when it is carried out,  *)
(* if all forgets use the configured policy and none is given names.       *)
THEOREM StalePlansSafe == ForgetSpec => StalePlanSafe
<1> DEFINE Safe == \A f \in DOMAIN forget :
              \A s \in primary \ primary' :
                 (config # NotSet /\ ~Named /\ forget[f] # forget'[f])
                     => ~Keeps(primary, forget[f].policy, s)
<1>1. ForgetInv /\ [ForgetNext]_forgetVars => [Safe]_forgetVars
  <2> SUFFICES ASSUME ForgetInv, [ForgetNext]_forgetVars,
                      NEW f \in Forgetter, NEW s \in primary \ primary',
                      config # NotSet, ~Named, forget[f] # forget'[f]
               PROVE  ~Keeps(primary, forget[f].policy, s)
    BY DEF ForgetInv, ForgetType
  <2>1. Commits \/ Plans \/ Deletes \/ Goes
    BY StepKinds DEF ForgetInv
  <2>2. Deletes
    BY <2>1 DEF Commits, Plans, Goes
  <2>3. PICK h \in Forgetter :
           /\ Running(h)
           /\ \E i \in DOMAIN forget[h].removed : primary' = primary \ {forget[h].removed[i]}
           /\ \A o \in Forgetter \ {h} : forget'[o] = forget[o]
    BY <2>2 DEF Deletes
  <2>4. f = h
    BY <2>3
  <2>5. PICK i \in DOMAIN forget[f].removed : primary' = primary \ {forget[f].removed[i]}
    BY <2>3, <2>4
  <2>6. s \in Range(forget[f].removed)
    BY <2>5 DEF Range
  <2> QED
    BY <2>3, <2>4, <2>6 DEF ForgetInv, NotKept
<1> QED
  BY <1>1, ForgetInvariance, PTL DEF ForgetSpec, StalePlanSafe
=============================================================================
