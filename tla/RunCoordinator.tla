--------------------------- MODULE RunCoordinator ---------------------------
(***************************************************************************)
(* One run's coordination shard: the RunCoordinator Durable Object         *)
(* (apps/state-worker/src/run-coordinator.ts) around the deciders of       *)
(* CoordinationCore, and the runners that call it.                         *)
(*                                                                         *)
(* The object runs one verb at a time, so a verb is one action.  What is   *)
(* concurrent is everything around it: runners racing for a job, requests  *)
(* that arrive late or twice (a runner may present any lease it was ever   *)
(* told of, at any time), replies that are lost, runners that die holding  *)
(* a job, the clock, and the alarm, which the runtime delivers at least    *)
(* once and never early.  One gap inside a verb matters here: the object   *)
(* may die after its append and before ensureAlarm has set the alarm.      *)
(* Requests the deciders reject change nothing and are stuttering steps.   *)
(***************************************************************************)
EXTENDS CoordinationCore, Sequences

CONSTANTS
  Hermetic,    \* the jobs the plan marks hermetic
  EpochBound,  \* bound: no takeover past this attempt (the code has none)
  CutBound     \* bound on the deaths between an append and ensureAlarm

ASSUME ShardAssumption ==
  /\ Hermetic \subseteq Jobs
  /\ EpochBound \in Nat
  /\ CutBound \in Nat

VARIABLES
  created,      \* RunCreated is in the stream
  job,          \* fold.jobs
  canceled,     \* RunCanceled is in the stream
  signals,      \* the run-level signals in the stream, in order
  resultEpoch,  \* the leaseEpoch on the job's JobSucceeded or JobFailed, or 0
  alarm,        \* time to the alarm, 0 when it is due, NoAlarm when unset
  cut,          \* ghost: appends since an alarm was last set whose ensureAlarm
                \* the object did not live to run
  up,           \* the runners that have not died
  tickets       \* the <<job, runner, epoch>> that claim replies delivered

shard   == << created, job, canceled, signals, resultEpoch, alarm, cut >>
runners == << up, tickets >>
vars    == << shard, runners >>

NoAlarm == -1

Phase == RunPhase(PhasesOf(job), canceled, created)

\* A job the alarm still has to watch.
AlarmActive(jobs) == \E j \in Jobs : jobs[j].phase \in {"claimed", "queued"}

\* ensureAlarm: a pending alarm is left where it is.
EnsureAlarm ==
  /\ alarm' = IF alarm = NoAlarm THEN LeaseSeconds ELSE alarm
  /\ cut' = 0

\* The object dies between the append and ensureAlarm's setAlarm: no alarm, and
\* no reply.  (With an alarm pending, such a death only loses the reply.)
DiesUnarmed ==
  /\ alarm = NoAlarm
  /\ cut < CutBound
  /\ cut' = cut + 1
  /\ UNCHANGED << alarm, tickets >>

\* A claim's reply reaches the runner, or is lost on the way.
Reply(j, r, epoch) == tickets' \in {tickets, tickets \cup {<< j, r, epoch >>}}

Grant(j, r, jb) ==
  /\ job' = [job EXCEPT ![j] = jb]
  /\ \/ EnsureAlarm /\ Reply(j, r, jb.leaseEpoch)
     \/ DiesUnarmed
  /\ UNCHANGED << created, canceled, signals, resultEpoch, up >>

-----------------------------------------------------------------------------
Init ==
  /\ created = FALSE
  /\ job = [j \in Jobs |-> FreshJob]
  /\ canceled = FALSE
  /\ signals = <<>>
  /\ resultEpoch = [j \in Jobs |-> 0]
  /\ alarm = NoAlarm
  /\ cut = 0
  /\ up = Runners
  /\ tickets = {}

\* POST /init: seeds the plan, appends RunCreated and arms the first alarm.  A
\* retried /init finds the plan's digest and returns: it arms nothing.
InitRun ==
  /\ ~created
  /\ created' = TRUE
  /\ (EnsureAlarm /\ UNCHANGED tickets) \/ DiesUnarmed
  /\ UNCHANGED << job, canceled, signals, resultEpoch, up >>

\* POST /claim on a job that waits in the frontier.
ClaimQueued(j, r) ==
  /\ created /\ r \in up
  /\ j \in Frontier(job)
  /\ Grant(j, r, JobClaimed(job[j], r, job[j].attempt, job[j].attempt))

\* POST /claim on a job whose holder let the lease lapse: LeaseExpired and
\* JobClaimed go into the stream together, with the next epoch.
ClaimTakeover(j, r) ==
  /\ created /\ r \in up
  /\ job[j].phase = "claimed" /\ job[j].holder # r
  /\ DepsSatisfied(job, j)
  /\ Lapsed(job[j])
  /\ job[j].attempt < EpochBound
  /\ LET epoch == job[j].attempt + 1
     IN  Grant(j, r, JobClaimed(LeaseExpired(job[j], job[j].leaseEpoch),
                                r, epoch, epoch))

\* POST /claim of a hermetic job that has a recorded result: the job is done
\* without running.  No run-level signal goes with it.
ClaimMemoized(j, r) ==
  /\ created /\ r \in up
  /\ j \in Frontier(job) \cap Hermetic
  /\ job' = [job EXCEPT ![j] = JobFinished(@, "memoized")]
  /\ (EnsureAlarm /\ UNCHANGED tickets) \/ DiesUnarmed
  /\ UNCHANGED << created, canceled, signals, resultEpoch, up >>

\* POST /claim by the runner that holds the job already: told its lease again,
\* whether or not the lease is still live; nothing is appended and no alarm set.
Reclaim(j, r) ==
  /\ created /\ r \in up
  /\ job[j].phase = "claimed" /\ job[j].holder = r
  /\ Reply(j, r, job[j].leaseEpoch)
  /\ UNCHANGED << shard, up >>

Bug_HoldsAnyEpoch(j, r, epoch) ==
  /\ created /\ r \in up
  /\ << j, r, epoch >> \in tickets
  /\ job[j].phase = "claimed" /\ job[j].holder = r

\* The lease a heartbeat or a completion presents is the one in force.
HoldsLease(j, r, epoch) ==
  /\ created /\ r \in up
  /\ << j, r, epoch >> \in tickets
  /\ job[j].phase = "claimed" /\ job[j].holder = r /\ job[j].leaseEpoch = epoch

\* POST /heartbeat.
Heartbeat(j, r, epoch) ==
  /\ HoldsLease(j, r, epoch)
  /\ job' = [job EXCEPT ![j] = LeaseRenewed(@, r, epoch)]
  /\ UNCHANGED << created, canceled, signals, resultEpoch, alarm, cut, runners >>

\* POST /complete: the outcome "failed" with reason timed_out is a timeout.
Complete(j, r, epoch, outcome) ==
  /\ HoldsLease(j, r, epoch)
  /\ job' = [job EXCEPT ![j] = JobFinished(@, outcome)]
  /\ signals' = signals \o
       TerminalSignal(job, canceled, created, [k \in {j} |-> outcome])
  /\ resultEpoch' = [resultEpoch EXCEPT ![j] = epoch]
  /\ UNCHANGED << created, canceled, alarm, cut, runners >>

\* POST /cancel: refused once the run is terminal.
Cancel ==
  /\ created
  /\ Phase \notin RunTerminal
  /\ job' = RunCanceled(job)
  /\ canceled' = TRUE
  /\ signals' = Append(signals, "RunCanceled")
  /\ UNCHANGED << created, resultEpoch, alarm, cut, runners >>

\* The body of alarm() up to the re-arming: the lease sweep and its signal.
Sweep ==
  /\ alarm = 0
  /\ job' = SweepJobs(job)
  /\ signals' = signals \o
       TerminalSignal(job, canceled, created, SweepOverrides(job))
  /\ resultEpoch' = [j \in Jobs |->
       IF job[j].phase = "claimed" /\ job'[j].phase = "timed_out"
         THEN job[j].leaseEpoch ELSE resultEpoch[j]]
  /\ UNCHANGED << created, canceled, cut, runners >>

Bug_AlarmAlways ==
  /\ Sweep
  /\ alarm' = LeaseSeconds

AlarmFires ==
  /\ Sweep
  /\ alarm' = IF AlarmActive(job') /\ ~canceled THEN LeaseSeconds ELSE NoAlarm

\* The object dies between the sweep's append and setAlarm; the runtime
\* delivers the alarm again.
AlarmInterrupted ==
  /\ Sweep
  /\ UNCHANGED alarm

Down(n) == IF n > 0 THEN n - 1 ELSE n

\* Time passes, for the leases and the alarm alike.
Tick ==
  /\ job' = [j \in Jobs |-> [job[j] EXCEPT !.lease = Down(@)]]
  /\ alarm' = Down(alarm)
  /\ UNCHANGED << created, canceled, signals, resultEpoch, cut, runners >>

\* A runner dies; nothing it sent arrives any more.  (One whose last request
\* is still under way is one that has not died yet.)
RunnerDies(r) ==
  /\ r \in up
  /\ up' = up \ {r}
  /\ UNCHANGED << shard, tickets >>

Outcomes == {"succeeded", "failed", "timed_out"}

Claim(j, r) ==
  ClaimQueued(j, r) \/ ClaimTakeover(j, r) \/ ClaimMemoized(j, r) \/ Reclaim(j, r)

Report(j, r, epoch) ==
  \/ Heartbeat(j, r, epoch)
  \/ \E outcome \in Outcomes : Complete(j, r, epoch, outcome)

Next ==
  \/ InitRun
  \/ \E j \in Jobs, r \in Runners : Claim(j, r)
  \/ \E t \in tickets : Report(t[1], t[2], t[3])
  \/ Cancel
  \/ AlarmFires
  \/ AlarmInterrupted
  \/ Tick
  \/ \E r \in Runners : RunnerDies(r)

Spec == Init /\ [][Next]_vars

(* Fairness.  The clock runs and the runtime delivers a due alarm: that is *)
(* all the platform promises.  WorkFairness adds runners that do their     *)
(* part: while one is up, a job in the frontier or with a lapsed lease is  *)
(* eventually claimed (a runner told job_held asks again), a holder hears  *)
(* its lease, and one that knows it reports.                               *)
AlarmFairness == WF_vars(Tick) /\ WF_vars(AlarmFires)

Finish(j, r) ==
  \E t \in tickets, outcome \in Outcomes :
    t[1] = j /\ t[2] = r /\ Complete(j, r, t[3], outcome)

WorkFairness ==
  \A j \in Jobs :
    /\ WF_vars(\E r \in Runners : ClaimQueued(j, r))
    /\ WF_vars(\E r \in Runners : ClaimTakeover(j, r))
    /\ \A r \in Runners : WF_vars(Reclaim(j, r)) /\ WF_vars(Finish(j, r))

AlarmSpec == Spec /\ AlarmFairness
WorkSpec  == AlarmSpec /\ WorkFairness

-----------------------------------------------------------------------------
(* Properties.                                                             *)

TypeOK ==
  /\ created \in BOOLEAN
  /\ job \in [Jobs -> JobState]
  /\ canceled \in BOOLEAN
  /\ signals \in Seq({"RunCompleted", "RunFailed", "RunCanceled"})
  /\ resultEpoch \in [Jobs -> Nat]
  /\ alarm \in -1 .. LeaseSeconds
  /\ cut \in 0 .. CutBound
  /\ up \in SUBSET Runners
  /\ tickets \in SUBSET (Jobs \X Runners \X Nat)

\* Every lease somebody may act on: those told to a runner, and the one in
\* force, whose reply may have been lost.
Issued ==
  tickets \cup
    {<< j, job[j].holder, job[j].leaseEpoch >> :
       j \in {k \in Jobs : job[k].phase = "claimed"}}

\* Exactly one winner: across sweeps, takeovers, re-claims and lost replies no
\* two runners are ever given the same job under the same epoch, so an epoch
\* alone tells a stale holder from the current one.
EpochsFence ==
  \A s, t \in Issued : s[1] = t[1] /\ s[3] = t[3] => s[2] = t[2]

\* A job's recorded result was reported under the newest lease ever issued for
\* it: no stale holder completes a job somebody else has been given since.
ResultFromNewestLease ==
  \A j \in Jobs : resultEpoch[j] > 0 =>
    \A t \in Issued : t[1] = j => t[3] <= resultEpoch[j]

\* No job runs, fails or is adopted from a memo before everything it depends
\* on has succeeded, and no later event takes that back.
StartedAfterDeps ==
  \A j \in Jobs :
    (job[j].phase \in {"claimed"} \cup JobSuccess \cup JobFailure
       \/ job[j].attempt > 1)
      => DepsSatisfied(job, j)

\* A held job is left without a pending alarm only if the object died between
\* an append and its ensureAlarm and has set none since: neither a reply lost
\* elsewhere nor the alarm's own death takes away the one thing that frees the
\* job when its runner is gone.
HeldIsWatched ==
  \A j \in Jobs : job[j].phase = "claimed" => alarm # NoAlarm \/ cut > 0

\* The stream carries at most one run-level signal, and the signal and the
\* derived run phase never disagree: retried alarms and later failures do not
\* signal again, and nothing that follows a signal moves the run elsewhere.
SignalsMatchPhase ==
  /\ Len(signals) <= 1
  /\ Phase = "failed" <=> signals = << "RunFailed" >>
  /\ Phase = "canceled" <=> signals = << "RunCanceled" >>
  /\ signals = << "RunCompleted" >> => Phase = "succeeded"

\* A run that succeeded without RunCompleted in its stream ended by a memo hit,
\* the one way to finish a job that adds no run-level signal: whoever waits for
\* the signal alone misses such a run, and no other.
UnsignalledIsMemoized ==
  Phase = "succeeded" /\ signals = <<>> /\ Jobs # {}
    => \E j \in Jobs : job[j].phase = "memoized"

\* A live lease is the holder's alone: while it has time left nobody else gets
\* the job, and it ends only with the job.
LiveLeaseIsKept ==
  [][\A j \in Jobs :
       job[j].phase = "claimed" /\ job[j].lease > 0 =>
         \/ job'[j].holder = job[j].holder /\ job'[j].leaseEpoch = job[j].leaseEpoch
         \/ job'[j].phase \in JobTerminal]_vars

\* A finished job stays as it finished and with the result it finished with,
\* whatever arrives late, and a run that ended stays ended the same way.
EndsAreFinal ==
  [][/\ \A j \in Jobs : job[j].phase \in JobTerminal =>
           job'[j].phase = job[j].phase /\ resultEpoch'[j] = resultEpoch[j]
     /\ Phase \in RunTerminal => Phase' = Phase]_vars

HeldByTheDead(j, r) ==
  job[j].phase = "claimed" /\ job[j].holder = r /\ r \notin up

\* The alarm alone frees the job of a dead runner, unless the arming of the
\* alarm itself was cut off: no cron, no other runner's claim and no request is
\* needed.
DeadHolderIsReleased ==
  \A j \in Jobs, r \in Runners :
    (HeldByTheDead(j, r) /\ cut = 0) ~> ~HeldByTheDead(j, r)

\* The alarm of a run that has nothing left to do dies out, though a due one is
\* delivered again and again.  (Blocked jobs of a failed run stay queued and
\* keep it going.)
AlarmRestsWhenDone ==
  (created /\ \A j \in Jobs : job[j].phase \in JobTerminal) ~> (alarm = NoAlarm)

\* While some runner stays up and works, a created run ends: re-queues,
\* takeovers, memo hits, lost replies and an alarm that was never armed do not
\* strand a job.
RunEnds == [](up # {}) => (created ~> (Phase \in RunTerminal))

-----------------------------------------------------------------------------
(* The inductive invariant, by parts.                                      *)

\* The holder and the epoch are there exactly while the job is held, and the
\* epoch is the number of the attempt.
HeldShape ==
  \A j \in Jobs :
    IF job[j].phase = "claimed"
      THEN job[j].holder \in Runners /\ job[j].leaseEpoch = job[j].attempt
      ELSE job[j].holder = NoRunner /\ job[j].leaseEpoch = 0

\* Before RunCreated nothing has happened; a cancel leaves nothing to do, and
\* nothing but a cancel drops a job.
Untouched   == ~created => /\ \A j \in Jobs : job[j].phase = "queued"
                           /\ ~canceled
                           /\ tickets = {}
CancelIsWhole ==
  /\ canceled => \A j \in Jobs : job[j].phase \in JobTerminal
  /\ Jobs # {} => (canceled <=> \E j \in Jobs : job[j].phase = "canceled")

\* A ticket is from an attempt the job has reached, from an earlier one if the
\* job is queued again, and the holder's if it is from the attempt in force.
TicketsFence ==
  /\ \A t \in tickets :
       /\ t[3] <= job[t[1]].attempt
       /\ job[t[1]].phase = "queued" => t[3] < job[t[1]].attempt
       /\ job[t[1]].phase = "claimed" /\ t[3] = job[t[1]].attempt
            => t[2] = job[t[1]].holder
  /\ \A s, t \in tickets : s[1] = t[1] /\ s[3] = t[3] => s[2] = t[2]

ResultIsLast ==
  \A j \in Jobs : resultEpoch[j] > 0 =>
    job[j].phase \in JobTerminal /\ resultEpoch[j] = job[j].attempt

\* Only an arming that was cut off leaves a run with work without its alarm.
AlarmWatches ==
  /\ created /\ AlarmActive(job) => alarm # NoAlarm \/ cut > 0
  /\ alarm # NoAlarm => cut = 0

IInv ==
  /\ TypeOK
  /\ HeldShape /\ Untouched /\ CancelIsWhole
  /\ TicketsFence /\ ResultIsLast
  /\ StartedAfterDeps /\ AlarmWatches /\ SignalsMatchPhase
=============================================================================
