-------------------------- MODULE CoordinationCore --------------------------
(***************************************************************************)
(* The fold of a run's coordination stream and the predicates its deciders *)
(* share: packages/contracts/src/coordination.ts and coordination-core.ts. *)
(*                                                                         *)
(* A job is the part of JobFoldState that the deciders read; the digests   *)
(* and error texts it carries are payload.  `lease' is the time left until *)
(* leaseExpiresAt, so 0 is a lapsed lease, and also the null of a job      *)
(* nobody holds (leaseExpired treats the two alike).  leaseEpoch 0 is null *)
(* too: an epoch that was issued is an attempt number, which starts at 1.  *)
(*                                                                         *)
(* An operator named Bug_... is a plausible mistake in the one after it,   *)
(* which the mutants listed in PROJECT.json put in its place to show that  *)
(* a property notices.                                                     *)
(***************************************************************************)
EXTENDS Integers

CONSTANTS
  Jobs,          \* the job ids of the plan
  Deps,          \* the plan's DAG: each job's dependencies
  Runners,       \* the runner ids that may claim
  NoRunner,      \* the null holder
  LeaseSeconds,  \* how long a claim or a heartbeat holds the job
  MaxAttempts    \* the attempts a job has before the sweep times it out

ASSUME CoreAssumption ==
  /\ Deps \in [Jobs -> SUBSET Jobs]
  /\ NoRunner \notin Runners
  /\ LeaseSeconds \in Nat \ {0}
  /\ MaxAttempts \in Nat \ {0}

JobSuccess  == {"succeeded", "memoized"}
JobFailure  == {"failed", "timed_out"}
JobTerminal == JobSuccess \cup JobFailure \cup {"canceled"}
JobPhases   == JobTerminal \cup {"queued", "claimed"}
RunTerminal == {"succeeded", "failed", "canceled"}
RunPhases   == RunTerminal \cup {"pending", "running"}

JobState ==
  [phase : JobPhases, holder : Runners \cup {NoRunner}, leaseEpoch : Nat,
   lease : 0 .. LeaseSeconds, attempt : Nat \ {0}]

FreshJob ==
  [phase |-> "queued", holder |-> NoRunner, leaseEpoch |-> 0, lease |-> 0,
   attempt |-> 1]

-----------------------------------------------------------------------------
(* reduceFrom, one operator per authoritative job event.  A terminal job   *)
(* ignores every one of them.                                              *)

Sticky(jb, next) == IF jb.phase \in JobTerminal THEN jb ELSE next

\* Every event that ends a hold clears the holder, the epoch and the expiry.
Released(jb, phase) ==
  [phase |-> phase, holder |-> NoRunner, leaseEpoch |-> 0, lease |-> 0,
   attempt |-> jb.attempt]

JobClaimed(jb, runner, epoch, attempt) ==
  Sticky(jb, [phase |-> "claimed", holder |-> runner, leaseEpoch |-> epoch,
              lease |-> LeaseSeconds, attempt |-> attempt])

LeaseRenewed(jb, runner, epoch) ==
  IF jb.holder = runner /\ jb.leaseEpoch = epoch
    THEN Sticky(jb, [jb EXCEPT !.lease = LeaseSeconds])
    ELSE jb

Bug_ExpiredSameAttempt(jb, epoch) ==
  IF jb.phase = "claimed" /\ jb.leaseEpoch = epoch THEN Released(jb, "queued") ELSE jb

LeaseExpired(jb, epoch) ==
  IF jb.phase = "claimed" /\ jb.leaseEpoch = epoch
    THEN [Released(jb, "queued") EXCEPT !.attempt = @ + 1]
    ELSE jb

\* JobSucceeded, JobMemoized and JobFailed differ in the phase they end in.
JobFinished(jb, phase) == Sticky(jb, Released(jb, phase))

Bug_CancelKeepsHolder(jobs) ==
  [j \in Jobs |-> Sticky(jobs[j], [jobs[j] EXCEPT !.phase = "canceled"])]

RunCanceled(jobs) == [j \in Jobs |-> Sticky(jobs[j], Released(jobs[j], "canceled"))]

-----------------------------------------------------------------------------
(* The derived run phase, and the deciders' predicates.                    *)

PhasesOf(jobs) == [j \in Jobs |-> jobs[j].phase]

\* No job leaves "queued" before RunCreated is in the stream (an absent shard
\* has no plan), so the code's `created || active' is `created' here.
RunPhase(phases, canceled, created) ==
  IF canceled THEN "canceled"
  ELSE IF Jobs = {} THEN "pending"
  ELSE IF \E j \in Jobs : phases[j] \in JobFailure THEN "failed"
  ELSE IF \A j \in Jobs : phases[j] \in JobSuccess THEN "succeeded"
  ELSE IF created THEN "running" ELSE "pending"

Bug_DepsNotMemoized(jobs, j) == \A d \in Deps[j] : jobs[d].phase = "succeeded"

DepsSatisfied(jobs, j) == \A d \in Deps[j] : jobs[d].phase \in JobSuccess

Bug_FrontierNoDeps(jobs) == {j \in Jobs : jobs[j].phase = "queued"}

Frontier(jobs) == {j \in Jobs : jobs[j].phase = "queued" /\ DepsSatisfied(jobs, j)}

Bug_LapsedEarly(jb) == jb.lease <= 1

\* A lease is lapsed at its expiry, not only after it.
Lapsed(jb) == jb.lease = 0

Bug_NoOverrides(jobs, canceled, created, overrides) ==
  IF RunPhase(PhasesOf(jobs), canceled, created) \in RunTerminal THEN <<>>
  ELSE IF RunPhase(PhasesOf(jobs), FALSE, TRUE) = "succeeded"
    THEN << "RunCompleted" >> ELSE <<>>

\* runTerminalAppends: the run-level signal a verb adds when the phases it is
\* about to write (`overrides') take the run into a terminal phase.
TerminalSignal(jobs, canceled, created, overrides) ==
  LET after == [j \in Jobs |-> IF j \in DOMAIN overrides
                                 THEN overrides[j] ELSE jobs[j].phase]
      phase == RunPhase(after, FALSE, TRUE)
  IN  IF RunPhase(PhasesOf(jobs), canceled, created) \in RunTerminal THEN <<>>
      ELSE IF phase = "succeeded" THEN << "RunCompleted" >>
      ELSE IF phase = "failed"    THEN << "RunFailed" >>
      ELSE <<>>

Bug_SweepSkipsLast(jobs) ==
  {j \in Jobs : /\ jobs[j].phase = "claimed" /\ Lapsed(jobs[j])
                /\ jobs[j].attempt < MaxAttempts}

\* sweepLeases: the claimed jobs whose lease has lapsed, and what becomes of
\* one: re-queued below the attempt bound, timed out at it.
SweepSet(jobs) == {j \in Jobs : jobs[j].phase = "claimed" /\ Lapsed(jobs[j])}

SweepPhase(jb) == IF jb.attempt >= MaxAttempts THEN "timed_out" ELSE "queued"

Swept(jb) ==
  IF SweepPhase(jb) = "timed_out"
    THEN JobFinished(jb, "timed_out")
    ELSE LeaseExpired(jb, jb.leaseEpoch)

SweepJobs(jobs) ==
  [j \in Jobs |-> IF j \in SweepSet(jobs) THEN Swept(jobs[j]) ELSE jobs[j]]

SweepOverrides(jobs) == [j \in SweepSet(jobs) |-> SweepPhase(jobs[j])]
=============================================================================
