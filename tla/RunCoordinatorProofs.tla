------------------------ MODULE RunCoordinatorProofs ------------------------
(***************************************************************************)
(* Theorems about RunCoordinator, for every plan, every set of runners and *)
(* every lease length and attempt bound.                                   *)
(***************************************************************************)
EXTENDS RunCoordinatorLedger, SequenceTheorems, TLAPS

USE CoreAssumption, ShardAssumption DEF CoreAssumption, ShardAssumption

-----------------------------------------------------------------------------
(* What the fold's operators preserve.                                     *)

\* Every event operator maps job states to job states.
LEMMA FoldTypes ==
  ASSUME NEW jb \in JobState
  PROVE  /\ \A phase \in JobPhases : Released(jb, phase) \in JobState
         /\ \A phase \in JobPhases : JobFinished(jb, phase) \in JobState
         /\ \A r \in Runners, e \in Nat, n \in Nat \ {0} :
              JobClaimed(jb, r, e, n) \in JobState
         /\ \A r \in Runners, e \in Nat : LeaseRenewed(jb, r, e) \in JobState
         /\ \A e \in Nat : LeaseExpired(jb, e) \in JobState
         /\ Swept(jb) \in JobState
         /\ [jb EXCEPT !.lease = Down(@)] \in JobState
<1>1. \A phase \in JobPhases : Released(jb, phase) \in JobState
  BY DEF JobState, Released
<1>2. \A phase \in JobPhases : JobFinished(jb, phase) \in JobState
  BY <1>1 DEF JobFinished, Sticky
<1>3. \A r \in Runners, e \in Nat, n \in Nat \ {0} :
        JobClaimed(jb, r, e, n) \in JobState
  BY DEF JobState, JobClaimed, Sticky, JobPhases
<1>4. \A r \in Runners, e \in Nat : LeaseRenewed(jb, r, e) \in JobState
  BY DEF JobState, LeaseRenewed, Sticky
<1>5. \A e \in Nat : LeaseExpired(jb, e) \in JobState
  BY DEF JobState, LeaseExpired, Released, JobPhases
<1>6. Swept(jb) \in JobState
  <2>1. "timed_out" \in JobPhases
    BY DEF JobPhases, JobTerminal, JobFailure
  <2>2. jb.leaseEpoch \in Nat
    BY DEF JobState
  <2> QED BY <1>2, <1>5, <2>1, <2>2 DEF Swept
<1>7. [jb EXCEPT !.lease = Down(@)] \in JobState
  BY DEF JobState, Down
<1> QED BY <1>1, <1>2, <1>3, <1>4, <1>5, <1>6, <1>7

\* What a verb adds to the signals is one run-level signal or none.
LEMMA SignalTypes ==
  ASSUME NEW jobs, NEW c, NEW b, NEW overrides
  PROVE  TerminalSignal(jobs, c, b, overrides)
           \in {<<>>, << "RunCompleted" >>, << "RunFailed" >>}
BY DEF TerminalSignal

LEMMA SignalsTyped ==
  ASSUME NEW s \in Seq({"RunCompleted", "RunFailed", "RunCanceled"}),
         NEW t \in {<<>>, << "RunCompleted" >>, << "RunFailed" >>}
  PROVE  s \o t \in Seq({"RunCompleted", "RunFailed", "RunCanceled"})
<1> DEFINE S == {"RunCompleted", "RunFailed", "RunCanceled"}
<1>1. <<>> \in Seq(S) /\ \A x \in S : << x >> \in Seq(S)
  OBVIOUS
<1>2. t \in Seq(S)
  BY <1>1
<1> QED BY <1>2

-----------------------------------------------------------------------------
(* Type correctness.                                                       *)

LEMMA TypeInit == Init => TypeOK
<1> SUFFICES ASSUME Init PROVE TypeOK
  OBVIOUS
<1>1. FreshJob \in JobState
  BY DEF JobState, FreshJob, JobPhases
<1>2. job \in [Jobs -> JobState] /\ resultEpoch \in [Jobs -> Nat]
  BY <1>1 DEF Init
<1>3. signals \in Seq({"RunCompleted", "RunFailed", "RunCanceled"})
  BY DEF Init
<1>4. alarm \in -1 .. LeaseSeconds
  BY CoreAssumption DEF Init, NoAlarm
<1>5. cut \in 0 .. CutBound
  BY ShardAssumption DEF Init
<1> QED BY <1>2, <1>3, <1>4, <1>5 DEF Init, TypeOK

\* What ensureAlarm leaves, whether it ran or the object died before it: an
\* alarm, or the mark of the death.
LEMMA Arming ==
  ASSUME TypeOK, EnsureAlarm \/ DiesUnarmed
  PROVE  /\ alarm' \in -1 .. LeaseSeconds
         /\ cut' \in 0 .. CutBound
         /\ alarm' = NoAlarm <=> cut' > 0
<1> USE CoreAssumption, ShardAssumption DEF TypeOK, NoAlarm
<1>1. CASE EnsureAlarm
  BY <1>1 DEF EnsureAlarm
<1>2. CASE DiesUnarmed
  BY <1>2 DEF DiesUnarmed
<1> QED BY <1>1, <1>2

LEMMA GrantType ==
  ASSUME TypeOK, NEW j \in Jobs, NEW r \in Runners, NEW jb \in JobState,
         Grant(j, r, jb)
  PROVE  TypeOK'
<1>1. job' \in [Jobs -> JobState]
  BY DEF Grant, TypeOK
<1>2. alarm' \in -1 .. LeaseSeconds /\ cut' \in 0 .. CutBound
  BY Arming DEF Grant
<1>3. tickets' \in SUBSET (Jobs \X Runners \X Nat)
  <2>1. jb.leaseEpoch \in Nat
    BY DEF JobState
  <2> QED BY <2>1 DEF Grant, Reply, DiesUnarmed, TypeOK
<1> QED BY <1>1, <1>2, <1>3 DEF Grant, TypeOK

LEMMA TypeNext == TypeOK /\ [Next]_vars => TypeOK'
<1> SUFFICES ASSUME TypeOK, [Next]_vars PROVE TypeOK'
  OBVIOUS
<1> USE DEF TypeOK, NoAlarm
<1>1. CASE InitRun
  BY <1>1, Arming DEF InitRun, DiesUnarmed
<1>2. ASSUME NEW j \in Jobs, NEW r \in Runners, Claim(j, r) PROVE TypeOK'
  <2>1. CASE ClaimQueued(j, r)
    <3>1. JobClaimed(job[j], r, job[j].attempt, job[j].attempt) \in JobState
      BY FoldTypes DEF JobState
    <3> QED BY <2>1, <3>1, GrantType DEF ClaimQueued
  <2>2. CASE ClaimTakeover(j, r)
    <3>1. LeaseExpired(job[j], job[j].leaseEpoch) \in JobState
      BY FoldTypes DEF JobState
    <3>2. job[j].attempt + 1 \in Nat \ {0}
      BY DEF JobState
    <3>3. JobClaimed(LeaseExpired(job[j], job[j].leaseEpoch), r,
                     job[j].attempt + 1, job[j].attempt + 1) \in JobState
      BY <3>1, <3>2, FoldTypes
    <3> QED BY <2>2, <3>3, GrantType DEF ClaimTakeover
  <2>3. CASE ClaimMemoized(j, r)
    <3>1. JobFinished(job[j], "memoized") \in JobState
      BY FoldTypes DEF JobPhases, JobTerminal, JobSuccess
    <3> QED BY <2>3, <3>1, Arming DEF ClaimMemoized, DiesUnarmed
  <2>4. CASE Reclaim(j, r)
    BY <2>4 DEF Reclaim, Reply, shard, JobState
  <2> QED BY <1>2, <2>1, <2>2, <2>3, <2>4 DEF Claim
<1>3. ASSUME NEW t \in tickets, Report(t[1], t[2], t[3]) PROVE TypeOK'
  <2>1. t[1] \in Jobs /\ t[2] \in Runners /\ t[3] \in Nat
    OBVIOUS
  <2>2. CASE Heartbeat(t[1], t[2], t[3])
    BY <2>1, <2>2, FoldTypes DEF Heartbeat, runners
  <2>3. ASSUME NEW outcome \in Outcomes, Complete(t[1], t[2], t[3], outcome)
        PROVE  TypeOK'
    <3>1. outcome \in JobPhases
      BY DEF Outcomes, JobPhases, JobTerminal, JobSuccess, JobFailure
    <3>2. job' \in [Jobs -> JobState]
      BY <2>1, <2>3, <3>1, FoldTypes DEF Complete
    <3>3. signals' \in Seq({"RunCompleted", "RunFailed", "RunCanceled"})
      BY <2>3, SignalTypes, SignalsTyped DEF Complete
    <3> QED BY <2>1, <2>3, <3>2, <3>3 DEF Complete, runners
  <2> QED BY <1>3, <2>2, <2>3 DEF Report
<1>4. CASE Cancel
  <2>1. RunCanceled(job) \in [Jobs -> JobState]
    BY FoldTypes DEF RunCanceled, Sticky, JobPhases, JobTerminal
  <2> QED BY <1>4, <2>1 DEF Cancel, runners
<1>5. ASSUME Sweep, alarm' \in -1 .. LeaseSeconds PROVE TypeOK'
  <2>1. job' \in [Jobs -> JobState]
    BY <1>5, FoldTypes DEF Sweep, SweepJobs
  <2>2. signals' \in Seq({"RunCompleted", "RunFailed", "RunCanceled"})
    BY <1>5, SignalTypes, SignalsTyped DEF Sweep
  <2> QED BY <1>5, <2>1, <2>2 DEF Sweep, runners, JobState
<1>6. CASE AlarmFires
  BY <1>5, <1>6 DEF AlarmFires
<1>7. CASE AlarmInterrupted
  BY <1>5, <1>7 DEF AlarmInterrupted
<1>8. CASE Tick
  <2>1. job' \in [Jobs -> JobState]
    BY <1>8, FoldTypes DEF Tick
  <2> QED BY <1>8, <2>1 DEF Tick, Down, runners
<1>9. ASSUME NEW r \in Runners, RunnerDies(r) PROVE TypeOK'
  BY <1>9 DEF RunnerDies, shard
<1>10. CASE UNCHANGED vars
  BY <1>10 DEF vars, shard, runners
<1> QED BY <1>1, <1>2, <1>3, <1>4, <1>6, <1>7, <1>8, <1>9, <1>10 DEF Next

\* Type correctness of the shard, its runners' leases and its stream.
THEOREM TypeCorrect == Spec => []TypeOK
BY TypeInit, TypeNext, PTL DEF Spec

-----------------------------------------------------------------------------
(* What each event does to a job that is not terminal.                     *)

LEMMA FoldEffects ==
  ASSUME NEW jb \in JobState
  PROVE  /\ jb.phase = "queued" =>
              \A r, e, n : JobClaimed(jb, r, e, n) =
                [phase |-> "claimed", holder |-> r, leaseEpoch |-> e,
                 lease |-> LeaseSeconds, attempt |-> n]
         /\ jb.phase = "claimed" =>
              /\ \A r, e, n : JobClaimed(LeaseExpired(jb, jb.leaseEpoch), r, e, n) =
                   [phase |-> "claimed", holder |-> r, leaseEpoch |-> e,
                    lease |-> LeaseSeconds, attempt |-> n]
              /\ \A r, e : LeaseRenewed(jb, r, e) \in
                   {jb, [jb EXCEPT !.lease = LeaseSeconds]}
              /\ Swept(jb) \in {Released(jb, "timed_out"),
                                [Released(jb, "queued") EXCEPT !.attempt = @ + 1]}
         /\ jb.phase \notin JobTerminal =>
              \A phase : JobFinished(jb, phase) = Released(jb, phase)
<1>0. "queued" \notin JobTerminal /\ "claimed" \notin JobTerminal
  BY DEF JobTerminal, JobSuccess, JobFailure
<1>1. ASSUME jb.phase = "queued", NEW r, NEW e, NEW n
      PROVE  JobClaimed(jb, r, e, n) =
               [phase |-> "claimed", holder |-> r, leaseEpoch |-> e,
                lease |-> LeaseSeconds, attempt |-> n]
  BY <1>0, <1>1 DEF JobClaimed, Sticky
<1>2. ASSUME jb.phase = "claimed"
      PROVE  LeaseExpired(jb, jb.leaseEpoch) =
               [Released(jb, "queued") EXCEPT !.attempt = @ + 1]
  BY <1>2 DEF LeaseExpired
<1>3. [Released(jb, "queued") EXCEPT !.attempt = @ + 1].phase = "queued"
  BY DEF Released
<1>4. ASSUME jb.phase = "claimed", NEW r, NEW e, NEW n
      PROVE  JobClaimed(LeaseExpired(jb, jb.leaseEpoch), r, e, n) =
               [phase |-> "claimed", holder |-> r, leaseEpoch |-> e,
                lease |-> LeaseSeconds, attempt |-> n]
  BY <1>0, <1>2, <1>3, <1>4 DEF JobClaimed, Sticky
<1>5. ASSUME jb.phase = "claimed", NEW r, NEW e
      PROVE  LeaseRenewed(jb, r, e) \in {jb, [jb EXCEPT !.lease = LeaseSeconds]}
  BY <1>0, <1>5 DEF LeaseRenewed, Sticky
<1>6. ASSUME jb.phase \notin JobTerminal, NEW phase
      PROVE  JobFinished(jb, phase) = Released(jb, phase)
  BY <1>6 DEF JobFinished, Sticky
<1>7. ASSUME jb.phase = "claimed"
      PROVE  Swept(jb) \in {Released(jb, "timed_out"),
                            [Released(jb, "queued") EXCEPT !.attempt = @ + 1]}
  BY <1>0, <1>2, <1>6, <1>7 DEF Swept
<1> QED BY <1>1, <1>4, <1>5, <1>6, <1>7

\* The steps that change a job, as the job's next state: everything that the
\* invariant's proofs need to know of an action's effect on it.
Stays(k)     == job'[k] = job[k]
Ages(k)      == \E n \in 0 .. LeaseSeconds : job'[k] = [job[k] EXCEPT !.lease = n]
Taken(k, r, n) ==
  job'[k] = [phase |-> "claimed", holder |-> r, leaseEpoch |-> n,
             lease |-> LeaseSeconds, attempt |-> n]
Ends(k, phase) == job'[k] = Released(job[k], phase)
Reopens(k)     == job'[k] = [Released(job[k], "queued") EXCEPT !.attempt = @ + 1]

LEMMA ClaimQueuedEffect ==
  ASSUME TypeOK, NEW j \in Jobs, NEW r \in Runners, ClaimQueued(j, r)
  PROVE  /\ Taken(j, r, job[j].attempt)
         /\ \A k \in Jobs \ {j} : Stays(k)
         /\ job[j].phase = "queued" /\ DepsSatisfied(job, j)
         /\ tickets' \in {tickets, tickets \cup {<< j, r, job[j].attempt >>}}
<1>1. job[j].phase = "queued" /\ DepsSatisfied(job, j)
  BY DEF ClaimQueued, Frontier
<1>2. job[j] \in JobState
  BY DEF TypeOK
<1>3. JobClaimed(job[j], r, job[j].attempt, job[j].attempt) =
        [phase |-> "claimed", holder |-> r, leaseEpoch |-> job[j].attempt,
         lease |-> LeaseSeconds, attempt |-> job[j].attempt]
  BY <1>1, <1>2, FoldEffects
<1> QED BY <1>1, <1>3 DEF ClaimQueued, Grant, Reply, DiesUnarmed, Taken, Stays, TypeOK

LEMMA ClaimTakeoverEffect ==
  ASSUME TypeOK, NEW j \in Jobs, NEW r \in Runners, ClaimTakeover(j, r)
  PROVE  /\ Taken(j, r, job[j].attempt + 1)
         /\ \A k \in Jobs \ {j} : Stays(k)
         /\ job[j].phase = "claimed" /\ Lapsed(job[j])
         /\ tickets' \in {tickets, tickets \cup {<< j, r, job[j].attempt + 1 >>}}
<1>1. job[j].phase = "claimed" /\ Lapsed(job[j])
  BY DEF ClaimTakeover
<1>2. job[j] \in JobState
  BY DEF TypeOK
<1>3. JobClaimed(LeaseExpired(job[j], job[j].leaseEpoch), r,
                 job[j].attempt + 1, job[j].attempt + 1) =
        [phase |-> "claimed", holder |-> r, leaseEpoch |-> job[j].attempt + 1,
         lease |-> LeaseSeconds, attempt |-> job[j].attempt + 1]
  BY <1>1, <1>2, FoldEffects
<1> QED BY <1>1, <1>3 DEF ClaimTakeover, Grant, Reply, DiesUnarmed, Taken, Stays, TypeOK

LEMMA ClaimMemoizedEffect ==
  ASSUME TypeOK, NEW j \in Jobs, NEW r \in Runners, ClaimMemoized(j, r)
  PROVE  /\ Ends(j, "memoized")
         /\ \A k \in Jobs \ {j} : Stays(k)
         /\ job[j].phase = "queued" /\ DepsSatisfied(job, j)
<1>1. job[j].phase = "queued" /\ DepsSatisfied(job, j)
  BY DEF ClaimMemoized, Frontier
<1>2. job[j] \in JobState /\ job[j].phase \notin JobTerminal
  BY <1>1 DEF TypeOK, JobTerminal, JobSuccess, JobFailure
<1>3. JobFinished(job[j], "memoized") = Released(job[j], "memoized")
  BY <1>2, FoldEffects
<1> QED BY <1>1, <1>3 DEF ClaimMemoized, Ends, Stays, TypeOK

LEMMA HeartbeatEffect ==
  ASSUME TypeOK, NEW j \in Jobs, NEW r, NEW e, Heartbeat(j, r, e)
  PROVE  \A k \in Jobs : Ages(k)
<1>1. job[j].phase = "claimed" /\ job[j] \in JobState
  BY DEF Heartbeat, HoldsLease, TypeOK
<1>2. LeaseRenewed(job[j], r, e) \in {job[j], [job[j] EXCEPT !.lease = LeaseSeconds]}
  BY <1>1, FoldEffects
<1>3. \A k \in Jobs : job[k].lease \in 0 .. LeaseSeconds
                      /\ job[k] = [job[k] EXCEPT !.lease = job[k].lease]
  BY DEF TypeOK, JobState
<1>4. LeaseSeconds \in 0 .. LeaseSeconds
  OBVIOUS
<1>5. \A k \in Jobs : job'[k] \in {job[k], [job[k] EXCEPT !.lease = LeaseSeconds]}
  BY <1>2 DEF Heartbeat, TypeOK
<1> QED BY <1>3, <1>4, <1>5 DEF Ages

LEMMA CompleteEffect ==
  ASSUME TypeOK, NEW j \in Jobs, NEW r, NEW e, NEW o \in Outcomes, Complete(j, r, e, o)
  PROVE  /\ Ends(j, o)
         /\ \A k \in Jobs \ {j} : Stays(k)
         /\ job[j].phase = "claimed"
<1>1. job[j].phase = "claimed" /\ job[j] \in JobState
  BY DEF Complete, HoldsLease, TypeOK
<1>2. job[j].phase \notin JobTerminal
  BY <1>1 DEF JobTerminal, JobSuccess, JobFailure
<1>3. JobFinished(job[j], o) = Released(job[j], o)
  BY <1>1, <1>2, FoldEffects
<1> QED BY <1>1, <1>3 DEF Complete, Ends, Stays, TypeOK

LEMMA SweepEffect ==
  ASSUME TypeOK, Sweep
  PROVE  \A k \in Jobs :
           \/ k \notin SweepSet(job) /\ Stays(k)
           \/ /\ k \in SweepSet(job)
              /\ job[k].phase = "claimed"
              /\ SweepPhase(job[k]) = "timed_out" /\ Ends(k, "timed_out")
           \/ /\ k \in SweepSet(job)
              /\ job[k].phase = "claimed"
              /\ SweepPhase(job[k]) = "queued" /\ Reopens(k)
<1> SUFFICES ASSUME NEW k \in Jobs, k \in SweepSet(job)
             PROVE  /\ job[k].phase = "claimed"
                    /\ \/ SweepPhase(job[k]) = "timed_out" /\ Ends(k, "timed_out")
                       \/ SweepPhase(job[k]) = "queued" /\ Reopens(k)
  BY DEF Sweep, SweepJobs, Stays
<1>1. job[k].phase = "claimed" /\ job[k] \in JobState
  BY DEF SweepSet, TypeOK
<1>2. job'[k] = Swept(job[k])
  BY DEF Sweep, SweepJobs
<1>3. job[k].phase \notin JobTerminal
  BY <1>1 DEF JobTerminal, JobSuccess, JobFailure
<1>4. JobFinished(job[k], "timed_out") = Released(job[k], "timed_out")
  BY <1>1, <1>3, FoldEffects
<1>5. LeaseExpired(job[k], job[k].leaseEpoch)
        = [Released(job[k], "queued") EXCEPT !.attempt = @ + 1]
  BY <1>1 DEF LeaseExpired
<1>6. SweepPhase(job[k]) \in {"timed_out", "queued"}
  BY DEF SweepPhase
<1> QED BY <1>1, <1>2, <1>4, <1>5, <1>6 DEF Swept, Ends, Reopens

LEMMA CancelEffect ==
  ASSUME TypeOK, Cancel
  PROVE  \A k \in Jobs : \/ job[k].phase \in JobTerminal /\ Stays(k)
                         \/ job[k].phase \notin JobTerminal /\ Ends(k, "canceled")
BY DEF Cancel, RunCanceled, Sticky, Stays, Ends

LEMMA TickEffect ==
  ASSUME TypeOK, Tick
  PROVE  \A k \in Jobs : Ages(k)
<1> SUFFICES ASSUME NEW k \in Jobs PROVE Ages(k)
  OBVIOUS
<1>1. Down(job[k].lease) \in 0 .. LeaseSeconds
  BY DEF TypeOK, JobState, Down
<1>2. job'[k] = [job[k] EXCEPT !.lease = Down(job[k].lease)]
  BY DEF Tick
<1> QED BY <1>1, <1>2 DEF Ages

-----------------------------------------------------------------------------
(* The derived run phase and the signals.                                  *)

\* What each terminal run phase says of the jobs.
LEMMA PhaseMeaning ==
  ASSUME NEW jobs, NEW c \in BOOLEAN, NEW b \in BOOLEAN
  PROVE  LET phase == RunPhase(PhasesOf(jobs), c, b) IN
         /\ phase = "canceled" <=> c
         /\ phase = "failed" <=> ~c /\ \E j \in Jobs : jobs[j].phase \in JobFailure
         /\ phase = "succeeded" <=>
              ~c /\ Jobs # {} /\ \A j \in Jobs : jobs[j].phase \in JobSuccess
BY DEF RunPhase, PhasesOf, JobFailure, JobSuccess

\* A verb's signal is the one that the phases it writes call for.
LEMMA SignalMeaning ==
  ASSUME NEW jobs, NEW next, NEW overrides, NEW b \in BOOLEAN,
         \A j \in Jobs : next[j].phase =
           IF j \in DOMAIN overrides THEN overrides[j] ELSE jobs[j].phase,
         RunPhase(PhasesOf(jobs), FALSE, b) \notin RunTerminal
  PROVE  LET signal == TerminalSignal(jobs, FALSE, b, overrides) IN
         /\ RunPhase(PhasesOf(next), FALSE, TRUE) = "failed" => signal = << "RunFailed" >>
         /\ RunPhase(PhasesOf(next), FALSE, TRUE) = "succeeded" => signal = << "RunCompleted" >>
         /\ RunPhase(PhasesOf(next), FALSE, TRUE) \notin {"failed", "succeeded"} => signal = <<>>
<1> DEFINE after == [j \in Jobs |-> IF j \in DOMAIN overrides
                                      THEN overrides[j] ELSE jobs[j].phase]
<1>1. PhasesOf(next) = after
  BY DEF PhasesOf
<1> QED BY <1>1 DEF TerminalSignal

LEMMA NoSignalYet ==
  ASSUME NEW s \in Seq({"RunCompleted", "RunFailed", "RunCanceled"}),
         Len(s) <= 1,
         \A x \in {"RunCompleted", "RunFailed", "RunCanceled"} : s # << x >>
  PROVE  s = <<>>
<1>1. CASE Len(s) = 0
  BY <1>1
<1>2. CASE Len(s) = 1
  <2>1. s[1] \in {"RunCompleted", "RunFailed", "RunCanceled"}
    BY <1>2
  <2>2. s = << s[1] >>
    BY <1>2
  <2> QED BY <2>1, <2>2
<1>3. PICK n \in Nat : n = Len(s)
  BY LenProperties
<1>4. n = 0 \/ n = 1
  BY <1>3
<1> QED BY <1>1, <1>2, <1>3, <1>4

LEMMA EmptyConcat ==
  ASSUME NEW s
  PROVE  /\ s \in Seq({"RunCompleted", "RunFailed", "RunCanceled"}) => s \o <<>> = s
         /\ s \in {<<>>, << "RunCompleted" >>, << "RunFailed" >>} => <<>> \o s = s
OBVIOUS

\* A run that has not ended has no signal in its stream.
LEMMA QuietUntilTheEnd ==
  ASSUME TypeOK, SignalsMatchPhase, Phase \notin RunTerminal
  PROVE  signals = <<>>
<1>1. \A x \in {"RunCompleted", "RunFailed", "RunCanceled"} : signals # << x >>
  BY DEF SignalsMatchPhase, RunTerminal
<1> QED BY <1>1, NoSignalYet DEF TypeOK, SignalsMatchPhase

\* A step that takes no job in or out of success and failure leaves the phase.
LEMMA PhaseKept ==
  ASSUME created' = created, canceled' = canceled,
         \A j \in Jobs : /\ job'[j].phase \in JobFailure <=> job[j].phase \in JobFailure
                         /\ job'[j].phase \in JobSuccess <=> job[j].phase \in JobSuccess
  PROVE  Phase' = Phase
BY DEF Phase, RunPhase, PhasesOf

\* A step that writes phases and the signal they call for keeps the two in
\* agreement (Complete and the alarm's sweep).
LEMMA SignalledStep ==
  ASSUME TypeOK, SignalsMatchPhase, TypeOK', created, created' = created,
         canceled' = canceled, NEW overrides,
         ~canceled,
         \A j \in Jobs : job'[j].phase =
           IF j \in DOMAIN overrides THEN overrides[j] ELSE job[j].phase,
         \A j \in Jobs : job[j].phase \in JobSuccess => job'[j] = job[j],
         \A j \in Jobs : job[j].phase \in JobFailure => job'[j] = job[j],
         signals' = signals \o TerminalSignal(job, canceled, created, overrides)
  PROVE  SignalsMatchPhase'
<1> USE DEF TypeOK
<1>0. /\ "failed" \in RunTerminal /\ "succeeded" \in RunTerminal /\ "canceled" \in RunTerminal
  BY DEF RunTerminal
<1>1. CASE Phase \in RunTerminal
  <2>1. TerminalSignal(job, canceled, created, overrides) = <<>>
    BY <1>1 DEF TerminalSignal, Phase
  <2>2. signals' = signals
    BY <2>1, EmptyConcat
  <2>3. Phase' = Phase
    <3>1. CASE Phase = "failed"
      <4>1. PICK k \in Jobs : job[k].phase \in JobFailure
        BY <3>1, PhaseMeaning DEF Phase
      <4>2. job'[k].phase \in JobFailure
        BY <4>1
      <4> QED BY <3>1, <4>2, PhaseMeaning DEF Phase
    <3>2. CASE Phase = "succeeded"
      <4>1. Jobs # {} /\ \A k \in Jobs : job[k].phase \in JobSuccess
        BY <3>2, PhaseMeaning DEF Phase
      <4>2. \A k \in Jobs : job'[k].phase \in JobSuccess
        BY <4>1
      <4> QED BY <3>2, <4>1, <4>2, PhaseMeaning DEF Phase
    <3>3. Phase # "canceled"
      BY PhaseMeaning DEF Phase
    <3> QED BY <1>1, <3>1, <3>2, <3>3 DEF RunTerminal
  <2> QED BY <2>2, <2>3 DEF SignalsMatchPhase
<1>2. CASE Phase \notin RunTerminal
  <2>1. signals = <<>>
    BY <1>2, QuietUntilTheEnd
  <2>2. RunPhase(PhasesOf(job), FALSE, created) \notin RunTerminal
    BY <1>2 DEF Phase
  <2>3. Phase' = RunPhase(PhasesOf(job'), FALSE, TRUE)
    BY DEF Phase
  <2>4. signals' = TerminalSignal(job, FALSE, created, overrides)
    <3>1. TerminalSignal(job, FALSE, created, overrides)
            \in {<<>>, << "RunCompleted" >>, << "RunFailed" >>}
      BY SignalTypes
    <3>2. signals' = <<>> \o TerminalSignal(job, FALSE, created, overrides)
      BY <2>1
    <3> QED BY <3>1, <3>2, EmptyConcat
  <2>5. /\ Phase' = "failed" => signals' = << "RunFailed" >>
        /\ Phase' = "succeeded" => signals' = << "RunCompleted" >>
        /\ Phase' \notin {"failed", "succeeded"} => signals' = <<>>
    BY <2>2, <2>3, <2>4, SignalMeaning
  <2>6. Phase' # "canceled"
    BY PhaseMeaning DEF Phase
  <2>7. /\ \A x : << x >> # <<>> /\ Len(<< x >>) = 1
        /\ \A x, y : << x >> = << y >> => x = y
        /\ Len(<<>>) = 0
    OBVIOUS
  <2>8. Len(signals') <= 1
    <3>1. Len(signals') = 0 \/ Len(signals') = 1
      BY <2>5, <2>7, Zenon
    <3>2. \A n \in {0, 1} : n <= 1
      OBVIOUS
    <3> QED BY <3>1, <3>2, Zenon
  <2> QED BY <2>5, <2>6, <2>7, <2>8, Zenon DEF SignalsMatchPhase
<1> QED BY <1>1, <1>2

-----------------------------------------------------------------------------
(* The invariant holds initially and every action preserves it.            *)

\* What an effect leaves in the fields that the invariant reads.
LEMMA EffectFields ==
  ASSUME TypeOK, NEW k \in Jobs
  PROVE  /\ Ages(k) => /\ job'[k].phase = job[k].phase
                       /\ job'[k].holder = job[k].holder
                       /\ job'[k].leaseEpoch = job[k].leaseEpoch
                       /\ job'[k].attempt = job[k].attempt
         /\ \A r, n : Taken(k, r, n) => /\ job'[k].phase = "claimed"
                                        /\ job'[k].holder = r
                                        /\ job'[k].leaseEpoch = n
                                        /\ job'[k].attempt = n
         /\ \A phase : Ends(k, phase) => /\ job'[k].phase = phase
                                         /\ job'[k].holder = NoRunner
                                         /\ job'[k].leaseEpoch = 0
                                         /\ job'[k].attempt = job[k].attempt
         /\ Reopens(k) => /\ job'[k].phase = "queued"
                          /\ job'[k].holder = NoRunner
                          /\ job'[k].leaseEpoch = 0
                          /\ job'[k].attempt = job[k].attempt + 1
         /\ job[k].attempt \in Nat \ {0}
         /\ job[k].leaseEpoch \in Nat
<1>1. job[k] \in JobState
  BY DEF TypeOK
<1>2. job[k].attempt \in Nat \ {0} /\ job[k].leaseEpoch \in Nat
  BY <1>1 DEF JobState
<1>3. ASSUME Ages(k)
      PROVE  /\ job'[k].phase = job[k].phase /\ job'[k].holder = job[k].holder
             /\ job'[k].leaseEpoch = job[k].leaseEpoch
             /\ job'[k].attempt = job[k].attempt
  BY <1>1, <1>3 DEF JobState, Ages
<1>4. ASSUME NEW r, NEW n, Taken(k, r, n)
      PROVE  /\ job'[k].phase = "claimed" /\ job'[k].holder = r
             /\ job'[k].leaseEpoch = n /\ job'[k].attempt = n
  BY <1>4 DEF Taken
<1>5. ASSUME NEW phase, Ends(k, phase)
      PROVE  /\ job'[k].phase = phase /\ job'[k].holder = NoRunner
             /\ job'[k].leaseEpoch = 0 /\ job'[k].attempt = job[k].attempt
  BY <1>5 DEF Ends, Released
<1>6. ASSUME Reopens(k)
      PROVE  /\ job'[k].phase = "queued" /\ job'[k].holder = NoRunner
             /\ job'[k].leaseEpoch = 0 /\ job'[k].attempt = job[k].attempt + 1
  BY <1>6 DEF Reopens, Released
<1> QED BY <1>2, <1>3, <1>4, <1>5, <1>6

LEMMA PhaseSets ==
  /\ "queued" \notin JobTerminal /\ "claimed" \notin JobTerminal
  /\ JobSuccess \subseteq JobTerminal /\ JobFailure \subseteq JobTerminal
  /\ "canceled" \in JobTerminal /\ "canceled" \notin JobSuccess \cup JobFailure
  /\ "memoized" \in JobSuccess /\ "timed_out" \in JobFailure
  /\ JobSuccess \cap JobFailure = {}
  /\ Outcomes \subseteq JobSuccess \cup JobFailure
BY DEF JobTerminal, JobSuccess, JobFailure, Outcomes

\* Dependencies stay satisfied as long as no success is taken back.
LEMMA DepsKept ==
  ASSUME \A k \in Jobs : job[k].phase \in JobSuccess => job'[k].phase \in JobSuccess,
         NEW j \in Jobs, DepsSatisfied(job, j)
  PROVE  DepsSatisfied(job', j)
BY DEF DepsSatisfied

\* A job handed to a runner in a new turn, with or without its reply getting
\* through, keeps the tickets fenced.
LEMMA TicketsGrow ==
  ASSUME TypeOK, TicketsFence, NEW j \in Jobs, NEW r \in Runners, NEW n \in Nat,
         job'[j].phase = "claimed", job'[j].holder = r, job'[j].attempt = n,
         \A t \in tickets : t[1] = j => t[3] < n,
         \A k \in Jobs \ {j} : job'[k] = job[k],
         tickets' \in {tickets, tickets \cup {<< j, r, n >>}}
  PROVE  TicketsFence'
<1> DEFINE new == << j, r, n >>
<1>1. new[1] = j /\ new[2] = r /\ new[3] = n
  OBVIOUS
<1>2. \A t \in tickets : t[1] \in Jobs /\ t[3] \in Nat
  BY DEF TypeOK
<1>3. ASSUME NEW t \in tickets'
      PROVE  /\ t[3] <= job'[t[1]].attempt
             /\ job'[t[1]].phase = "queued" => t[3] < job'[t[1]].attempt
             /\ job'[t[1]].phase = "claimed" /\ t[3] = job'[t[1]].attempt
                  => t[2] = job'[t[1]].holder
  <2>1. CASE t \in tickets /\ t[1] # j
    <3>1. job'[t[1]] = job[t[1]]
      BY <1>2, <2>1
    <3> QED BY <2>1, <3>1 DEF TicketsFence
  <2>2. CASE t \in tickets /\ t[1] = j
    <3>1. t[3] < n /\ t[3] \in Nat
      BY <1>2, <2>2
    <3> QED BY <2>2, <3>1
  <2>3. CASE t = new
    BY <1>1, <2>3
  <2> QED BY <2>1, <2>2, <2>3
<1>4. ASSUME NEW s \in tickets', NEW t \in tickets', s[1] = t[1], s[3] = t[3]
      PROVE  s[2] = t[2]
  <2>1. CASE s \in tickets /\ t \in tickets
    BY <1>4, <2>1 DEF TicketsFence
  <2>2. ASSUME NEW u \in tickets, u[1] = j, u[3] = n PROVE FALSE
    BY <1>2, <2>2
  <2>3. CASE s = new /\ t = new
    BY <2>3
  <2>4. CASE s = new /\ t \in tickets
    BY <1>1, <1>4, <2>2, <2>4
  <2>5. CASE s \in tickets /\ t = new
    BY <1>1, <1>4, <2>2, <2>5
  <2> QED BY <2>1, <2>3, <2>4, <2>5
<1> QED BY <1>3, <1>4 DEF TicketsFence

LEMMA InvInit == Init => IInv
<1> SUFFICES ASSUME Init PROVE IInv
  OBVIOUS
<1> USE DEF Init, FreshJob
<1>1. TypeOK
  BY TypeInit
<1>2. HeldShape /\ Untouched /\ CancelIsWhole /\ TicketsFence /\ ResultIsLast
  BY DEF HeldShape, Untouched, CancelIsWhole, TicketsFence, ResultIsLast
<1>3. StartedAfterDeps /\ AlarmWatches
  BY PhaseSets DEF StartedAfterDeps, AlarmWatches
<1>4. SignalsMatchPhase
  <2>1. Phase \notin {"failed", "canceled"}
    BY PhaseMeaning, PhaseSets DEF Phase
  <2>2. Len(signals) = 0 /\ \A x : signals # << x >>
    OBVIOUS
  <2> QED BY <2>1, <2>2 DEF SignalsMatchPhase
<1> QED BY <1>1, <1>2, <1>3, <1>4 DEF IInv

\* A step that cancels nothing keeps CancelIsWhole.
LEMMA CancelKept ==
  ASSUME CancelIsWhole, canceled' = canceled,
         \A k \in Jobs : \/ job'[k].phase = job[k].phase
                        \/ /\ job[k].phase \notin JobTerminal
                           /\ job'[k].phase # "canceled"
  PROVE  CancelIsWhole'
<1>1. \A k \in Jobs : job'[k].phase = "canceled" <=> job[k].phase = "canceled"
  BY PhaseSets
<1> QED BY <1>1 DEF CancelIsWhole

LEMMA InvInitRun ==
  ASSUME IInv, TypeOK', InitRun
  PROVE  IInv'
<1> USE DEF InitRun, IInv
<1>1. HeldShape' /\ Untouched' /\ CancelIsWhole' /\ ResultIsLast'
  BY DEF HeldShape, Untouched, CancelIsWhole, ResultIsLast
<1>2. TicketsFence'
  BY DEF TicketsFence, DiesUnarmed
<1>3. StartedAfterDeps'
  BY DEF StartedAfterDeps, DepsSatisfied
<1>4. AlarmWatches'
  BY Arming DEF AlarmWatches
<1>5. SignalsMatchPhase'
  <2>1. Phase' \in {"failed", "canceled"} <=> Phase \in {"failed", "canceled"}
    BY PhaseMeaning DEF Phase, TypeOK
  <2>2. Phase' = "failed" <=> Phase = "failed"
    BY PhaseMeaning DEF Phase, TypeOK
  <2>3. Phase' = "succeeded" <=> Phase = "succeeded"
    BY PhaseMeaning DEF Phase, TypeOK
  <2> QED BY <2>1, <2>2, <2>3 DEF SignalsMatchPhase
<1> QED BY <1>1, <1>2, <1>3, <1>4, <1>5

LEMMA InvClaimQueued ==
  ASSUME IInv, TypeOK', NEW j \in Jobs, NEW r \in Runners, ClaimQueued(j, r)
  PROVE  IInv'
<1> USE DEF IInv
<1>1. /\ Taken(j, r, job[j].attempt)
      /\ \A k \in Jobs \ {j} : Stays(k)
      /\ job[j].phase = "queued" /\ DepsSatisfied(job, j)
      /\ tickets' \in {tickets, tickets \cup {<< j, r, job[j].attempt >>}}
  BY ClaimQueuedEffect
<1>2. /\ job'[j].phase = "claimed" /\ job'[j].holder = r
      /\ job'[j].leaseEpoch = job[j].attempt /\ job'[j].attempt = job[j].attempt
      /\ \A k \in Jobs \ {j} : job'[k] = job[k]
  BY <1>1, EffectFields DEF Stays
<1>3. created /\ created' = created /\ canceled' = canceled
        /\ signals' = signals /\ resultEpoch' = resultEpoch
  BY DEF ClaimQueued, Grant
<1>4. HeldShape'
  BY <1>2 DEF HeldShape
<1>5. Untouched' /\ CancelIsWhole'
  <2>1. CancelIsWhole'
    BY <1>1, <1>2, <1>3, PhaseSets, CancelKept
  <2> QED BY <1>1, <1>3, <2>1 DEF Untouched
<1>6. TicketsFence'
  <2>1. \A t \in tickets : t[1] = j => t[3] < job[j].attempt
    BY <1>1 DEF TicketsFence
  <2> QED BY <1>1, <1>2, <2>1, TicketsGrow, EffectFields
<1>7. ResultIsLast'
  BY <1>1, <1>2, <1>3, PhaseSets DEF ResultIsLast, TypeOK
<1>8. StartedAfterDeps'
  <2>1. \A k \in Jobs : job[k].phase \in JobSuccess => job'[k].phase \in JobSuccess
    BY <1>1, <1>2, PhaseSets
  <2> QED BY <1>1, <1>2, <2>1, DepsKept DEF StartedAfterDeps
<1>9. AlarmWatches'
  BY Arming DEF AlarmWatches, ClaimQueued, Grant
<1>10. SignalsMatchPhase'
  <2>1. Phase' = Phase
    BY <1>1, <1>2, <1>3, PhaseKept, PhaseSets
  <2> QED BY <1>3, <2>1 DEF SignalsMatchPhase
<1> QED BY <1>4, <1>5, <1>6, <1>7, <1>8, <1>9, <1>10

LEMMA InvClaimTakeover ==
  ASSUME IInv, TypeOK', NEW j \in Jobs, NEW r \in Runners, ClaimTakeover(j, r)
  PROVE  IInv'
<1> USE DEF IInv
<1>1. /\ Taken(j, r, job[j].attempt + 1)
      /\ \A k \in Jobs \ {j} : Stays(k)
      /\ job[j].phase = "claimed"
      /\ tickets' \in {tickets, tickets \cup {<< j, r, job[j].attempt + 1 >>}}
  BY ClaimTakeoverEffect
<1>2. /\ job'[j].phase = "claimed" /\ job'[j].holder = r
      /\ job'[j].leaseEpoch = job[j].attempt + 1
      /\ job'[j].attempt = job[j].attempt + 1
      /\ job[j].attempt \in Nat
      /\ \A k \in Jobs \ {j} : job'[k] = job[k]
  BY <1>1, EffectFields DEF Stays
<1>3. created /\ created' = created /\ canceled' = canceled
        /\ signals' = signals /\ resultEpoch' = resultEpoch
  BY DEF ClaimTakeover, Grant
<1>4. HeldShape'
  BY <1>2 DEF HeldShape
<1>5. Untouched' /\ CancelIsWhole'
  <2>1. CancelIsWhole'
    BY <1>1, <1>2, <1>3, PhaseSets, CancelKept
  <2> QED BY <1>1, <1>3, <2>1 DEF Untouched
<1>6. TicketsFence'
  <2>1. \A t \in tickets : t[1] = j => t[3] < job[j].attempt + 1
    BY <1>2 DEF TicketsFence, TypeOK
  <2>2. job[j].attempt + 1 \in Nat
    BY <1>2
  <2> QED BY <1>1, <1>2, <2>1, <2>2, TicketsGrow
<1>7. ResultIsLast'
  BY <1>1, <1>2, <1>3, PhaseSets DEF ResultIsLast, TypeOK
<1>8. StartedAfterDeps'
  <2>1. \A k \in Jobs : job[k].phase \in JobSuccess => job'[k].phase \in JobSuccess
    BY <1>1, <1>2, PhaseSets
  <2>2. DepsSatisfied(job, j)
    BY DEF ClaimTakeover
  <2> QED BY <1>1, <1>2, <2>1, <2>2, DepsKept DEF StartedAfterDeps
<1>9. AlarmWatches'
  BY Arming DEF AlarmWatches, ClaimTakeover, Grant
<1>10. SignalsMatchPhase'
  <2>1. Phase' = Phase
    BY <1>1, <1>2, <1>3, PhaseKept, PhaseSets
  <2> QED BY <1>3, <2>1 DEF SignalsMatchPhase
<1> QED BY <1>4, <1>5, <1>6, <1>7, <1>8, <1>9, <1>10

LEMMA InvClaimMemoized ==
  ASSUME IInv, TypeOK', NEW j \in Jobs, NEW r \in Runners, ClaimMemoized(j, r)
  PROVE  IInv'
<1> USE DEF IInv
<1>1. /\ Ends(j, "memoized")
      /\ \A k \in Jobs \ {j} : Stays(k)
      /\ job[j].phase = "queued" /\ DepsSatisfied(job, j)
  BY ClaimMemoizedEffect
<1>2. /\ job'[j].phase = "memoized" /\ job'[j].holder = NoRunner
      /\ job'[j].leaseEpoch = 0 /\ job'[j].attempt = job[j].attempt
      /\ \A k \in Jobs \ {j} : job'[k] = job[k]
  BY <1>1, EffectFields DEF Stays
<1>3. created /\ created' = created /\ canceled' = canceled
        /\ signals' = signals /\ resultEpoch' = resultEpoch /\ tickets' = tickets
  BY DEF ClaimMemoized, DiesUnarmed
<1>4. HeldShape'
  BY <1>2, PhaseSets DEF HeldShape
<1>5. Untouched' /\ CancelIsWhole'
  <2>1. CancelIsWhole'
    BY <1>1, <1>2, <1>3, PhaseSets, CancelKept
  <2> QED BY <1>1, <1>3, <2>1 DEF Untouched
<1>6. TicketsFence'
  <2>1. \A t \in tickets : t[1] \in Jobs
    BY DEF TypeOK
  <2>2. "memoized" # "queued" /\ "memoized" # "claimed"
    OBVIOUS
  <2> QED BY <1>2, <1>3, <2>1, <2>2 DEF TicketsFence
<1>7. ResultIsLast'
  BY <1>1, <1>2, <1>3, PhaseSets DEF ResultIsLast, TypeOK
<1>8. StartedAfterDeps'
  <2>1. \A k \in Jobs : job[k].phase \in JobSuccess => job'[k].phase \in JobSuccess
    BY <1>1, <1>2, PhaseSets
  <2> QED BY <1>1, <1>2, <2>1, DepsKept DEF StartedAfterDeps
<1>9. AlarmWatches'
  BY Arming DEF AlarmWatches, ClaimMemoized
<1>10. SignalsMatchPhase'
  <2>1. ~canceled /\ ~canceled'
    BY <1>1, <1>3, PhaseSets DEF CancelIsWhole
  <2>2. Phase # "succeeded"
    BY <1>1, PhaseMeaning, PhaseSets DEF Phase, TypeOK
  <2>3. Phase' = "failed" <=> Phase = "failed"
    <3>1. \A k \in Jobs : job'[k].phase \in JobFailure <=> job[k].phase \in JobFailure
      BY <1>1, <1>2, PhaseSets
    <3> QED BY <2>1, <3>1, PhaseMeaning DEF Phase, TypeOK
  <2>4. Phase # "canceled" /\ Phase' # "canceled"
    BY <2>1, PhaseMeaning DEF Phase, TypeOK
  <2> QED BY <1>3, <2>2, <2>3, <2>4 DEF SignalsMatchPhase
<1> QED BY <1>4, <1>5, <1>6, <1>7, <1>8, <1>9, <1>10

\* Reclaim and Heartbeat: the job stays with its holder, in its turn.
LEMMA InvReclaim ==
  ASSUME IInv, TypeOK', NEW j \in Jobs, NEW r \in Runners, Reclaim(j, r)
  PROVE  IInv'
<1> USE DEF IInv, Reclaim, shard
<1>1. HeldShape' /\ CancelIsWhole' /\ ResultIsLast' /\ StartedAfterDeps' /\ AlarmWatches'
  BY DEF HeldShape, CancelIsWhole, ResultIsLast, StartedAfterDeps, AlarmWatches
<1>2. Untouched'
  BY DEF Untouched
<1>3. TicketsFence'
  <2>1. job[j].leaseEpoch = job[j].attempt /\ job[j].attempt \in Nat
    BY EffectFields DEF HeldShape
  <2>2. tickets' \in {tickets, tickets \cup {<< j, r, job[j].attempt >>}}
    BY <2>1 DEF Reply
  <2> DEFINE new == << j, r, job[j].attempt >>
  <2>3. new[1] = j /\ new[2] = r /\ new[3] = job[j].attempt
    OBVIOUS
  <2>4. ASSUME NEW t \in tickets'
        PROVE  /\ t[3] <= job[t[1]].attempt
               /\ job[t[1]].phase = "queued" => t[3] < job[t[1]].attempt
               /\ job[t[1]].phase = "claimed" /\ t[3] = job[t[1]].attempt
                    => t[2] = job[t[1]].holder
    BY <2>1, <2>2, <2>3 DEF TicketsFence
  <2>5. ASSUME NEW t \in tickets, t[1] = j, t[3] = job[j].attempt PROVE t[2] = r
    BY <2>5 DEF TicketsFence
  <2>6. ASSUME NEW s \in tickets', NEW t \in tickets', s[1] = t[1], s[3] = t[3]
        PROVE  s[2] = t[2]
    <3>1. CASE s \in tickets /\ t \in tickets
      BY <2>6, <3>1 DEF TicketsFence
    <3>2. CASE s = new /\ t \in tickets
      BY <2>3, <2>5, <2>6, <3>2
    <3>3. CASE s \in tickets /\ t = new
      BY <2>3, <2>5, <2>6, <3>3
    <3>4. CASE s = new /\ t = new
      BY <3>4
    <3> QED BY <2>2, <3>1, <3>2, <3>3, <3>4
  <2> QED BY <2>4, <2>6 DEF TicketsFence
<1>4. SignalsMatchPhase'
  BY DEF SignalsMatchPhase, Phase
<1> QED BY <1>1, <1>2, <1>3, <1>4

\* Nothing but lease times, the alarm's countdown and the live runners changed
\* (Heartbeat, Tick, RunnerDies and stuttering).
LEMMA InvAging ==
  ASSUME IInv, TypeOK', \A k \in Jobs : Ages(k),
         UNCHANGED << created, canceled, signals, resultEpoch, cut, tickets >>,
         alarm = NoAlarm <=> alarm' = NoAlarm
  PROVE  IInv'
<1> USE DEF IInv
<1>1. \A k \in Jobs : /\ job'[k].phase = job[k].phase
                      /\ job'[k].holder = job[k].holder
                      /\ job'[k].leaseEpoch = job[k].leaseEpoch
                      /\ job'[k].attempt = job[k].attempt
  BY EffectFields
<1>2. HeldShape' /\ CancelIsWhole' /\ ResultIsLast'
  BY <1>1 DEF HeldShape, CancelIsWhole, ResultIsLast
<1>3. Untouched'
  BY <1>1 DEF Untouched
<1>4. TicketsFence'
  <2>1. \A t \in tickets : t[1] \in Jobs
    BY DEF TypeOK
  <2> QED BY <1>1, <2>1 DEF TicketsFence
<1>5. StartedAfterDeps'
  <2>1. \A k \in Jobs : DepsSatisfied(job, k) => DepsSatisfied(job', k)
    BY <1>1, DepsKept
  <2> QED BY <1>1, <2>1 DEF StartedAfterDeps
<1>6. AlarmWatches'
  BY <1>1 DEF AlarmWatches, AlarmActive
<1>7. SignalsMatchPhase'
  <2>1. Phase' = Phase
    BY <1>1, PhaseKept
  <2> QED BY <2>1 DEF SignalsMatchPhase
<1> QED BY <1>2, <1>3, <1>4, <1>5, <1>6, <1>7

LEMMA InvComplete ==
  ASSUME IInv, TypeOK', NEW j \in Jobs, NEW r \in Runners, NEW e \in Nat,
         NEW o \in Outcomes, Complete(j, r, e, o)
  PROVE  IInv'
<1> USE DEF IInv
<1>1. /\ Ends(j, o)
      /\ \A k \in Jobs \ {j} : Stays(k)
      /\ job[j].phase = "claimed"
  BY CompleteEffect
<1>2. /\ job'[j].phase = o /\ job'[j].holder = NoRunner
      /\ job'[j].leaseEpoch = 0 /\ job'[j].attempt = job[j].attempt
      /\ \A k \in Jobs \ {j} : job'[k] = job[k]
  BY <1>1, EffectFields DEF Stays
<1>3. created /\ created' = created /\ canceled' = canceled
        /\ alarm' = alarm /\ cut' = cut /\ tickets' = tickets
  BY DEF Complete, HoldsLease, runners
<1>4. o \in JobTerminal /\ o # "queued" /\ o # "claimed"
  BY PhaseSets
<1>5. HeldShape'
  BY <1>2, <1>4 DEF HeldShape
<1>6. Untouched' /\ CancelIsWhole'
  <2>1. canceled' = canceled /\ o # "canceled"
    BY <1>3, PhaseSets DEF Complete
  <2>2. CancelIsWhole'
    BY <1>1, <1>2, <2>1, PhaseSets, CancelKept
  <2> QED BY <1>1, <1>3, <2>2 DEF Untouched
<1>7. TicketsFence'
  <2>1. \A t \in tickets : t[1] \in Jobs
    BY DEF TypeOK
  <2> QED BY <1>2, <1>3, <1>4, <2>1 DEF TicketsFence
<1>8. ResultIsLast'
  <2>1. e = job[j].attempt
    BY <1>1 DEF Complete, HoldsLease, HeldShape
  <2>2. resultEpoch' = [resultEpoch EXCEPT ![j] = e]
    BY DEF Complete
  <2> QED BY <1>2, <1>4, <2>1, <2>2 DEF ResultIsLast, TypeOK
<1>9. StartedAfterDeps'
  <2>1. \A k \in Jobs : job[k].phase \in JobSuccess => job'[k].phase \in JobSuccess
    BY <1>1, <1>2, PhaseSets
  <2>2. DepsSatisfied(job, j)
    BY <1>1 DEF StartedAfterDeps
  <2> QED BY <1>2, <2>1, <2>2, DepsKept DEF StartedAfterDeps
<1>10. AlarmWatches'
  BY <1>1, <1>2, <1>3 DEF AlarmWatches, AlarmActive
<1>11. SignalsMatchPhase'
  <2> DEFINE overrides == [k \in {j} |-> o]
  <2>1. \A k \in Jobs : job'[k].phase =
          IF k \in DOMAIN overrides THEN overrides[k] ELSE job[k].phase
    BY <1>2
  <2>2. \A k \in Jobs : job[k].phase \in JobSuccess \cup JobFailure => job'[k] = job[k]
    BY <1>1, <1>2, PhaseSets
  <2>3. ~canceled
    BY <1>1, PhaseSets DEF CancelIsWhole
  <2>4. signals' = signals \o TerminalSignal(job, canceled, created, overrides)
    BY DEF Complete
  <2> QED BY <1>3, <2>1, <2>2, <2>3, <2>4, SignalledStep
<1> QED BY <1>5, <1>6, <1>7, <1>8, <1>9, <1>10, <1>11

LEMMA InvCancel ==
  ASSUME IInv, TypeOK', Cancel
  PROVE  IInv'
<1> USE DEF IInv
<1>1. \A k \in Jobs : \/ job[k].phase \in JobTerminal /\ Stays(k)
                      \/ job[k].phase \notin JobTerminal /\ Ends(k, "canceled")
  BY CancelEffect
<1>2. \A k \in Jobs :
        \/ job[k].phase \in JobTerminal /\ job'[k] = job[k]
        \/ /\ job[k].phase \notin JobTerminal
           /\ job'[k].phase = "canceled" /\ job'[k].holder = NoRunner
           /\ job'[k].leaseEpoch = 0 /\ job'[k].attempt = job[k].attempt
  BY <1>1, EffectFields DEF Stays
<1>3. created /\ created' = created /\ canceled' = TRUE
        /\ resultEpoch' = resultEpoch /\ tickets' = tickets
        /\ signals' = Append(signals, "RunCanceled") /\ Phase \notin RunTerminal
        /\ alarm' = alarm /\ cut' = cut
  BY DEF Cancel, runners
<1>4. \A k \in Jobs : job'[k].phase \in JobTerminal
  BY <1>2, PhaseSets
<1>5. HeldShape'
  BY <1>2, <1>4, PhaseSets DEF HeldShape
<1>6. Untouched' /\ CancelIsWhole' /\ AlarmWatches'
  <2>1. ASSUME Jobs # {} PROVE \E k \in Jobs : job'[k].phase = "canceled"
    <3>1. /\ ~canceled
          /\ \E k \in Jobs : job[k].phase \notin JobSuccess
          /\ \A k \in Jobs : job[k].phase \notin JobFailure
      BY <1>3, <2>1, PhaseMeaning DEF Phase, RunTerminal, TypeOK
    <3>2. PICK k \in Jobs : job[k].phase \notin JobSuccess
      BY <3>1
    <3>3. job[k].phase \notin JobTerminal
      BY <2>1, <3>1, <3>2 DEF CancelIsWhole, JobTerminal
    <3> QED BY <1>2, <3>3
  <2>2. CancelIsWhole'
    BY <1>3, <1>4, <2>1 DEF CancelIsWhole
  <2> QED BY <1>3, <1>4, <2>2, PhaseSets DEF Untouched, AlarmWatches, AlarmActive
<1>7. TicketsFence'
  <2>1. \A t \in tickets : t[1] \in Jobs
    BY DEF TypeOK
  <2>2. \A k \in Jobs : job'[k].attempt = job[k].attempt
    BY <1>2
  <2> QED BY <1>3, <1>4, <2>1, <2>2, PhaseSets DEF TicketsFence
<1>8. ResultIsLast'
  BY <1>2, <1>3, <1>4 DEF ResultIsLast
<1>9. StartedAfterDeps'
  <2>1. \A k \in Jobs : job[k].phase \in JobSuccess => job'[k].phase \in JobSuccess
    BY <1>2, PhaseSets
  <2>2. \A k \in Jobs : job'[k].phase \in {"claimed"} \cup JobSuccess \cup JobFailure
          => job'[k] = job[k]
    BY <1>2, PhaseSets
  <2>3. \A k \in Jobs : job'[k].attempt = job[k].attempt
    BY <1>2
  <2> QED BY <2>1, <2>2, <2>3, DepsKept DEF StartedAfterDeps
<1>10. SignalsMatchPhase'
  <2>1. signals = <<>>
    BY <1>3, QuietUntilTheEnd
  <2>2. signals' = << "RunCanceled" >>
    BY <1>3, <2>1
  <2>3. Phase' = "canceled"
    BY <1>3 DEF Phase, RunPhase
  <2>4. << "RunCanceled" >> # << "RunFailed" >> /\ << "RunCanceled" >> # << "RunCompleted" >>
        /\ Len(<< "RunCanceled" >>) <= 1
    OBVIOUS
  <2> QED BY <2>2, <2>3, <2>4, Zenon DEF SignalsMatchPhase
<1> QED BY <1>5, <1>6, <1>7, <1>8, <1>9, <1>10

\* AlarmFires and AlarmInterrupted, which differ in what they leave of the
\* alarm.
LEMMA InvSweep ==
  ASSUME IInv, TypeOK', Sweep,
         AlarmActive(job') /\ ~canceled => alarm' # NoAlarm
  PROVE  IInv'
<1> USE DEF IInv
<1>1. \A k \in Jobs :
        \/ k \notin SweepSet(job) /\ job'[k] = job[k]
        \/ /\ k \in SweepSet(job)
           /\ job[k].phase = "claimed" /\ SweepPhase(job[k]) = "timed_out"
           /\ job'[k].phase = "timed_out" /\ job'[k].holder = NoRunner
           /\ job'[k].leaseEpoch = 0 /\ job'[k].attempt = job[k].attempt
        \/ /\ k \in SweepSet(job)
           /\ job[k].phase = "claimed" /\ SweepPhase(job[k]) = "queued"
           /\ job'[k].phase = "queued" /\ job'[k].holder = NoRunner
           /\ job'[k].leaseEpoch = 0 /\ job'[k].attempt = job[k].attempt + 1
  BY SweepEffect, EffectFields DEF Stays
<1>2. created' = created /\ canceled' = canceled /\ tickets' = tickets
  BY DEF Sweep, runners
<1>3. \A k \in Jobs : job[k].attempt \in Nat \ {0} /\ job[k].leaseEpoch \in Nat
  BY EffectFields
<1>4. HeldShape'
  BY <1>1, PhaseSets DEF HeldShape
<1>5. Untouched' /\ CancelIsWhole'
  <2>1. CancelIsWhole'
    BY <1>1, <1>2, PhaseSets, CancelKept
  <2> QED BY <1>1, <1>2, <2>1 DEF Untouched
<1>6. TicketsFence'
  <2>1. \A t \in tickets : t[1] \in Jobs /\ t[3] \in Nat
    BY DEF TypeOK
  <2> QED BY <1>1, <1>2, <1>3, <2>1 DEF TicketsFence
<1>7. ResultIsLast'
  <2>1. \A k \in Jobs : resultEpoch'[k] =
          IF job[k].phase = "claimed" /\ job'[k].phase = "timed_out"
            THEN job[k].leaseEpoch ELSE resultEpoch[k]
    BY DEF Sweep
  <2> QED BY <1>1, <1>3, <2>1, PhaseSets DEF ResultIsLast, HeldShape
<1>8. StartedAfterDeps'
  <2>1. \A k \in Jobs : job[k].phase \in JobSuccess => job'[k].phase \in JobSuccess
    BY <1>1, PhaseSets
  <2>2. \A k \in Jobs : job'[k] = job[k] \/ DepsSatisfied(job, k)
    BY <1>1 DEF StartedAfterDeps
  <2> QED BY <2>1, <2>2, DepsKept DEF StartedAfterDeps
<1>9. AlarmWatches'
  <2>1. canceled => ~AlarmActive(job')
    BY <1>1, PhaseSets DEF CancelIsWhole, AlarmActive
  <2>2. cut' = 0
    BY DEF Sweep, AlarmWatches, NoAlarm
  <2> QED BY <2>1, <2>2 DEF AlarmWatches
<1>10. SignalsMatchPhase'
  <2> DEFINE overrides == SweepOverrides(job)
  <2>1. CASE SweepSet(job) = {}
    <3>1. \A k \in Jobs : job'[k] = job[k]
      BY <1>1, <2>1
    <3>2. Phase' = Phase
      BY <1>2, <3>1, PhaseKept
    <3>3. signals' = signals
      <4>1. CASE Phase \in RunTerminal
        <5>1. TerminalSignal(job, canceled, created, overrides) = <<>>
          BY <4>1 DEF TerminalSignal, Phase
        <5> QED BY <5>1, EmptyConcat DEF Sweep, TypeOK
      <4>2. CASE Phase \notin RunTerminal
        <5>1. ~canceled
          BY <4>2, PhaseMeaning DEF Phase, RunTerminal, TypeOK
        <5>2. [j \in Jobs |-> IF j \in DOMAIN overrides
                                THEN overrides[j] ELSE job[j].phase] = PhasesOf(job)
          BY <2>1 DEF SweepOverrides, PhasesOf
        <5>3. RunPhase(PhasesOf(job), FALSE, TRUE) \notin {"succeeded", "failed"}
          BY <4>2, <5>1, PhaseMeaning DEF Phase, RunTerminal, TypeOK
        <5>4. TerminalSignal(job, canceled, created, overrides) = <<>>
          BY <5>2, <5>3 DEF TerminalSignal
        <5> QED BY <5>4, EmptyConcat DEF Sweep, TypeOK
      <4> QED BY <4>1, <4>2
    <3> QED BY <3>2, <3>3 DEF SignalsMatchPhase
  <2>2. CASE SweepSet(job) # {}
    <3>1. PICK k \in Jobs : job[k].phase = "claimed"
      BY <2>2 DEF SweepSet
    <3>2. created /\ ~canceled
      BY <3>1, PhaseSets DEF Untouched, CancelIsWhole
    <3>3. \A i \in Jobs : job'[i].phase =
            IF i \in DOMAIN overrides THEN overrides[i] ELSE job[i].phase
      BY <1>1 DEF SweepOverrides
    <3>4. \A i \in Jobs : job[i].phase \in JobSuccess \cup JobFailure => job'[i] = job[i]
      BY <1>1, PhaseSets
    <3>5. signals' = signals \o TerminalSignal(job, canceled, created, overrides)
      BY DEF Sweep
    <3> QED BY <1>2, <3>2, <3>3, <3>4, <3>5, SignalledStep
  <2> QED BY <2>1, <2>2
<1> QED BY <1>4, <1>5, <1>6, <1>7, <1>8, <1>9, <1>10

LEMMA InvNext == IInv /\ [Next]_vars => IInv'
<1> SUFFICES ASSUME IInv, [Next]_vars PROVE IInv'
  OBVIOUS
<1>0. TypeOK'
  BY TypeNext DEF IInv
<1>1. CASE InitRun
  BY <1>0, <1>1, InvInitRun
<1>2. ASSUME NEW j \in Jobs, NEW r \in Runners, Claim(j, r) PROVE IInv'
  BY <1>0, <1>2, InvClaimQueued, InvClaimTakeover, InvClaimMemoized, InvReclaim
     DEF Claim
<1>3. ASSUME NEW t \in tickets, Report(t[1], t[2], t[3]) PROVE IInv'
  <2>1. t[1] \in Jobs /\ t[2] \in Runners /\ t[3] \in Nat
    BY DEF IInv, TypeOK
  <2>2. CASE Heartbeat(t[1], t[2], t[3])
    <3>1. \A k \in Jobs : Ages(k)
      BY <2>1, <2>2, HeartbeatEffect DEF IInv
    <3> QED BY <1>0, <2>2, <3>1, InvAging DEF Heartbeat, runners
  <2>3. ASSUME NEW o \in Outcomes, Complete(t[1], t[2], t[3], o) PROVE IInv'
    BY <1>0, <2>1, <2>3, InvComplete
  <2> QED BY <1>3, <2>2, <2>3 DEF Report
<1>4. CASE Cancel
  BY <1>0, <1>4, InvCancel
<1>5. CASE AlarmFires
  <2>1. AlarmActive(job') /\ ~canceled => alarm' # NoAlarm
    BY <1>5 DEF AlarmFires, NoAlarm
  <2> QED BY <1>0, <1>5, <2>1, InvSweep DEF AlarmFires
<1>6. CASE AlarmInterrupted
  <2>1. alarm' # NoAlarm
    BY <1>6 DEF AlarmInterrupted, Sweep, NoAlarm
  <2> QED BY <1>0, <1>6, <2>1, InvSweep DEF AlarmInterrupted
<1>7. CASE Tick
  <2>1. \A k \in Jobs : Ages(k)
    BY <1>7, TickEffect DEF IInv
  <2>2. alarm = NoAlarm <=> alarm' = NoAlarm
    BY <1>7 DEF Tick, Down, NoAlarm, IInv, TypeOK
  <2> QED BY <1>0, <1>7, <2>1, <2>2, InvAging DEF Tick, runners
<1>8. ASSUME UNCHANGED << shard, tickets >> PROVE IInv'
  <2>1. \A k \in Jobs : Ages(k)
    <3>1. \A k \in Jobs : job[k].lease \in 0 .. LeaseSeconds
                          /\ job[k] = [job[k] EXCEPT !.lease = job[k].lease]
      BY DEF IInv, TypeOK, JobState
    <3> QED BY <1>8, <3>1 DEF Ages, shard
  <2> QED BY <1>0, <1>8, <2>1, InvAging DEF shard
<1>9. ASSUME NEW r \in Runners, RunnerDies(r) PROVE IInv'
  BY <1>8, <1>9 DEF RunnerDies
<1>10. CASE UNCHANGED vars
  BY <1>8, <1>10 DEF vars, runners
<1> QED BY <1>1, <1>2, <1>3, <1>4, <1>5, <1>6, <1>7, <1>9, <1>10 DEF Next

\* The inductive invariant holds of every behaviour.
THEOREM Invariance == Spec => []IInv
BY InvInit, InvNext, PTL DEF Spec

-----------------------------------------------------------------------------
(* The safety properties.                                                  *)

LEMMA InvFences == IInv => EpochsFence
<1> SUFFICES ASSUME IInv, NEW s \in Issued, NEW t \in Issued,
                    s[1] = t[1], s[3] = t[3]
             PROVE  s[2] = t[2]
  BY DEF EpochsFence
<1> USE DEF IInv
<1> DEFINE held(u) == /\ u[1] \in Jobs /\ job[u[1]].phase = "claimed"
                      /\ u[2] = job[u[1]].holder /\ u[3] = job[u[1]].attempt
<1>1. \A u \in Issued : u \in tickets \/ held(u)
  <2> SUFFICES ASSUME NEW u \in Issued, u \notin tickets PROVE held(u)
    OBVIOUS
  <2>1. PICK j \in Jobs : /\ job[j].phase = "claimed"
                          /\ u = << j, job[j].holder, job[j].leaseEpoch >>
    BY DEF Issued
  <2> QED BY <2>1 DEF HeldShape
<1>2. CASE s \in tickets /\ t \in tickets
  BY <1>2 DEF TicketsFence
<1>3. CASE s \in tickets /\ held(t)
  BY <1>3 DEF TicketsFence
<1>4. CASE held(s) /\ t \in tickets
  BY <1>4 DEF TicketsFence
<1>5. CASE held(s) /\ held(t)
  BY <1>5
<1> QED BY <1>1, <1>2, <1>3, <1>4, <1>5

\* Exactly one winner: no two runners are ever given the same job and epoch.
THEOREM Fencing == Spec => []EpochsFence
BY Invariance, InvFences, PTL

LEMMA InvNewest == IInv => ResultFromNewestLease
<1> SUFFICES ASSUME IInv, NEW j \in Jobs, resultEpoch[j] > 0,
                    NEW t \in Issued, t[1] = j
             PROVE  t[3] <= resultEpoch[j]
  BY DEF ResultFromNewestLease
<1> USE DEF IInv
<1>1. job[j].phase \in JobTerminal /\ resultEpoch[j] = job[j].attempt
  BY DEF ResultIsLast
<1>2. t \in tickets
  <2>1. ASSUME t \notin tickets PROVE FALSE
    <3>1. PICK k \in Jobs : /\ job[k].phase = "claimed"
                            /\ t = << k, job[k].holder, job[k].leaseEpoch >>
      BY <2>1 DEF Issued
    <3>2. k = j
      BY <3>1
    <3> QED BY <1>1, <3>1, <3>2, PhaseSets
  <2> QED BY <2>1
<1> QED BY <1>1, <1>2 DEF TicketsFence

\* A job's result is the one reported under the newest lease issued for it.
THEOREM NewestResult == Spec => []ResultFromNewestLease
BY Invariance, InvNewest, PTL

LEMMA InvWatched == IInv => HeldIsWatched
<1> SUFFICES ASSUME IInv, NEW j \in Jobs, job[j].phase = "claimed"
             PROVE  alarm # NoAlarm \/ cut > 0
  BY DEF HeldIsWatched
<1>1. created
  BY DEF IInv, Untouched
<1> QED BY <1>1 DEF IInv, AlarmWatches, AlarmActive

\* A held job has an alarm pending, unless the object died between an append
\* and its ensureAlarm and no alarm was set since.
THEOREM Watched == Spec => []HeldIsWatched
BY Invariance, InvWatched, PTL

\* No job starts before its dependencies have succeeded.
THEOREM DependencyOrder == Spec => []StartedAfterDeps
<1>1. IInv => StartedAfterDeps
  BY DEF IInv
<1> QED BY <1>1, Invariance, PTL

\* The stream's run-level signal and the derived run phase agree.
THEOREM SignalsAgree == Spec => []SignalsMatchPhase
<1>1. IInv => SignalsMatchPhase
  BY DEF IInv
<1> QED BY <1>1, Invariance, PTL

-----------------------------------------------------------------------------
(* The action properties.                                                  *)

\* Everything a step can do to one job.
JobStep(k) ==
  \/ /\ job'[k].phase = job[k].phase /\ job'[k].holder = job[k].holder
     /\ job'[k].leaseEpoch = job[k].leaseEpoch
     /\ resultEpoch'[k] = resultEpoch[k]
  \/ job[k].phase = "queued" /\ job'[k].phase \in {"claimed", "memoized", "canceled"}
  \/ job[k].phase = "claimed" /\ Lapsed(job[k])
  \/ job[k].phase = "claimed" /\ job'[k].phase \in JobTerminal

LEMMA JobSteps ==
  ASSUME TypeOK, [Next]_vars, NEW k \in Jobs
  PROVE  JobStep(k)
<1> USE DEF JobStep
<1>1. CASE InitRun
  BY <1>1 DEF InitRun
<1>2. ASSUME NEW j \in Jobs, NEW r \in Runners, Claim(j, r) PROVE JobStep(k)
  <2>1. CASE ClaimQueued(j, r)
    <3>1. /\ Taken(j, r, job[j].attempt) /\ job[j].phase = "queued"
          /\ \A i \in Jobs \ {j} : Stays(i)
      BY <2>1, ClaimQueuedEffect
    <3>2. resultEpoch' = resultEpoch
      BY <2>1 DEF ClaimQueued, Grant
    <3>3. CASE k = j
      BY <3>1, <3>3, EffectFields
    <3>4. CASE k # j
      BY <3>1, <3>2, <3>4 DEF Stays
    <3> QED BY <3>3, <3>4
  <2>2. CASE ClaimTakeover(j, r)
    BY <2>2, ClaimTakeoverEffect DEF Stays, ClaimTakeover, Grant
  <2>3. CASE ClaimMemoized(j, r)
    <3>1. /\ Ends(j, "memoized") /\ job[j].phase = "queued"
          /\ \A i \in Jobs \ {j} : Stays(i)
      BY <2>3, ClaimMemoizedEffect
    <3>2. resultEpoch' = resultEpoch
      BY <2>3 DEF ClaimMemoized
    <3>3. CASE k = j
      BY <3>1, <3>3, EffectFields
    <3>4. CASE k # j
      BY <3>1, <3>2, <3>4 DEF Stays
    <3> QED BY <3>3, <3>4
  <2>4. CASE Reclaim(j, r)
    BY <2>4 DEF Reclaim, shard
  <2> QED BY <1>2, <2>1, <2>2, <2>3, <2>4 DEF Claim
<1>3. ASSUME NEW t \in tickets, Report(t[1], t[2], t[3]) PROVE JobStep(k)
  <2>1. t[1] \in Jobs /\ t[2] \in Runners /\ t[3] \in Nat
    BY DEF TypeOK
  <2>2. CASE Heartbeat(t[1], t[2], t[3])
    BY <2>1, <2>2, HeartbeatEffect, EffectFields DEF Heartbeat
  <2>3. ASSUME NEW o \in Outcomes, Complete(t[1], t[2], t[3], o) PROVE JobStep(k)
    <3>1. /\ Ends(t[1], o) /\ job[t[1]].phase = "claimed"
          /\ \A i \in Jobs \ {t[1]} : Stays(i)
      BY <2>1, <2>3, CompleteEffect
    <3>2. resultEpoch' = [resultEpoch EXCEPT ![t[1]] = t[3]]
      BY <2>3 DEF Complete
    <3>3. CASE k = t[1]
      BY <3>1, <3>3, EffectFields, PhaseSets
    <3>4. CASE k # t[1]
      BY <3>1, <3>2, <3>4 DEF Stays, TypeOK
    <3> QED BY <3>3, <3>4
  <2> QED BY <1>3, <2>2, <2>3 DEF Report
<1>4. CASE Cancel
  <2>1. resultEpoch' = resultEpoch
    BY <1>4 DEF Cancel
  <2>2. CASE job[k].phase \in JobTerminal /\ Stays(k)
    BY <2>1, <2>2 DEF Stays
  <2>3. CASE job[k].phase \notin JobTerminal /\ Ends(k, "canceled")
    <3>1. job[k].phase \in {"queued", "claimed"}
      BY <2>3 DEF TypeOK, JobState, JobPhases
    <3> QED BY <2>3, <3>1, EffectFields, PhaseSets
  <2> QED BY <1>4, <2>2, <2>3, CancelEffect
<1>5. CASE Sweep
  <2>1. CASE k \in SweepSet(job)
    BY <2>1 DEF SweepSet
  <2>2. CASE k \notin SweepSet(job)
    <3>1. Stays(k)
      BY <1>5, <2>2, SweepEffect
    <3>2. resultEpoch'[k] = resultEpoch[k]
      BY <1>5, <3>1 DEF Sweep, Stays
    <3> QED BY <3>1, <3>2 DEF Stays
  <2> QED BY <2>1, <2>2
<1>6. CASE AlarmFires \/ AlarmInterrupted
  BY <1>5, <1>6 DEF AlarmFires, AlarmInterrupted
<1>7. CASE Tick
  BY <1>7, TickEffect, EffectFields DEF Tick
<1>8. ASSUME NEW r \in Runners, RunnerDies(r) PROVE JobStep(k)
  BY <1>8 DEF RunnerDies, shard
<1>9. CASE UNCHANGED vars
  BY <1>9 DEF vars, shard
<1> QED BY <1>1, <1>2, <1>3, <1>4, <1>6, <1>7, <1>8, <1>9 DEF Next

\* A live lease is not taken away from its holder.
THEOREM LeaseKept == Spec => LiveLeaseIsKept
<1>1. TypeOK /\ [Next]_vars =>
        [\A j \in Jobs :
           job[j].phase = "claimed" /\ job[j].lease > 0 =>
             \/ job'[j].holder = job[j].holder /\ job'[j].leaseEpoch = job[j].leaseEpoch
             \/ job'[j].phase \in JobTerminal]_vars
  <2> SUFFICES ASSUME TypeOK, [Next]_vars, NEW j \in Jobs,
                      job[j].phase = "claimed", job[j].lease > 0
               PROVE  \/ /\ job'[j].holder = job[j].holder
                         /\ job'[j].leaseEpoch = job[j].leaseEpoch
                      \/ job'[j].phase \in JobTerminal
    OBVIOUS
  <2>1. ~Lapsed(job[j])
    BY DEF Lapsed
  <2> QED BY <2>1, JobSteps DEF JobStep
<1> QED BY <1>1, TypeCorrect, PTL DEF Spec, LiveLeaseIsKept

\* A job's end and a run's end are final.
THEOREM EndsFinal == Spec => EndsAreFinal
<1> DEFINE JobsStay == \A j \in Jobs : job[j].phase \in JobTerminal =>
             job'[j].phase = job[j].phase /\ resultEpoch'[j] = resultEpoch[j]
<1>1. ASSUME TypeOK, [Next]_vars PROVE JobsStay
  BY <1>1, JobSteps, PhaseSets DEF JobStep
<1>2. ASSUME TypeOK, [Next]_vars, Phase \in RunTerminal PROVE canceled' = canceled
  BY <1>2 DEF Next, vars, shard, runners, InitRun, Claim, ClaimQueued, ClaimTakeover,
              ClaimMemoized, Reclaim, Grant, Report, Heartbeat, Complete, Cancel,
              AlarmFires, AlarmInterrupted, Sweep, Tick, RunnerDies
<1>3. ASSUME TypeOK, TypeOK', [Next]_vars, Phase \in RunTerminal PROVE Phase' = Phase
  <2>1. JobsStay /\ canceled' = canceled
    BY <1>1, <1>2, <1>3
  <2>2. CASE Phase = "canceled"
    <3>1. canceled'
      BY <1>3, <2>1, <2>2, PhaseMeaning DEF Phase, TypeOK
    <3> QED BY <2>2, <3>1 DEF Phase, RunPhase
  <2>3. CASE Phase = "failed"
    <3>1. PICK k \in Jobs : job[k].phase \in JobFailure /\ ~canceled
      BY <1>3, <2>3, PhaseMeaning DEF Phase, TypeOK
    <3>2. job'[k].phase \in JobFailure /\ ~canceled'
      BY <2>1, <3>1, PhaseSets
    <3> QED BY <1>3, <2>3, <3>2, PhaseMeaning DEF Phase, TypeOK
  <2>4. CASE Phase = "succeeded"
    <3>1. ~canceled /\ Jobs # {} /\ \A k \in Jobs : job[k].phase \in JobSuccess
      BY <1>3, <2>4, PhaseMeaning DEF Phase, TypeOK
    <3>2. ~canceled' /\ \A k \in Jobs : job'[k].phase \in JobSuccess
      BY <2>1, <3>1, PhaseSets
    <3> QED BY <1>3, <2>4, <3>1, <3>2, PhaseMeaning DEF Phase, TypeOK
  <2> QED BY <1>3, <2>2, <2>3, <2>4 DEF RunTerminal
<1>4. TypeOK /\ TypeOK' /\ [Next]_vars =>
        [/\ \A j \in Jobs : job[j].phase \in JobTerminal =>
              job'[j].phase = job[j].phase /\ resultEpoch'[j] = resultEpoch[j]
         /\ Phase \in RunTerminal => Phase' = Phase]_vars
  BY <1>1, <1>3
<1> QED BY <1>4, TypeCorrect, PTL DEF Spec, EndsAreFinal
-----------------------------------------------------------------------------
(* A run that succeeded with no signal was finished by a memo hit.         *)

\* A completion that makes the run succeed signals it.
LEMMA CompletionSignals ==
  ASSUME IInv, TypeOK', NEW j \in Jobs, NEW r \in Runners, NEW e \in Nat,
         NEW o \in Outcomes, Complete(j, r, e, o), Phase' = "succeeded"
  PROVE  signals' # <<>>
<1> USE DEF IInv
<1>1. /\ Ends(j, o) /\ job[j].phase = "claimed"
      /\ \A k \in Jobs \ {j} : Stays(k)
  BY CompleteEffect
<1>2. job'[j].phase = o /\ \A k \in Jobs \ {j} : job'[k] = job[k]
  BY <1>1, EffectFields DEF Stays
<1>3. ~canceled' /\ \A k \in Jobs : job'[k].phase \in JobSuccess
  BY PhaseMeaning DEF Phase, TypeOK
<1>4. created /\ ~canceled
  BY <1>3 DEF Complete, HoldsLease
<1>5. \A k \in Jobs : job[k].phase \notin JobFailure
  BY <1>1, <1>2, <1>3, PhaseSets DEF JobSuccess, JobFailure
<1>6. RunPhase(PhasesOf(job), FALSE, created) \notin RunTerminal
  <2>1. "claimed" \notin JobSuccess
    BY PhaseSets
  <2>2. RunPhase(PhasesOf(job), FALSE, created) \in {"running", "pending"}
    BY <1>1, <1>5, <2>1 DEF RunPhase, PhasesOf
  <2> QED BY <2>2 DEF RunTerminal
<1>7. TerminalSignal(job, FALSE, created, [k \in {j} |-> o]) = << "RunCompleted" >>
  <2> DEFINE overrides == [k \in {j} |-> o]
  <2>1. \A k \in Jobs : job'[k].phase =
          IF k \in DOMAIN overrides THEN overrides[k] ELSE job[k].phase
    BY <1>2
  <2>2. RunPhase(PhasesOf(job'), FALSE, TRUE) = "succeeded"
    BY <1>3 DEF Phase, RunPhase
  <2> HIDE DEF overrides
  <2>3. [k \in Jobs |-> IF k \in DOMAIN overrides
                          THEN overrides[k] ELSE job[k].phase] = PhasesOf(job')
    BY <2>1 DEF PhasesOf
  <2>4. TerminalSignal(job, FALSE, created, overrides) = << "RunCompleted" >>
    BY <1>6, <2>2, <2>3 DEF TerminalSignal
  <2> QED BY <2>4 DEF overrides
<1>8. canceled = FALSE
  BY <1>4 DEF TypeOK
<1>9. signals = <<>>
  BY <1>6, <1>8, QuietUntilTheEnd DEF Phase
<1>10. signals' = <<>> \o << "RunCompleted" >>
  BY <1>7, <1>8, <1>9 DEF Complete
<1> QED BY <1>10

\* No sweep makes a run succeed.
LEMMA SweepWinsNothing ==
  ASSUME IInv, TypeOK', Sweep, \A k \in Jobs : job'[k].phase \in JobSuccess
  PROVE  \A k \in Jobs : job'[k] = job[k]
BY SweepEffect, EffectFields, PhaseSets DEF Stays, IInv, JobSuccess, JobFailure

LEMMA MemoNext ==
  ASSUME IInv, IInv', [Next]_vars, UnsignalledIsMemoized
  PROVE  UnsignalledIsMemoized'
<1> DEFINE Goal == \E j \in Jobs : job'[j].phase = "memoized"
<1> SUFFICES ASSUME Phase' = "succeeded", signals' = <<>>, Jobs # {} PROVE Goal
  BY DEF UnsignalledIsMemoized
<1> USE DEF IInv
<1>1. ~canceled' /\ \A k \in Jobs : job'[k].phase \in JobSuccess
  BY PhaseMeaning DEF Phase, TypeOK
<1>2. ASSUME Phase = "succeeded", signals = <<>> PROVE Goal
  <2>1. PICK j \in Jobs : job[j].phase = "memoized"
    BY <1>2 DEF UnsignalledIsMemoized
  <2> QED BY <2>1, JobSteps DEF JobStep
<1>3. ASSUME \A k \in Jobs : job'[k].phase = job[k].phase, canceled' = canceled,
             signals' = signals
      PROVE Goal
  <2>1. Phase = "succeeded"
    BY <1>1, <1>3, PhaseSets DEF Phase, RunPhase, PhasesOf, JobSuccess, JobFailure
  <2> QED BY <1>2, <1>3, <2>1
<1>4. CASE InitRun
  BY <1>3, <1>4 DEF InitRun
<1>5. ASSUME NEW j \in Jobs, NEW r \in Runners, Claim(j, r) PROVE Goal
  <2>1. ~ClaimQueued(j, r)
    BY <1>1, ClaimQueuedEffect, EffectFields, PhaseSets
  <2>2. ~ClaimTakeover(j, r)
    BY <1>1, ClaimTakeoverEffect, EffectFields, PhaseSets
  <2>3. CASE ClaimMemoized(j, r)
    BY <2>3, ClaimMemoizedEffect, EffectFields
  <2>4. CASE Reclaim(j, r)
    BY <1>3, <2>4 DEF Reclaim, shard
  <2> QED BY <1>5, <2>1, <2>2, <2>3, <2>4 DEF Claim
<1>6. ASSUME NEW t \in tickets, Report(t[1], t[2], t[3]) PROVE Goal
  <2>1. t[1] \in Jobs /\ t[2] \in Runners /\ t[3] \in Nat
    BY DEF TypeOK
  <2>2. CASE Heartbeat(t[1], t[2], t[3])
    BY <1>3, <2>1, <2>2, HeartbeatEffect, EffectFields DEF Heartbeat
  <2>3. ASSUME NEW o \in Outcomes, Complete(t[1], t[2], t[3], o) PROVE Goal
    BY <2>1, <2>3, CompletionSignals
  <2> QED BY <1>6, <2>2, <2>3 DEF Report
<1>7. ~Cancel
  BY <1>1 DEF Cancel
<1>8. ASSUME Sweep PROVE Goal
  <2>1. \A k \in Jobs : job'[k] = job[k]
    BY <1>1, <1>8, SweepWinsNothing
  <2>2. canceled' = canceled
    BY <1>8 DEF Sweep
  <2>3. Phase = "succeeded"
    BY <1>1, <2>1, <2>2, PhaseSets DEF Phase, RunPhase, PhasesOf, JobSuccess, JobFailure
  <2>4. signals' = signals
    <3>1. TerminalSignal(job, canceled, created, SweepOverrides(job)) = <<>>
      BY <2>3 DEF TerminalSignal, Phase, RunTerminal
    <3> QED BY <1>8, <3>1, EmptyConcat DEF Sweep, TypeOK
  <2> QED BY <1>2, <2>3, <2>4
<1>9. CASE Tick
  BY <1>3, <1>9, TickEffect, EffectFields DEF Tick
<1>10. ASSUME NEW r \in Runners, RunnerDies(r) PROVE Goal
  BY <1>3, <1>10 DEF RunnerDies, shard
<1>11. CASE UNCHANGED vars
  BY <1>3, <1>11 DEF vars, shard
<1> QED
  BY <1>4, <1>5, <1>6, <1>7, <1>8, <1>9, <1>10, <1>11
     DEF Next, AlarmFires, AlarmInterrupted

\* A run that succeeded without its signal was finished by a memo hit: a
\* completion that ends a run always signals it.
THEOREM UnsignalledEnd == Spec => []UnsignalledIsMemoized
<1>1. Init => UnsignalledIsMemoized
  BY PhaseMeaning DEF Init, UnsignalledIsMemoized, Phase, FreshJob, JobSuccess
<1> QED BY <1>1, MemoNext, Invariance, PTL DEF Spec

-----------------------------------------------------------------------------
(* RunCoordinator implements JobLedger.                                    *)

LEMMA StatusMeaning ==
  /\ StatusOf("queued") = "open" /\ StatusOf("claimed") = "held"
  /\ \A phase \in JobSuccess : StatusOf(phase) = "won"
  /\ \A phase \in JobFailure : StatusOf(phase) = "lost"
  /\ StatusOf("canceled") = "dropped"
BY DEF StatusOf, JobSuccess, JobFailure

\* The ledger's reading of a typed state.
LEMMA StatusIff ==
  ASSUME NEW phase \in JobPhases
  PROVE  /\ StatusOf(phase) = "open" <=> phase = "queued"
         /\ StatusOf(phase) = "held" <=> phase = "claimed"
         /\ StatusOf(phase) = "won"  <=> phase \in JobSuccess
         /\ StatusOf(phase) = "lost" <=> phase \in JobFailure
         /\ StatusOf(phase) = "dropped" <=> phase = "canceled"
         /\ StatusOf(phase) \in {"won", "lost", "dropped"} <=> phase \in JobTerminal
BY DEF StatusOf, JobPhases, JobTerminal, JobSuccess, JobFailure

\* The derived phase is the ledger's.
LEMMA PhaseAgrees ==
  ASSUME IInv, created, Jobs # {}
  PROVE  Phase = Ledger!RunStatus
<1> USE DEF IInv
<1>1. \A j \in Jobs :
        /\ ledgerStatus[j] = "won" <=> job[j].phase \in JobSuccess
        /\ ledgerStatus[j] = "lost" <=> job[j].phase \in JobFailure
        /\ ledgerStatus[j] = "dropped" <=> job[j].phase = "canceled"
  BY StatusIff DEF TypeOK, JobState, ledgerStatus
<1> QED
  BY <1>1 DEF Phase, PhasesOf, RunPhase, CancelIsWhole, Ledger!RunStatus

LEMMA ReadyIff ==
  ASSUME TypeOK, NEW j \in Jobs, DepsSatisfied(job, j)
  PROVE  Ledger!Ready(j)
<1> SUFFICES ASSUME NEW d \in Deps[j] PROVE ledgerStatus[d] = "won"
  BY DEF Ledger!Ready
<1>1. d \in Jobs /\ job[d].phase \in JobSuccess
  BY CoreAssumption DEF CoreAssumption, DepsSatisfied
<1> QED BY <1>1, StatusMeaning DEF ledgerStatus

LEMMA LedgerInit == Init => Ledger!Init
BY StatusMeaning DEF Init, Ledger!Init, FreshJob, ledgerStatus, ledgerOwner, ledgerTurn

\* A step that leaves every job's phase, holder and attempt is a stutter.
LEMMA LedgerStutter ==
  ASSUME \A k \in Jobs : /\ job'[k].phase = job[k].phase
                         /\ job'[k].holder = job[k].holder
                         /\ job'[k].attempt = job[k].attempt
  PROVE  UNCHANGED Ledger!ledger
BY DEF Ledger!ledger, ledgerStatus, ledgerOwner, ledgerTurn

\* A step that moves one job changes the ledger at that job only.
LEMMA LedgerAt ==
  ASSUME NEW j \in Jobs, \A k \in Jobs \ {j} : job'[k] = job[k]
  PROVE  /\ ledgerStatus' = [ledgerStatus EXCEPT ![j] = StatusOf(job'[j].phase)]
         /\ ledgerOwner' = [ledgerOwner EXCEPT ![j] = job'[j].holder]
         /\ ledgerTurn' = [ledgerTurn EXCEPT ![j] = job'[j].attempt]
         /\ ledgerStatus[j] = StatusOf(job[j].phase)
         /\ ledgerOwner[j] = job[j].holder
         /\ ledgerTurn[j] = job[j].attempt
BY DEF ledgerStatus, ledgerOwner, ledgerTurn

LEMMA LedgerClaim ==
  ASSUME IInv, NEW j \in Jobs, NEW r \in Runners, Claim(j, r)
  PROVE  [Ledger!Next]_(Ledger!ledger)
<1> USE DEF IInv
<1>1. CASE ClaimQueued(j, r)
  <2>1. /\ Taken(j, r, job[j].attempt) /\ \A k \in Jobs \ {j} : Stays(k)
        /\ job[j].phase = "queued" /\ DepsSatisfied(job, j)
    BY <1>1, ClaimQueuedEffect
  <2>2. /\ job'[j].phase = "claimed" /\ job'[j].holder = r
        /\ job'[j].attempt = job[j].attempt
        /\ \A k \in Jobs \ {j} : job'[k] = job[k]
    BY <2>1, EffectFields DEF Stays
  <2>3. ledgerTurn' = ledgerTurn
    BY <2>2 DEF ledgerTurn
  <2>4. Ledger!Give(j, r)
    BY <2>1, <2>2, <2>3, LedgerAt, ReadyIff, StatusMeaning DEF Ledger!Give
  <2> QED BY <2>4 DEF Ledger!Next, Ledger!Request, Ledger!Timeout
<1>2. CASE ClaimTakeover(j, r)
  <2>1. /\ Taken(j, r, job[j].attempt + 1) /\ \A k \in Jobs \ {j} : Stays(k)
        /\ job[j].phase = "claimed"
    BY <1>2, ClaimTakeoverEffect
  <2>2. /\ job'[j].phase = "claimed" /\ job'[j].holder = r
        /\ job'[j].attempt = job[j].attempt + 1
        /\ \A k \in Jobs \ {j} : job'[k] = job[k]
    BY <2>1, EffectFields DEF Stays
  <2>3. ledgerStatus' = ledgerStatus
    BY <2>1, <2>2 DEF ledgerStatus
  <2>4. job[j].holder # r
    BY <1>2 DEF ClaimTakeover
  <2>5. Ledger!Pass(j, r)
    BY <2>1, <2>2, <2>3, <2>4, LedgerAt, StatusMeaning DEF Ledger!Pass
  <2> QED BY <2>5 DEF Ledger!Next, Ledger!Request, Ledger!Timeout
<1>3. CASE ClaimMemoized(j, r)
  <2>1. /\ Ends(j, "memoized") /\ \A k \in Jobs \ {j} : Stays(k)
        /\ job[j].phase = "queued" /\ DepsSatisfied(job, j)
    BY <1>3, ClaimMemoizedEffect
  <2>2. /\ job'[j].phase = "memoized" /\ job'[j].holder = NoRunner
        /\ job'[j].attempt = job[j].attempt /\ job[j].holder = NoRunner
        /\ \A k \in Jobs \ {j} : job'[k] = job[k]
    BY <2>1, EffectFields DEF Stays, HeldShape
  <2>3. ledgerTurn' = ledgerTurn /\ ledgerOwner' = ledgerOwner
    BY <2>2 DEF ledgerTurn, ledgerOwner
  <2>4. Ledger!Adopt(j)
    BY <2>1, <2>2, <2>3, LedgerAt, ReadyIff, StatusMeaning, PhaseSets DEF Ledger!Adopt
  <2> QED BY <2>4 DEF Ledger!Next, Ledger!Request, Ledger!Timeout
<1>4. CASE Reclaim(j, r)
  BY <1>4, LedgerStutter DEF Reclaim, shard
<1> QED BY <1>1, <1>2, <1>3, <1>4 DEF Claim

LEMMA LedgerComplete ==
  ASSUME IInv, NEW j \in Jobs, NEW r, NEW e, NEW o \in Outcomes, Complete(j, r, e, o)
  PROVE  [Ledger!Next]_(Ledger!ledger)
<1> USE DEF IInv
<1>1. /\ Ends(j, o) /\ \A k \in Jobs \ {j} : Stays(k)
      /\ job[j].phase = "claimed"
  BY CompleteEffect
<1>2. /\ job'[j].phase = o /\ job'[j].holder = NoRunner
      /\ job'[j].attempt = job[j].attempt
      /\ \A k \in Jobs \ {j} : job'[k] = job[k]
  BY <1>1, EffectFields DEF Stays
<1>3. ledgerTurn' = ledgerTurn
  BY <1>2 DEF ledgerTurn
<1>4. StatusOf(o) \in {"won", "lost"}
  BY StatusMeaning, PhaseSets
<1>5. Ledger!Finish(j, StatusOf(o))
  BY <1>1, <1>2, <1>3, LedgerAt, StatusMeaning DEF Ledger!Finish
<1> QED BY <1>4, <1>5 DEF Ledger!Next, Ledger!Request, Ledger!Timeout

LEMMA LedgerCancel ==
  ASSUME IInv, Cancel
  PROVE  [Ledger!Next]_(Ledger!ledger)
<1> USE DEF IInv
<1>1. \A k \in Jobs :
        /\ job'[k].attempt = job[k].attempt
        /\ job'[k].holder = NoRunner
        /\ job[k].phase \in JobTerminal => job'[k].phase = job[k].phase
        /\ job[k].phase \notin JobTerminal => job'[k].phase = "canceled"
  BY CancelEffect, EffectFields, PhaseSets DEF Stays, HeldShape
<1>2. \A k \in Jobs : job[k].phase \in JobPhases
  BY DEF TypeOK, JobState
<1>3. \A k \in Jobs : StatusOf(job'[k].phase) =
        IF StatusOf(job[k].phase) \in {"won", "lost", "dropped"}
          THEN StatusOf(job[k].phase) ELSE "dropped"
  BY <1>1, <1>2, StatusIff, StatusMeaning
<1>4. CASE Jobs = {}
  BY <1>4, LedgerStutter
<1>5. CASE Jobs # {}
  <2>1. Ledger!RunStatus = "running"
    BY <1>5, PhaseAgrees, PhaseMeaning DEF Cancel, RunTerminal, Ledger!RunStatus
  <2>2. Ledger!Drop
    BY <1>1, <1>3, <2>1
       DEF Ledger!Drop, Ledger!Done, ledgerStatus, ledgerOwner, ledgerTurn
  <2> QED BY <2>2 DEF Ledger!Next, Ledger!Request, Ledger!Timeout
<1> QED BY <1>4, <1>5

LEMMA LedgerSweep ==
  ASSUME IInv, Sweep
  PROVE  [Ledger!Next]_(Ledger!ledger)
<1> USE DEF IInv
<1> DEFINE gone == SweepSet(job)
           lost == {k \in gone : SweepPhase(job[k]) = "timed_out"}
<1>1. \A k \in Jobs :
        \/ k \notin gone /\ job'[k] = job[k]
        \/ /\ k \in gone /\ k \in lost
           /\ job[k].phase = "claimed" /\ job'[k].phase = "timed_out"
           /\ job'[k].holder = NoRunner /\ job'[k].attempt = job[k].attempt
        \/ /\ k \in gone /\ k \notin lost
           /\ job[k].phase = "claimed" /\ job'[k].phase = "queued"
           /\ job'[k].holder = NoRunner /\ job'[k].attempt = job[k].attempt + 1
  BY SweepEffect, EffectFields DEF Stays
<1>2. gone \in SUBSET Jobs /\ lost \in SUBSET gone
  BY DEF SweepSet
<1>3. \A k \in gone : ledgerStatus[k] = "held"
  BY <1>1, <1>2, StatusMeaning DEF ledgerStatus
<1>4. ledgerStatus' = [k \in Jobs |-> IF k \notin gone THEN ledgerStatus[k]
                                      ELSE IF k \in lost THEN "lost" ELSE "open"]
  <2>1. \A k \in Jobs : StatusOf(job'[k].phase) =
          IF k \notin gone THEN StatusOf(job[k].phase)
          ELSE IF k \in lost THEN "lost" ELSE "open"
    BY <1>1, StatusMeaning, PhaseSets
  <2> QED BY <2>1 DEF ledgerStatus
<1>5. ledgerOwner' = [k \in Jobs |-> IF k \in gone THEN NoRunner ELSE ledgerOwner[k]]
  BY <1>1 DEF ledgerOwner
<1>6. ledgerTurn' = [k \in Jobs |-> IF k \in gone \ lost THEN ledgerTurn[k] + 1
                                    ELSE ledgerTurn[k]]
  BY <1>1 DEF ledgerTurn
<1>7. Ledger!Expire(gone, lost)
  BY <1>3, <1>4, <1>5, <1>6 DEF Ledger!Expire
<1> QED BY <1>2, <1>7 DEF Ledger!Next, Ledger!Request, Ledger!Timeout

LEMMA LedgerNext == IInv /\ [Next]_vars => [Ledger!Next]_(Ledger!ledger)
<1> SUFFICES ASSUME IInv, [Next]_vars PROVE [Ledger!Next]_(Ledger!ledger)
  OBVIOUS
<1>1. CASE InitRun
  BY <1>1, LedgerStutter DEF InitRun
<1>2. ASSUME NEW j \in Jobs, NEW r \in Runners, Claim(j, r)
      PROVE  [Ledger!Next]_(Ledger!ledger)
  BY <1>2, LedgerClaim
<1>3. ASSUME NEW t \in tickets, Report(t[1], t[2], t[3])
      PROVE  [Ledger!Next]_(Ledger!ledger)
  <2>1. t[1] \in Jobs
    BY DEF IInv, TypeOK
  <2>2. CASE Heartbeat(t[1], t[2], t[3])
    BY <2>1, <2>2, HeartbeatEffect, EffectFields, LedgerStutter DEF IInv
  <2>3. ASSUME NEW o \in Outcomes, Complete(t[1], t[2], t[3], o)
        PROVE  [Ledger!Next]_(Ledger!ledger)
    BY <2>1, <2>3, LedgerComplete
  <2> QED BY <1>3, <2>2, <2>3 DEF Report
<1>4. CASE Cancel
  BY <1>4, LedgerCancel
<1>5. CASE AlarmFires \/ AlarmInterrupted
  BY <1>5, LedgerSweep DEF AlarmFires, AlarmInterrupted
<1>6. CASE Tick
  BY <1>6, TickEffect, EffectFields, LedgerStutter DEF IInv
<1>7. ASSUME NEW r \in Runners, RunnerDies(r) PROVE UNCHANGED Ledger!ledger
  BY <1>7, LedgerStutter DEF RunnerDies, shard
<1>8. CASE UNCHANGED vars
  BY <1>8, LedgerStutter DEF vars, shard
<1> QED BY <1>1, <1>2, <1>3, <1>4, <1>5, <1>6, <1>7, <1>8 DEF Next

\* The phase the shard derives is the one its jobs determine.
THEOREM LedgerPhase == Spec => []PhaseIsTheLedgers
<1>1. IInv => PhaseIsTheLedgers
  BY PhaseAgrees DEF PhaseIsTheLedgers
<1> QED BY <1>1, Invariance, PTL

\* The shard implements the ledger.
THEOREM Refinement == Spec => ImplementsLedger
BY LedgerInit, LedgerNext, Invariance, PTL DEF Spec, ImplementsLedger, Ledger!Spec
=============================================================================
