# Verification of orun-cloud

Orun Cloud executes plans: DAGs of jobs that remote runners claim, work on and
report. Around that core it mints credentials at providers, logs events and
delivers them as notifications and webhooks. This directory holds TLA+ models of
the protocols among these parts, TLC configurations that check them on small
instances, and TLAPS proofs of their safety properties for every instance.

Contents

1. The system and its parts
2. The modules, and how they correspond to the code
3. The properties
4. The runs
5. The proofs
6. Fairness
7. Where the code and its documents disagree
8. Abstractions and bounds
9. What is not modelled, and the plan

`PROJECT.json` lists the components with their sources, the runs, the mutants,
the source lines every definition translates, the findings, the hazards and the
theorems. To repeat a check: `tlc -config RunCoordinator.cfg RunCoordinatorMC.tla`;
to repeat a proof: `tlapm RunCoordinatorProofs.tla`.


## 1. The system and its parts

The backend is a set of Cloudflare Workers under `src/apps/`, each with a schema
in one Postgres database (`src/packages/db`), a few Durable Objects and an object
store. Workers call each other over service bindings and leave messages for each
other in an append-only event log. Requests enter through the API edge. No handler
holds a database lock across statements; what concurrency control there is lies in
single statements, in Durable Objects, and in the order of steps.

### 1.1 Coordination of runs (state-worker): the core

| Part | State | Operations | What is hard |
|---|---|---|---|
| Coordination core, `packages/contracts/src/coordination*.ts` | none: pure functions over a stream of events | fold (`reduceFrom`), phase of the run, frontier, the deciders claim / heartbeat / complete / cancel / `sweepLeases` | terminal jobs must ignore late events; the epoch must fence stale holders; run-level signals are derived twice, in the deciders and in the fold |
| Coordinator shard, `run-coordinator.ts` | one Durable Object per run: plan, stream, snapshot, alarm | `init`, `claim`, `heartbeat`, `complete`, `cancel`, `state`, `alarm` | runners race, die, and come back late; replies are lost; the alarm is the only thing that frees a dead runner's job; it is set after the append, and delivered at least once |
| Shard storage, same file | events one key each, `seq`, `snapshot`, an old `log` | load, append, snapshot, migrate | an append is several writes; an eviction loses the fold |
| Run creation, `handlers/runs.ts` | `state.runs`, `state.run_jobs`, the shard, an audit event | create, replay and heal | four stores, no transaction across them; two creators with one key |
| Run read model, `coordination-route.ts`, `db/src/state/projector.ts` | `state.runs.status/last_seq`, `state.run_jobs` | project after a verb | overlapping projections, one statement per row, failures are swallowed |
| Projection sweep, `projection-sweep.ts` | none of its own | every minute: project a batch of open runs | starvation; ended runs are not selected |
| Native verbs and memo index, `coordination-native.ts` | memo index `jobInputHash -> resultDigest` | claim with memo look-up, complete with seal and record | the index is written after the shard answered |
| Live-lease checks, `lease.ts` | none | verify a runner's lease before a secret is served | falls back to a row that may be behind |
| Logs, `handlers/logs.ts` | chunk index and blobs | append, read, seal | index row before blob |
| Objects and refs, `handlers/objects.ts`, `refs.ts`, `gc-*.ts` | index rows, blobs, refs | put, compare-and-set, mark and sweep | refs move during a sweep |
| Write-back, `run-writeback.ts` | a cursor | post check runs for run events | cursor after the post |

How they interact. A client calls a verb on the state-worker, which forwards it
to the run's Durable Object and then projects the object's fold into Postgres
(`projectAfterVerb`, in `waitUntil`: the caller does not wait and failures are
logged). The object's alarm moves jobs by itself, without a projection; the cron's
sweep projects later. Readers (status pages, the lease fall-back, the write-back)
see Postgres only.

What makes this part correct: whoever is told that a run exists can claim its
jobs; one holder per job and epoch; a result comes from the holder that was given
the job last; jobs start in dependency order; finished jobs and ended runs stay
finished; no acknowledged event is lost by an eviction; a job whose runner died is
freed and its run ends; and the read model follows, never goes back, and in the end
shows the truth.

### 1.2 Credentials (integrations-worker)

| Part | State | Operations | What is hard |
|---|---|---|---|
| Mint lock, `mint-lock.ts`, `mint-lock-do.ts` | one Durable Object per connection: a lease in storage, waiters in memory | acquire, release, alarm | dead holders, overrun leases, restarts that drop the waiters, an unreachable lock that lets everybody in, a lease stored before its alarm is set |
| Broker, `handlers/credential-broker.ts`, `custody.ts` | the parent credential, the ledger of minted ones, tokens at the provider | mint, revoke a mint, revoke a connection | the provider rotates the parent; token before row; parent deleted beside mints |
| Health check, `health-*.ts` | connection status | refresh the parent hourly | takes no lock |
| Orphan and expiry sweeps | none | reconcile provider and ledger, expire rows | reads of two systems, one of them in pages, while both go on; a batch of accounts in an order the sweep does not keep |

The broker runs a mint's custody section under the lock; a revoke of the connection
flips the status, revokes the minted credentials one by one, and deletes the parent
under the same lock. What makes it correct: sections take turns; a deleted parent
stays deleted; no token that somebody holds is taken away; one that nobody accounts
for goes.

### 1.3 Events and their consumers (events-worker, webhooks-worker)

| Part | State | Operations | What is hard |
|---|---|---|---|
| Event log and lanes, `events-worker/src/lanes`, `db/src/events` | log per organisation; per lane a cursor, attempts, dead letters; story ledger and throttle | append, minutely tick, replay of a letter | overlapping ticks, poison events, late events, work after an admission |
| Webhook delivery, `webhooks-worker/src/delivery.ts` | cursor, attempt rows with numbers and retry times, endpoint status | dispatch, retry pass, replay, automatic disabling | rows listed without a claim, a tick that dies between row and request, numbers under a unique index |
| Notifications, `notifications-worker` | a row per notification | send, retry cron | send before mark |

What makes it correct: a cursor passes nothing that was neither handled nor given up;
a story is told once per severity; every delivery is made, retried a bounded number of
times, or given up visibly; an accepted one stays accepted.

### 1.4 Other parts

| Part | State and operations | Hard behaviour | What makes it correct |
|---|---|---|---|
| Secret rotation, configuration (config-worker) | versioned secrets, due dates | scan without a claim, a mint whose store fails | one rotation per due date, no orphaned credential |
| Integration inbox (integrations-worker) | inbound deliveries, attempts | two drains of one delivery | every delivery is emitted once or dead |
| CLI sessions (identity-worker) | refresh token families, a grace window | reuse detection against a legitimate retry | one live token per family; reuse revokes it |
| Sign-in, OAuth, OIDC (identity-worker) | sessions, grants | protocol exchanges | codes and grants are used once |
| Membership, projects, policy, administration | rows per organisation; a pure decision function | check-then-act on counts | an organisation keeps an owner |
| API edge | idempotency records, token buckets, short caches | two requests with one key | one effect per key |
| Billing, metering | plan per organisation, usage records, rollups | events out of order, no record of those applied (`webhook-intake.ts:106`) | the plan is the provider's last word |
| Agents (agents-worker) | sessions with leases, sandboxes, a relay object, budgets | reclaim on a state read earlier (`sweep.ts:91`) | a live session keeps its sandbox; a dead one is reclaimed |
| Chat, MCP, console, docs, CLI, SDK | threads; user interface; clients | | |

### 1.5 Hazards

`PROJECT.json` lists under "hazards" what can go wrong where a test hardly reaches,
at its line, for the parts that carry the protocols. Most have properties here;
each of the others says why it has none.


## 2. The modules, and how they correspond to the code

    CoordinationCore      fold and predicates of the deciders
      RunCoordinator      one shard, its alarm, its runners          --+
        RunCoordinatorLedger   refinement mapping: implements  JobLedger
      ShardStore          the same stream on disk: implements          |
                          JobLedger's steps through restarts           |
    JobLedger             what a shard promises (abstract)           <-+
      RunProjection       INSTANCEs JobLedger as its shard: one run's read model
      RunCreate           INSTANCEs JobLedger as its shard: creation and healing
    ProjectionSweep       the cron over many runs
    MintLock              one connection's lock, and what it serialises
    CredentialLedger      one connection's minted tokens and rows
    EventLane             one lane, with the notifications handler
    WebhookDelivery       one endpoint's deliveries

Every module has an `...MC` module with the values of its constants for TLC;
`...Proofs` modules hold theorems.

### CoordinationCore

`reduceFrom` event by event (`JobClaimed`, `LeaseRenewed`, `LeaseExpired`,
`JobFinished`, `RunCanceled`), each with its guard: `Sticky` is the early
exit for terminal jobs. `RunPhase` is `deriveRunPhase`, `Frontier` is
`computeFrontier`, `TerminalSignal` is `runTerminalAppends` with its overrides,
`SweepJobs` and `SweepOverrides` are `sweepLeases`. A job is the part of
`JobFoldState` that a decider reads.

### RunCoordinator

| Action | Code |
|---|---|
| `InitRun` | `init()`: plan, RunCreated, then `ensureAlarm` or a death before it |
| `ClaimQueued`, `ClaimTakeover`, `ClaimMemoized` | `claim()` with the three accepting branches of `decideClaim`, append, then `ensureAlarm` and the reply, or a death before them |
| `Reclaim` | `claim()`'s short cut for the present holder |
| `Heartbeat`, `Complete` | `heartbeat()`, `complete()` with `decideHeartbeat`, `decideComplete` |
| `Cancel` | `cancel()` with `decideCancel` |
| `AlarmFires`, `AlarmInterrupted` | `alarm()`, whole, or dead between append and `setAlarm` and delivered again |
| `Tick` | time, for leases and alarm alike |
| `RunnerDies` | outside the code |

| Variable | Code |
|---|---|
| `job`, `canceled`, `created` | the fold of the stream |
| `signals` | RunCompleted, RunFailed, RunCanceled events of the stream, in order |
| `resultEpoch` | the `leaseEpoch` in the payload of the job's result event |
| `alarm` | the object's alarm, as the time left |
| `cut` | ghost: how many appends have died before their `ensureAlarm` since an alarm was last set |
| `tickets` | every lease a reply told a runner: what a late request may present |

A verb is one action because the object's input gate lets no other request in
while it awaits storage, and every await in these handlers is for storage. What can come
between its awaits is a death of the object: `DiesUnarmed` is the one after the append
and before the alarm is set, and it matters because a repeated `init` (244) and a
re-claim (289) return without arming. Deaths inside the append are ShardStore's.
`tickets` is what makes late and duplicated requests possible: a runner may
present any lease it was ever told, at any time. A rejected request changes
nothing and is a stuttering step.

### ShardStore

What `RunCoordinator` takes as one step. `disk` is the object's storage (`events`,
`head`, `snap`, `log`, `plan`), `mem` the instance. A verb decides what to append
(`Intents`, among them the memo hit of a claim), numbers it after its head, folds it
into `mem`, as in `AppendAll`, and leaves its writes `pending`; `Commit` makes them
durable and answers the caller (`told`); `Crash` loses the instance, and whatever of
`pending` was not durable, at any moment. `Load` is `load()`: the snapshot and the
events after it, or the migration of a `log` kept under one key (`Migrates`), which
is itself a sequence of writes that a crash can cut. An old `log` is what the same
deciders appended in an older shard: it starts a run and its fold is `Sound`.

### JobLedger and RunCoordinatorLedger

`JobLedger` is what callers of a shard may rely on: a job is open, held in a
numbered turn by one runner, won, lost or dropped. It has no clock and no stream.
`RunCoordinatorLedger` gives the mapping (phase to status, holder to owner,
attempt to turn) and the claim `ImplementsLedger`. A takeover is `Pass`, a sweep
of several lapsed leases is one `Expire`, a heartbeat, a re-claim and time stutter.
`ShardStore` has the same mapping from what a fresh instance would rebuild
(`LedgerSteps`): restarts are invisible.

### RunCreate

A client's request is a process: `LookUp` finds the idempotency key's run or not,
`InsertRun`, `CreateJobs`, `Seed` create, `HealShard` and `HealJobs` are the replay that
repairs what an earlier request left; `Refuse` is a failure that is answered, `Dies` one
that is not. The shard is a `JobLedger` whose runners work as soon as it is seeded. A
projection is `ProjectRun`, the guarded update of the run row, which leaves a set of
views in `under`, and one `ProjectJob` for each, without a guard and in the order of the
plan: any number of projections are under way together, one that was overtaken goes on
writing, and one that died is one that never goes on. `overtaken` names the job rows
that an older projection than the run row's wrote last.

### RunProjection

The shard here is `JobLedger` itself, with the position of the stream beside it.
`VerbMoves` is any step a request can cause and leaves a projection owed;
`QuietlyMoves` is what appends without a projection: the alarm, and a heartbeat. A
projection is then a small process: `VerbReads` or `SweepReads` takes the fold,
`WriteRun` is the conditional update of `state.runs`, `WriteJob` one update of
`state.run_jobs` each, `Dies` a failure between any two of these. Several
(`Workers`) may be under way together.

### ProjectionSweep

Many runs and the order of `updated_at`: `TickStarts` selects the batch,
`TickProjects` and `TickFails` are its loop. A run is a position and whether it
has ended; `Forsaken` are runs nobody works on, which stay open for good.

### MintLock

Who meets at the lock is one of the `Crowds`; the others never come (`absent`).

| Action | Code |
|---|---|
| `StartMint`, `StartRevoke`, `AskRevoke`, `Ask` | `connectionMintLockRunner`, called by a mint, and by a revoke after its status flip |
| `Acquire` | `MintLockCore.acquire`: granted at once if nobody holds the lock or the lease is due, or parked |
| `Leave`, `GrantNext` | `/release` with the token of the turn; the first waiter is served |
| `Lapse`, `Alarm`, `IdleAlarm` | the lease runs out; the object's alarm passes the lock on, or finds nobody |
| `Cut` | `persist()` of a new lease cut short, between its `put` and its `setAlarm` or before the reply: the lease is stored, `armed` may be false, the waiters' calls throw |
| `WaitEnds` | a waiter's budget ends: a mint is refused, a revoke goes on without the lock |
| `Restart`, `Unreachable` | the waiters' calls throw, or the call to the lock does: the section runs all the same |
| `ReadParent`, `Spend`, `Store`, `Zeroize` | `readParentCredential`, the provider's refresh, `reEnvelopeParentCredential`, `custodySweep` |
| `StartCheck` | `runSupabaseHealth`: the same section without the lock |
| `Dies`, `Withdraw` | outside the code |

A copy of the parent (`custody`, and `seen` of each request) is `fresh` while the
provider accepts it and `stale` once another copy was spent. The ghosts `slipped`,
`crossed`, `lost` say which of the code's concessions has happened: a section
entered or went on without its turn, a health check was open beside a section, a
rotated parent was not stored.

### CredentialLedger

A mint (`Ask`, `Create`, `Insert` or `InsertFails` and `Refuse`, `Reveal` or
`Unusable`) makes a token at the provider and then a row; `RevokeAsked`,
`RevokeToken`, `RevokeRow` revoke one; `Disconnect`, `FanOut`, `Zeroize` revoke the
connection, the fan-out also when it cannot list the mints. The orphan sweep is
`StartSweep`, then `ReadToken` for the tokens of the provider's pages, which `PageShifts`
may pass over and which end (`EndList`) at the tenth page, then `ListLive`, `Match` with
its re-read, which may fail, `RevokeOrphan`, `StartClosing` and `CloseRow`; `SweepDies` is
a failed read or a dead invocation. Everything interleaves, and any worker can die at any
of its steps. `shared` are the mints asked by another organisation over a shared
connection, whose rows the sweep's re-read does not find; `beyond` the tokens that would
be on an eleventh page. The ghosts name what the code concedes: `met`, the mints whose row
came when the sweep could no longer see it; `spared`, those whose delete failed or that
were under way during a revoke; `misread`, those a shifted page passed over or whose
re-read failed; `unlisted`, that the fan-out had no list.

### EventLane

A tick is a process: `Begin` reads the cursor and a batch, `Take` the next event,
the handler (`Snapshot`, `Upsert` or `Throttle`, then `Enqueue`) runs for it, `Fail`
records an attempt or a dead letter, `Advance` upserts the cursor unconditionally. A
replay runs the handler for one dead letter. `Append` adds an event at any place of
the order (occurred_at, id), also behind cursors (`late`). `LoadRules` has the tick's
cache of rules, which `RulesFail` leaves half read. The story's statement is two
steps: what its `WITH prior` saw, and the upsert.

### WebhookDelivery

A tick dispatches (`Begin`, `DispatchNext`, `DispatchFails`, `Advance`) and then
retries (`List`, `Retry`); a delivery in hand goes through `Resolve`, `Post`,
`Record`, `Count`, `AutoDisable`; `Replay` makes a row for an old delivery and
delivers it. `Switch` is a user who disables or enables the endpoint. Ticks overlap,
every statement can fail, an invocation can end anywhere (`Dies`). `earlier` keeps
the order of `completed_at` that the streak of failures is counted in. The ghosts
name what went wrong for a row (`doubled`, `torn`, `refused`, `unsent`) or an event
(`missed`).


## 3. The properties

Every invariant module has one `IInv`, the conjunction of its type invariant and of
named parts that are not worth a run of their own but that the others rest on;
each part is stated and explained in its module.

| Property | Says | Would be broken by |
|---|---|---|
| RunCoordinator `IInv` | among others: dependencies before starts, a held job is watched by an alarm unless the arming was cut off, signals agree with the phase, a cancellation is whole | a cancel that keeps a holder |
| `EpochsFence` | no two runners are ever given one job under one epoch, lost replies included | a re-queue that keeps the attempt number |
| `ResultFromNewestLease` | a recorded result came from the newest lease issued | a completion accepted on the holder's name alone |
| `UnsignalledIsMemoized` | a run that succeeded without a RunCompleted event has a memoized job | a terminal signal computed from the fold before the step |
| `LiveLeaseIsKept` | a lease with time left ends only with its job | a lease taken for lapsed too early |
| `ImplementsLedger` | the shard does what `JobLedger` does | a frontier that ignores the DAG |
| `DeadHolderIsReleased` | the alarm alone frees a dead runner's job, unless an append died before it set one | a sweep that leaves out the last attempt |
| `RunEnds` | with one working runner left, a created run ends | a dependency test that forgets memoized |
| `AlarmRestsWhenDone` | once all jobs are terminal the alarm is not armed again | re-arming always |
| ShardStore `IInv` | storage is one numbered stream that its head and its snapshot belong to, before and after the writes under way | a snapshot of the fold from before the append |
| `RebuiltIsLive` | snapshot and tail, or an old log, rebuild the replay of the whole stream, and the live instance agrees | a tail that starts one event late |
| `AcknowledgedSurvive` | no event of an acknowledged verb is lost, overwritten or renumbered | a head taken from the snapshot |
| `LedgerSteps` | with restarts the store still implements `JobLedger` | the same |
| RunCreate `IInv`, `AnsweredIsClaimable` | whoever was answered finds a seeded shard, and every job's row unless a heal failed | a row written last; a heal that seeds only where no job row is |
| `StaleRowsLookQueued` | a job row that disagrees with an up-to-date run row shows a job nobody touched, or was written last by an overtaken projection, or waits for the newest one | a projection that updates queued rows only |
| `PoisonedRunHeals` | a half-created run becomes claimable if one client keeps asking | a replay that only reads |
| RunProjection `IInv`, `RunRowNeverGoesBack` | the run row's position and its end never go back | dropping `last_seq < $5` |
| `EndSurfaces` | a run's end reaches its row with no further verb | sweeping only `running` |
| `EndsSurface` | the sweep does this for all runs together | a batch not limited to open runs |
| MintLock `IInv`, `TurnsAreExclusive` | sections whose turn did not slip exclude each other; a deleted parent stays deleted | a lock that is freed but not passed on; a restart that forgets the lease |
| `ReuseNeedsASlip` | a spent parent is presented only after a slip, beside a health check, or when a rotated one was lost | a mint that does not store the rotated parent |
| `WaitersAreServed` | a parked request gets on although the holder died, unless newcomers overtake it for ever or the lease's alarm was never set | a lock that is freed but not passed on |
| CredentialLedger `IInv`, `HeldIsAlive` | the sweep takes no credential away that somebody holds, but for the named moments and a failed re-read | the parent deleted before the fan-out; a match without the re-read |
| `ClosedIsDead` | a closed row means a dead token, if the list of tokens was complete | closing the row alone |
| `NothingOutlivesRevoke` | after a revoke that could list its mints only the named tokens are alive | the parent deleted before the fan-out |
| `OrphansGo` | if the sweep comes again and again, a token on its pages whose request is over and that the ledger does not hold is deleted | a match that is content with any row |
| EventLane `IInv`, `NothingIsSkipped` | the cursor passes only what was handled or given up | attempts recorded once; a failed event that the tick goes past |
| `StoryIsTold`, `StoryIsToldOnce` | a story's ledger runs ahead of its readers only by named failures; a severity is told once | an enqueue whose failure is swallowed; a statement that always fires |
| `EventsArePassed` | a failing event does not wedge the lane, nor does a slow tick that moves the cursor back | a failed event that always stalls the tick |
| WebhookDelivery `IInv`, `EventsGetTheirRow` | an event behind the cursor has a row or a named reason | a retried row that keeps its completed_at; a cursor set to the newest event read |
| `CallsAreCounted` | a failed delivery was called `MaxRetries` times, and no more but for named reasons | an off-by-one in the retry schedule |
| `SuccessStays` | an accepted delivery stays accepted unless two workers had it | a retry pass that lists everything |
| `RowsSettle` | every delivery is accepted or given up, but for a lost or refused outcome | a retry pass for active endpoints only |

Each has a mutant in `PROJECT.json`: the named definition replaced by a plausible
mistake (`Bug_...`, next to it in its module), for which TLC finds the property
violated in the same run.

Properties with an exception (`slipped`, `met`, `torn`, ...) say two things: that
nothing else can go wrong, and, since the exceptions are reachable, what can. Section
7 lists the latter.


## 4. The runs

| Run | Instance | Shows |
|---|---|---|
| `coordinator` | two jobs in a chain, both hermetic, two runners, lease 2, 2 attempts, takeovers to epoch 3, two appends that die unarmed | all properties of the shard, safety and liveness, and the refinement; 74,016 states |
| `shard_store` | the same plan, snapshots every three events, two events per put, six events; starts empty or with an old log of three | the store's properties and `LedgerSteps`; 35,131 states |
| `run_create` | two independent jobs, one runner, two clients, one fault, three events, any number of projections | creation, healing, and what rows may say; 675,107 states |
| `projection` | two independent jobs, one runner, two projections, four events, one crash | the run row; 230,519 states |
| `projection_job_rows` | one projection, five events, no crash | finding 1 |
| `sweep` | three runs, one of them forsaken, batches of two | `EndsSurface`; 18,972 states |
| `mint_lock` | two mints, a revoke, a health check and one fault, or three mints and two faults | the lock, its waiters and the parent; 283,361 states |
| `mint_lock_suspend` | two mints, a revoke, a health check, no fault | finding 2 |
| `credential_ledger` | one mint, asked by the connection's organisation or another, three faults | the ledger against the provider; 293,439 states |
| `event_lane` | two overlapping ticks and a replay over two events of one story (equal severities, an escalation, or one of no story), two attempts, two odds | the lane and the story; 264,720 states |
| `webhook_delivery` | two ticks, a replay, two tries per delivery; one event with a replay and two odds, or two events with one odd | delivery; 226,261 states |
| `webhook_replay` | the same with two events, a replay and no odds | finding 3 |

Why these instances are enough to be interesting. Two runners are what it takes for a
race, a takeover and a stale holder; a third adds another stale holder of the same kind.
Two jobs in a chain give a dependency, a blocked dependent, a run that fails with a job
left over, and a last job; two jobs without a dependency (`RunProjection`, `RunCreate`)
give a run that fails while another job is held. With two attempts a job is re-queued,
taken over and timed out; epoch 3 lets a takeover go beyond `MaxAttempts`, which the
code allows. Lease 2 tells a fresh, an ageing and a lapsed lease apart. A snapshot every
three events and six events in all give snapshots with and without a tail, and an old
log of three a migration of two puts. Two appends that die unarmed are what it takes to
hold a job without an alarm: one at the init and one at the claim. Two clients are a
creator and a replay, or two creators; three events give three projections, of which the
first may write last. Two mints and a revoke queue behind each other, and a fault is a
dead holder, a restart, a lost call, a write cut short or an overrun lease; the three
mints may meet two of them. A third mint is the newcomer that can pass a parked one
again and again, which two cannot show: there a parked mint and the holder are all there
is. One token meets every actor of the ledger: pages, lists, matches and revokes treat
tokens one by one, and no step of one token looks at another (two tokens without a fault
have 4.7 million states). Two ticks overlap, the third event would be another late one;
two odds are a failed statement and what it meets. What the instances leave open, the
proofs close for the safety properties.

The runs of `MintLock`, `CredentialLedger` and `EventLane` do not check for deadlock: with
every request made, every fault spent and nothing to do for the cron, nothing is left
to happen. The others check for it.


## 5. The proofs

The eight `...Proofs` modules are checked by tlapm with Z3, Zenon and LS4. Every
statement holds for all values of the constants that satisfy the named assumptions.

| Module | Theorems | Assumptions on the constants |
|---|---|---|
| RunCoordinatorProofs | `TypeCorrect`, `Invariance`, `Fencing`, `NewestResult`, `DependencyOrder`, `Watched`, `SignalsAgree`, `UnsignalledEnd`, `LeaseKept`, `EndsFinal`, `LedgerPhase`, `Refinement` | `CoreAssumption`: `Deps` maps jobs to sets of jobs (acyclic or not), the null holder is no runner, lease and attempts are positive. `ShardAssumption`: the hermetic jobs are jobs. Jobs and runners may be infinite |
| ShardStoreProofs | `Invariance`, `TypeCorrect`, `RestartsInvisible`, `NothingLost`, `ImplementsLedger` | `CoreAssumption`. `StoreAssumption`: finitely many jobs, since a sweep lists them; puts and snapshots of at least one event. `OldLogAssumption`: an old log is not empty, holds what the deciders append and folds to a `Sound` state. The theorems' hypothesis is `Coalesced` |
| RunProjectionProofs | `TypeCorrect`, `Invariance`, `RowForward` | `ProjectionAssumption`: `JobOrder` lists the jobs, in any order and even with repetition |
| RunCreateProofs | `Invariance`, `Claimable`, `JobRows`, `StaleRows`, `RowsTrailShard` | `CreateAssumption`: finitely many jobs, at least one |
| MintLockProofs | `Invariance`, `Turns`, `NoReuse`, `StaysDeleted` | `MintLockAssumption`: mints, revokes and checks are apart, and a crowd is a set of them with a number of faults |
| CredentialLedgerProofs | `Invariance`, `SweepSpares`, `ClosedAreDead`, `RevokeReaches` | `LedgerAssumption`: `Nothing` is no token |
| EventLaneProofs | `Invariance`, `NoSkip`, `Telling`, `TellingOnce`, `Handling` | `LaneAssumption`: events are positive numbers, at least two attempts |
| WebhookDeliveryProofs | `Invariance`, `NoneLeftOut`, `Counting`, `Success` | `DeliveryAssumption`: events and rows are positive numbers, at least one try, and rows enough for the budget |

The fault bounds are constants too, so that the theorems hold for any number of dead
workers, failed statements and overlaps.

**The shard.** `EpochsFence` is not inductive: that two runners never share an epoch
depends on which epochs are still to be issued. `IInv` adds

- `HeldShape`: a holder and an epoch are there exactly while the job is held, and
  the epoch is the number of the attempt;
- `TicketsFence`: a ticket is from an attempt the job has reached; from an
  earlier one if the job is queued again; and the holder's if it is from the
  attempt in force. With it a claim (epoch = attempt of a queued job) and a
  takeover (attempt + 1) issue an epoch that no ticket has;
- `ResultIsLast`: a result belongs to a finished job and to its last attempt, so
  that no ticket is newer;
- `Untouched` and `CancelIsWhole`: before RunCreated nothing has happened, and the
  cancellation flag and the canceled jobs come and go together. With them the
  phase depends on the jobs alone and `TerminalSignal`, which ignores the flag,
  computes the phase after the step (`SignalledStep`);
- `AlarmWatches`: as long as a job is queued or held an alarm is pending, or the arming
  of one was cut off and none has been set since (`cut`); and while one is pending, `cut`
  is 0. The theorem `Watched` is what this says of a held job.

The proof has one lemma per action. Since a dozen conjuncts have to be
re-established after each, what an action does to a job is first stated once, field
by field (`FoldEffects`, `ClaimQueuedEffect`, ..., `SweepEffect`); the invariance
lemmas use these effects and never unfold the fold. `LiveLeaseIsKept` and
`EndsAreFinal` follow from `IInv` and one more case split (`JobSteps`).
`UnsignalledIsMemoized` needs another: a completion or a sweep that makes the phase
"succeeded" always appends the signal (`MemoNext`), so that only a memo hit is left.

**The refinement.** `LedgerNext`: under `IInv` a step of the shard is a step of the
ledger or leaves it unchanged. `HeldShape` is what makes the owner and the turn of
the mapping right; `CancelIsWhole` what makes the guard of `Drop` (`RunStatus =
"running"`) that of `Cancel` (`LedgerPhase`).

**The store.** That a restart is invisible is a fact about folds of sequences:
what `load()` computes from a snapshot and a tail has to be what the instance computed
event by event, however the events were cut into puts. `IInv` says of the storage, as it
is and as the writes under way would leave it (`After`), that it is `Kept`: events 1 to n
without a gap, head n or absent, the snapshot the fold of a prefix, the fold `Sound`. The
instance agrees with `After`, the events told are in the stream, and the two differ by
what one verb does to the jobs (`Verb`). The argument goes

- a put writes each event under its own number, so that the puts of `persistEvents`
  leave the stream longer by exactly the events (`EventsWritten`), whatever their size;
- a fold goes part by part (`ReduceConcat`): with the snapshot's fold that of a prefix,
  snapshot and tail rebuild the replay (`KeptRebuilt`);
- hence an append, a migration and a start keep `Kept` (`Appended`, `Migrated`,
  `Started`), and a crash chooses between `disk` and `After`;
- what each decider appends keeps the fold sound and is one `Verb` (`GiveDecides`, ...),
  and a `Verb` is a step of the ledger (`VerbSteps`). `Sound` is there for the cancel,
  which must find no job dropped before, and for the owner of the mapping.

What a fold does to any sequence is an induction over its length. The library's induction
theorems take an operator and cannot be used; `SetInduction` derives induction over a
*set* of numbers from the least-element principle of WellFoundedInduction, and every fact
about folds is stated of the set of lengths for which it holds.

**The read model.** `SaidInOrder`: of the run row, every projection that has read a
fold but not yet written, and the shard, an end once said is repeated by all that
are not older. It is preserved because the guarded update only copies a fold over
an older row, and because the shard's ends are final, which is proved from
`JobLedger`'s definitions with `DroppedIsWhole` (a drop finishes every job).

**Creation.** `RequestsAreOrdered` says how far a request at each of its steps, or
somebody else, must have come: nobody is past the shard's step before the seed.
`RowsTrail` says that a row shows no later turn than its job's, and an end only if it is
the job's: inserts, which write the first turn where there is no row, and projections
both keep it, as `ProjectionsTrail` says the same of every view that a projection has yet
to write, however old it is. That is all an unguarded row promises: it may go back to an
earlier turn, even from an end. What it shows when the run row is at the shard's position
(`StaleRows`) is the view of the newest projection, unless that one has not come to it, an
older one came later, or the row was inserted after it; `ProjectionsTrail` has the clause
for it, that a projection at the shard's position holds the shard's own views.

**The lock.** `TurnsAreExclusive` rests on `TurnsAreHeld`: a section that did not slip
is the holder's, with its token, before the lease is due. The queue is free of
repetitions, and the grant of a waiter therefore has one addressee. A lease whose alarm
was never set keeps all of this: `armed` matters to liveness alone. With turns,
`OneInside` (also beside health checks) makes the parent's copies a matter of one
section at a time: `CopiesAreFresh` and `NoneInFlight`.

**The ledger of credentials.** The sweep decides on reads made one after the other: the
pages, the rows, the re-read. `SweepIsRight` keeps what each is good for until it is used:
once the pages are read, a token that is not in the list and has a row is dead, a row in
`live` without a listed token is dead, a victim's row is not pending; each but for the
tokens whose row came at a moment of `Caught`, that a page passed over, that are past the
tenth page, or whose re-read failed. `FanOutReaches` says that after a fan-out that could
list the mints every live row's token is on its way. The exceptions are needed: without
any one of them TLC finds the invariant that has it violated.

**The lane.** `NoGaps`: a tick's batch leaves out, below its last event, only what
was handled or given up; the same is then true of the tick's own cursor, and
of the lane's whichever tick writes it, back or forward. `OneGetsThrough` orders two
events of one severity: the later is admitted only after the earlier one's statement
has seen the story opened.

**Webhooks.** `HandsAreApart` says that a row that was never doubled is in one
worker's hand, as the table has it; `NumbersAreCalls` and `CallsAreNumbered` bound an
attempt's number by the calls from both sides while nothing went wrong for the row.

Every safety property that a passing run checks is proved, then. Model-checked only:
liveness (`DeadHolderIsReleased`, `RunEnds`, `AlarmRestsWhenDone`,
`PoisonedRunHeals`, `EndSurfaces`, `EndsSurface`, `WaitersAreServed`, `OrphansGo`,
`EventsArePassed`, `RowsSettle`), since the prover handles neither fairness nor ENABLED;
and `ProjectionSweep`, whose interest is in its liveness. Without `Coalesced`
the store's theorems say nothing, and the properties do not hold (section 7).


## 6. Fairness

- `AlarmFairness`: time passes and a due alarm is eventually processed. The platform
  promises at-least-once delivery with retries. It stops retrying an alarm whose
  handler keeps failing; the model assumes that it does not get there.
- `WorkSpec` adds, for the run that ends: while a runner is up, a job in the
  frontier, or one whose lease has lapsed, is eventually claimed; a holder that asks
  again is told its lease (`Reclaim`, whose reply is not lost for ever); a runner that
  knows its lease reports. These are the runners' loop, not the shard's code. `RunEnds`
  moreover assumes that not all runners die. The takeovers are what ends a run whose
  alarm was never set; `DeadHolderIsReleased` counts on no runner and therefore has
  `cut = 0` for a premise.
- `RunCreate`: a client that does not die goes on with its request and repeats it.
- `SweepSpec`: the cron runs every minute (`wrangler.template.jsonc:23`), a verb
  that changed the shard gets as far as reading the fold, and a projection that
  was started goes on unless it dies. No further verb is assumed.
- `ProjectionSweep`: ticks start and their loops go on; strong fairness of a
  run's projection says that it does not fail for ever when it is tried again and
  again; and a run that is not forsaken ends.
- `MintLock`: a worker that lives works on, a lease runs out and its alarm fires.
  Nothing is assumed of the waiters' own timers.
- `CredentialLedger`: a live request goes on, and so does a sweep that has begun. That
  one begins for this connection is not assumed: it is the premise of `OrphansGo`. The
  code does not grant it to every connection (section 7, Credentials).
- `EventLane`, `WebhookDelivery`: the cron ticks every minute and a tick goes on
  unless it dies, which the bounds let happen a few times. Nobody need append, replay
  or switch the endpoint on.


## 7. Where the code and its documents disagree

Shown by a run that violates the documented promise:

1. `projection_job_rows`. Without any failure: a job the alarm times out after its
   run has failed keeps its running row, since the sweep selects open runs only
   (`projection-sweep.ts:41`); the sweep's header (1-6) says that it closes the gap.
2. `mint_lock_suspend`. The health check refreshes with the stored parent outside the
   mint lock; beside a mint, whose refresh has rotated the parent, it is refused and
   suspends the connection, saying (`health-supabase.ts:86`) that the grant was
   revoked at the provider.
3. `webhook_replay`. The replay of a delivery that has used up its tries gets a row
   with number 1, and with its last failure the number the first row has. The unique
   index refuses the update (`delivery.ts:325`), the row stays due, and the endpoint is
   called at every tick for ever; retries are specified as bounded.

Seen while modelling, and named by the properties' exceptions or met on the way:

*Coordination.* `init` and `claim` append first and arm the alarm afterwards
(`run-coordinator.ts:266-274`, 306-307). A shard that dies in between at the init and
again at a claim leaves a held job without an alarm, and neither the repeated init
(244-247) nor the holder's re-claim (289-291) arms one. When the runner is then killed
its job is held until somebody else asks for it, although the plan
(`saas-orun-backend-merge/implementation-plan.md:70`) has the object's alarm re-queue
it: `DeadHolderIsReleased` is violated without its premise `cut = 0`. A run whose last
open job is memoized succeeds without a RunCompleted event
(`coordination-core.ts:155-162` appends only JobMemoized; the comment at 71-73 says that
the transition emits the signal): `UnsignalledIsMemoized` says it is the only way. After
a failure the blocked dependents stay queued and the alarm is re-armed for ever
(`run-coordinator.ts:371`), hence the premise of `AlarmRestsWhenDone`. An overtaken
projection overwrites newer job rows (`projector.ts:42-60`), while the comment (19-20)
says that a stale fold writes nothing; a projection that dies between run row and job
rows is never repeated. `RunCreate` and `RunProjection` both have this, and the former
names the rows it leaves. Runs that never move keep the head of the `updated_at` order
and, once they fill a batch, no other run is swept.

*Shard storage.* The appends and the migration are several awaited puts, and what is
proved and checked of them here assumes that the platform commits them together, which
it documents for puts with no other wait between. Set `Coalesced = FALSE` in
`ShardStore.cfg` to see what hangs on it: a crash after the events and before `seq`
leaves events above a stale head; the next append takes their keys, and the live fold
has an event that the disk has not. A crash between the puts of a migration leaves a
prefix, and the next load ignores the rest.

*Credentials.* A due holder lets a newcomer overtake the parked waiters
(`mint-lock-do.ts:81`), whatever "FIFO" says, and newcomers may do so again and again.
An instance that dies between the `put` of a holder and its `setAlarm` (40-41) leaves a
lease that nothing but a later acquire clears. `updateConnectionStatus` is unconditional
(`db/src/integrations/repository.ts:398`): a health check can overwrite "revoked" with
"suspended". A revoke that dies between the status flip (`connections.ts:623`) and the
deletion of the parent is not finished by another one, which returns early (583). The
orphan sweep closes the row of a mint whose token came after the list of tokens and
whose row before the list of rows, and its re-read (`orphan-sweep.ts:109`) does not find
the rows of other organisations. A re-read that fails is taken for a row that is not
there (109-111): a credential whose row came after the list of live rows, and is by then
pending and in use, is deleted (`misread`), while the header (11-13) says that the sweep
deletes those whose row is missing or no longer pending. The list of the provider's
tokens goes by page number while tokens come and go, and ends after ten pages
(`cloudflare.ts:299`); the rows of live tokens it did not see are closed
(`orphan-sweep.ts:119-125`). A revoke that cannot list its live mints revokes none
(`credential-broker.ts:1191`) and deletes the parent (`connections.ts:705`), so that all
of them outlive it. Rows of accounts whose connection is revoked or suspended are listed
and never updated (`hub.ts:848-862`): once they fill a batch, no account is checked or
swept. The sweep takes the 25 stalest rows (`orphan-sweep.ts:38`) but updates none; the
order is the hourly check's, which updates up to 50 in the order in which it finds them,
so that with 26 to 50 accounts the same 25 are swept every day. The batch is outside the
model.

*Event lane.* The admission of an event is consumed (`notifications-lane.ts:189-199`)
before its notification is enqueued (227); when that fails, the retry that the comment
(264) counts on is no longer admitted. `loadRules` caches the rules before their targets
(130): when the second query fails, the rest of the tick runs without targets and handles
events silently. `tryNotifyGroup`'s `WITH prior` reads the statement's snapshot, not the
row it then locks, so that two statements both fire for one severity; the comment in
`rules.ts` calls it race-free. That needs two events at it together, which the order of
a lane rules out unless one failed, lost its rule or came late (`TellingOnce`). An event
with an older occurred_at (`ingest-event.ts:194`) falls behind every cursor, in lanes
specified as at-least-once (`specs/epics/saas-event-streaming/design.md:116`). A dead letter
may stay open for an event that an overlapping tick has handled.

*Webhooks.* A replay of a delivery whose row is still at number 1 (accepted at once, or
failed since the endpoint was disabled) always answers 503, though the comment at
`delivery.ts:477` says that it can never collide. A replay whose try fails while the first
row has number 2 stays pending for ever. Events dispatched again after a lost cursor write
get a second row once the first has moved past number 1, where 411 expects a conflict. A
failed look-up of the endpoint (417), or a dead worker, strands a pending row. A failed
look-up of subscriptions (394) lets a later event carry the cursor past. Overlapping ticks
deliver a row twice, and a late failure overwrites a success. The streak of failures is
not reset when a user enables an endpoint, and counts deliveries that failed unsent, so
that the next failure disables it again. Automatic retries send `data: {}`. And, outside
the model, a wildcard subscription "project.*" is matched as 'project.*.%'
(`webhooks/repository.ts:600`), which "project.created" is not.


## 8. Abstractions and bounds

Time is counted in units of the lease in `RunCoordinator`; the alarm's period is the
lease, as in the code. `leaseSeconds` 0 occurs in tests only and `CoreAssumption`
excludes it. The other modules have no clock: a lease may lapse, a token expire and a
retry be due at any moment. Digests, log heads, error texts, actors and ids are payload.
`failed` and `timed_out` results differ in `CoordinationCore` and are both "lost" in the
ledger. The fold's JOB_READY branch is not modelled: no decider appends that event, so
it is dead code today. `RunPhase` writes `created` where the code writes `created ||
active`; the two agree because an absent shard rejects every verb. In `RunProjection` a
job row shows status, owner and turn; the columns for the lease's expiry and digests
move with them. Heartbeats append without a projection there; in the code the heartbeat
projects nothing either. In `MintLock` a place in the queue and the request behind it
have one name, and a request is not made again while an old place is left; a copy of the
parent is fresh, stale or none. In `CredentialLedger` the parent is one that was pasted,
so that its deletion deletes no tokens; which tokens are past the tenth page is fixed
beforehand; and `ClosedIsDead` and `NothingOutlivesRevoke` say nothing of them. In
`EventLane` one rule matches every event, its targets count as one, and the throttle
admits or denies freely. In `WebhookDelivery` batches are never full, and one
subscription matches every event.

| Bound | Where | Why |
|---|---|---|
| `EpochBound` | `RunCoordinator` | the code bounds re-queues by `maxAttempts`, takeovers by nothing |
| `SeqBound` | `ShardStore`, `RunCreate`, `RunProjection`, `ProjectionSweep` | length of the stream |
| `CutBound` | `RunCoordinator` | appends that die unarmed before an alarm is set again; one at the init and one at a claim leave a held job without one |
| `CrashBound` | `RunProjection` | projections that die |
| `FaultBound` | `RunCreate`, `MintLock`, `CredentialLedger` | deaths, failed and lost calls, restarts, withdrawals, shifted pages |
| `Crowds` | `MintLock` | which requests meet, each with its own number of faults |
| `OddBound` | `EventLane` | overlaps, replays, failed statements, dead workers |
| `Budgets` | `WebhookDelivery` | events, replays, and the odds as above |


## 9. What is not modelled, and the plan

The repository has two hundred thousand lines of implementation in over a thousand files,
most of them row-level handlers, provider protocols, clients and user interface. The
models translate the parts where several actors meet over one state: some 3,900 lines,
about two in a hundred. That share is what it is; the rest is left out for the
reasons in `PROJECT.json` or is in the list below, and widening the lines of a definition
would not change it.

Next in the plan, each with the hazard it is for:

| Module | Models | Composes | Properties worth stating |
|---|---|---|---|
| `ObjectGc` | `gc-reachability.ts` against ref moves | | nothing reachable is deleted |
| `NativeMemo` | memo index and seals around claim and complete | `JobLedger` | the index holds only digests of recorded successes |
| `SecretLease` | `lease.ts` and its fall-back | `RunProjection` | how long a stale row may serve a secret |
| `AccountSweep` | the batches of `health-cloudflare.ts` and `orphan-sweep.ts` | `CredentialLedger` | every active account is swept again and again |
| `CliRefresh` | refresh families and the grace window | | at most one live token per family |
| `SecretRotation` | `rotation-engine.ts` | `CredentialLedger` | one rotation per due date |
| `Notifications` | send, mark, retry | `EventLane` | duplicates only after a death between send and mark |
| `LastOwner`, `PlanAssignment`, `AgentSession`, `EdgeIdempotency`, `LogAppend` | counts under concurrent transactions; provider events; agents' leases; one key twice; chunk numbers | | as in section 1 |

Not planned, for the reasons in `PROJECT.json`: protocol exchanges with external
identity and source-control providers, row-level handlers without a protocol between
them, the stateless policy and MCP workers, chat, user interfaces, clients and
infrastructure.
