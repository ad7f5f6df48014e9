------------------------------ MODULE ShardStore ------------------------------
(***************************************************************************)
(* How a coordinator shard keeps its stream (run-coordinator.ts): an event *)
(* per storage key, the head number, a snapshot of the fold from time to   *)
(* time, the single `log' value of shards written before, and the fold in  *)
(* memory, which an eviction loses and load() rebuilds.                    *)
(*                                                                         *)
(* A verb hands storage several writes and replies when they are durable.  *)
(* The platform commits writes that no other wait separates as one         *)
(* (Coalesced); without that a crash keeps any prefix of them.             *)
(*                                                                         *)
(* There is no clock here: a lease may lapse whenever it is held.          *)
(***************************************************************************)
EXTENDS CoordinationCore, SequencesExt

CONSTANTS
  Batch,          \* the events one put writes: 128 in the code
  SnapshotEvery,  \* SNAPSHOT_EVERY
  OldLogs,        \* the events of the `log' values that older shards may hold
  Coalesced,      \* an append's writes are durable together or not at all
  SeqBound        \* bound: the events of the stream

ASSUME StoreAssumption ==
  /\ IsFiniteSet(Jobs)
  /\ Batch \in Nat \ {0} /\ SnapshotEvery \in Nat \ {0}
  /\ Coalesced \in BOOLEAN /\ SeqBound \in Nat

VARIABLES
  disk,     \* the object's storage
  mem,      \* the instance: its fold, headSeq, snapAt and whether it has a plan
  pending,  \* the writes of the verb under way, and the events they carry
  told      \* the events of acknowledged verbs

vars == << disk, mem, pending, told >>

Event(kind, j, r, epoch) == [kind |-> kind, job |-> j, runner |-> r, epoch |-> epoch]
RunEvent(kind) == [kind |-> kind]

\* What the deciders append, and the events it becomes.
Intents ==
  [kind : {"RunCreated", "RunCanceled", "RunCompleted", "RunFailed"}]
    \cup [kind : {"JobClaimed"}, job : Jobs, runner : Runners, epoch : Nat \ {0}]
    \cup [kind : {"LeaseRenewed", "LeaseExpired"} \cup JobSuccess \cup JobFailure,
          job : Jobs, runner : Runners \cup {NoRunner}, epoch : Nat]

Events == [seq : Nat \ {0}, what : Intents]

Numbered(first, intents) ==
  [i \in DOMAIN intents |-> [seq |-> first + i - 1, what |-> intents[i]]]

BlankFold ==
  [jobs |-> [j \in Jobs |-> FreshJob], created |-> FALSE, canceled |-> FALSE, last |-> 0]

\* reduceFrom, one event.
Apply(st, e) ==
  LET w == e.what
      Goes(jobs) == [st EXCEPT !.jobs = jobs, !.last = Max({@, e.seq})]
      At(jb)     == Goes([st.jobs EXCEPT ![w.job] = jb])
      old        == st.jobs[w.job]
  IN  CASE w.kind = "RunCreated"   -> [Goes(st.jobs) EXCEPT !.created = TRUE]
        [] w.kind = "RunCanceled"  -> [Goes(RunCanceled(st.jobs)) EXCEPT !.canceled = TRUE]
        [] w.kind = "JobClaimed"   -> At(JobClaimed(old, w.runner, w.epoch, w.epoch))
        [] w.kind = "LeaseRenewed" -> At(LeaseRenewed(old, w.runner, w.epoch))
        [] w.kind = "LeaseExpired" -> At(LeaseExpired(old, w.epoch))
        [] w.kind \in JobTerminal  -> At(JobFinished(old, w.kind))
        [] OTHER                   -> Goes(st.jobs)

ReduceFrom(st, events) == FoldLeft(Apply, st, events)

\* What the deciders keep true of a fold: a job has a holder while it is held,
\* and only a cancel drops jobs, all that are left.
Sound(st) ==
  /\ \A j \in Jobs : IF st.jobs[j].phase = "claimed"
                     THEN st.jobs[j].holder \in Runners ELSE st.jobs[j].holder = NoRunner
  /\ st.canceled => \A j \in Jobs : st.jobs[j].phase \in JobTerminal
  /\ (\E j \in Jobs : st.jobs[j].phase = "canceled") => st.canceled

\* Older shards ran the same deciders.
ASSUME OldLogAssumption ==
  \A log \in OldLogs :
    log \in Seq(Intents) /\ log # << >> /\ Sound(ReduceFrom(BlankFold, Numbered(1, log)))

PhaseOf(st) ==
  RunPhase(PhasesOf(st.jobs), st.canceled,
           st.created \/ \E j \in Jobs : st.jobs[j].phase # "queued")

-----------------------------------------------------------------------------
(* Storage.                                                                *)

NoSnap  == [fold |-> BlankFold, through |-> 0]
NoMem   == [loaded |-> FALSE, planned |-> FALSE, fold |-> BlankFold, head |-> 0, snapAt |-> 0]
Nothing == [writes |-> << >>, events |-> << >>]

FreshDisk(log) ==
  [plan |-> log # << >>, digest |-> log # << >>, events |-> << >>, head |-> 0,
   snap |-> NoSnap, log |-> log]

Put(key, val) == [key |-> key, val |-> val]

\* The entries of a put of events, each under its number, and what they leave.
Entries(events) ==
  [n \in {e.seq : e \in Range(events)} |-> CHOOSE e \in Range(events) : e.seq = n]

Over(old, new) ==
  [n \in DOMAIN old \cup DOMAIN new |-> IF n \in DOMAIN new THEN new[n] ELSE old[n]]

\* One write: put or delete of a key, or a put of some event keys.
Written(d, w) ==
  IF w.key = "events"
    THEN [d EXCEPT !.events = Over(@, Entries(w.val))]
    ELSE [d EXCEPT ![w.key] = w.val]

AllWritten(d, writes) == FoldLeft(Written, d, writes)

\* persistEvents: Batch events per put, each under its number.
PersistEvents(events) ==
  [i \in 1 .. (Len(events) + Batch - 1) \div Batch |->
     Put("events", SubSeq(events, (i - 1) * Batch + 1, Min({i * Batch, Len(events)})))]

Bug_AfterSkipsOne(d, n) == SubSeq(d.events, n + 2, Len(d.events))

\* readEventsAfter; the keys have no gaps.
EventsAfter(d, n) == SubSeq(d.events, n + 1, Len(d.events))

\* The fold load() would rebuild from storage.
Rebuilt(d) ==
  IF d.snap.through > 0
    THEN ReduceFrom(d.snap.fold, EventsAfter(d, d.snap.through))
    ELSE ReduceFrom(BlankFold, IF d.events = << >> THEN d.log ELSE EventsAfter(d, 0))

\* A snapshot of the fold from before the append, under the number after it.
Bug_SnapshotBefore(st, f, at) ==
  IF f.last - at >= SnapshotEvery
    THEN << Put("snap", [fold |-> st, through |-> f.last]) >> ELSE << >>

\* maybeSnapshot: every so often, and at the end of the run.
MaybeSnapshot(st, f, at) ==
  IF f.last - at >= SnapshotEvery \/ (PhaseOf(f) \in RunTerminal /\ f.last > at)
    THEN << Put("snap", [fold |-> f, through |-> f.last]) >> ELSE << >>

Bug_HeadOfSnapshot(d) == IF d.head > 0 THEN d.snap.through ELSE Rebuilt(d).last

\* headSeq as load() sets it.
HeadOf(d) == IF d.head > 0 THEN d.head ELSE Rebuilt(d).last

-----------------------------------------------------------------------------
\* A shard that was never initialised, or one with the log of an older version.
Init ==
  /\ \E log \in {<< >>} \cup { Numbered(1, old) : old \in OldLogs } :
       disk = FreshDisk(log) /\ told = Range(log)
  /\ mem = NoMem
  /\ pending = Nothing

Idle == pending = Nothing

\* The first use of an instance rebuilds the fold; an old log is migrated.
Migrates ==
  IF disk.snap.through = 0 /\ disk.events = << >> /\ disk.log # << >>
    THEN pending' = [writes |-> Append(PersistEvents(disk.log), Put("log", << >>)),
                     events |-> << >>]
    ELSE UNCHANGED pending

Load ==
  /\ Idle /\ ~mem.loaded
  /\ mem' = [loaded |-> TRUE, planned |-> disk.plan, fold |-> Rebuilt(disk),
             head |-> HeadOf(disk), snapAt |-> disk.snap.through]
  /\ Migrates
  /\ UNCHANGED << disk, told >>

\* POST /init, when no plan digest is stored.
InitRun ==
  /\ Idle /\ ~disk.digest
  /\ LET first == Numbered(1, << RunEvent("RunCreated") >>)
     IN  /\ pending' =
              [writes |-> << Put("plan", TRUE), Put("digest", TRUE) >>
                            \o PersistEvents(first) \o << Put("head", 1) >>,
               events |-> first]
         /\ mem' = [loaded |-> TRUE, planned |-> TRUE,
                    fold |-> ReduceFrom(BlankFold, first), head |-> 1, snapAt |-> 0]
  /\ UNCHANGED << disk, told >>

\* appendAll.
AppendAll(intents) ==
  LET events == Numbered(mem.head + 1, intents)
      head   == mem.head + Len(intents)
      f      == ReduceFrom(mem.fold, events)
      snap   == MaybeSnapshot(mem.fold, f, mem.snapAt)
  IN  /\ Idle /\ mem.loaded /\ mem.planned
      /\ head <= SeqBound
      /\ pending' = [writes |-> PersistEvents(events)
                                  \o << Put("head", head) >> \o snap,
                     events |-> events]
      /\ mem' = [mem EXCEPT !.fold = f, !.head = head,
                            !.snapAt = IF snap = << >> THEN @ ELSE f.last]
      /\ UNCHANGED << disk, told >>

Signal(overrides) ==
  LET kinds == TerminalSignal(mem.fold.jobs, mem.fold.canceled, mem.fold.created, overrides)
  IN  [i \in DOMAIN kinds |-> RunEvent(kinds[i])]

\* The verbs, by the events their deciders return.  A ready job may have a
\* recorded result (a memo hit), and a held one may have lapsed.
Claim(j, r) ==
  LET jobs == mem.fold.jobs
      jb   == jobs[j]
  IN  \/ /\ j \in Frontier(jobs)
         /\ \/ AppendAll(<< Event("JobClaimed", j, r, jb.attempt) >>)
            \/ AppendAll(<< Event("memoized", j, NoRunner, 0) >>)
      \/ /\ jb.phase = "claimed" /\ jb.holder # r /\ DepsSatisfied(jobs, j)
         /\ AppendAll(<< Event("LeaseExpired", j, jb.holder, jb.leaseEpoch),
                         Event("JobClaimed", j, r, jb.attempt + 1) >>)

Heartbeat(j) ==
  LET jb == mem.fold.jobs[j]
  IN  /\ jb.phase = "claimed"
      /\ AppendAll(<< Event("LeaseRenewed", j, jb.holder, jb.leaseEpoch) >>)

Complete(j, outcome) ==
  LET jb == mem.fold.jobs[j]
  IN  /\ jb.phase = "claimed"
      /\ AppendAll(<< Event(outcome, j, jb.holder, jb.leaseEpoch) >>
                     \o Signal([k \in {j} |-> outcome]))

Cancel ==
  /\ PhaseOf(mem.fold) \notin RunTerminal
  /\ AppendAll(<< RunEvent("RunCanceled") >>)

\* The alarm's sweep of some held jobs.
Sweep(gone) ==
  LET jobs == mem.fold.jobs
      Expiry(j) == Event(IF SweepPhase(jobs[j]) = "timed_out" THEN "timed_out"
                         ELSE "LeaseExpired", j, jobs[j].holder, jobs[j].leaseEpoch)
      order == SetToSeq(gone)
  IN  /\ gone # {} /\ \A j \in gone : jobs[j].phase = "claimed"
      /\ AppendAll([i \in DOMAIN order |-> Expiry(order[i])]
                     \o Signal([j \in gone |-> SweepPhase(jobs[j])]))

\* The writes are durable, and the reply leaves.
Commit ==
  /\ ~Idle
  /\ disk' = AllWritten(disk, pending.writes)
  /\ told' = told \cup Range(pending.events)
  /\ pending' = Nothing
  /\ UNCHANGED mem

\* The instance goes away: evicted while idle, or killed in a verb.
Crash ==
  /\ mem.loaded
  /\ \E kept \in IF Coalesced THEN {0, Len(pending.writes)}
                 ELSE 0 .. Len(pending.writes) :
       disk' = AllWritten(disk, SubSeq(pending.writes, 1, kept))
  /\ mem' = NoMem
  /\ pending' = Nothing
  /\ UNCHANGED told

Next ==
  \/ Load \/ InitRun \/ Cancel \/ Commit \/ Crash
  \/ \E j \in Jobs :
       \/ \E r \in Runners : Claim(j, r)
       \/ Heartbeat(j)
       \/ \E outcome \in {"succeeded", "failed", "timed_out"} : Complete(j, outcome)
  \/ \E gone \in SUBSET Jobs : Sweep(gone)

Spec == Init /\ [][Next]_vars

-----------------------------------------------------------------------------
\* The stream that is durable, in the old form or the new.
Stream(d) == IF d.events = << >> THEN d.log ELSE EventsAfter(d, 0)

Replay(d) == ReduceFrom(BlankFold, Stream(d))

Folds ==
  [jobs : [Jobs -> JobState], created : BOOLEAN, canceled : BOOLEAN, last : Nat]

TypeOK ==
  /\ disk.plan = disk.digest
  /\ DOMAIN disk.events = 1 .. Cardinality(DOMAIN disk.events)
  /\ disk.head \in {0} \cup DOMAIN disk.events
  /\ disk.snap.through \in {0} \cup DOMAIN disk.events
  /\ mem.fold \in Folds /\ disk.snap.fold \in Folds
  /\ mem.loaded => mem.head = mem.fold.last

\* What a fresh instance rebuilds, from a snapshot and the events after it or
\* from an old log, is what replaying the whole stream gives; and a live one,
\* which folds incrementally and never reads its events back, agrees with it.
RebuiltIsLive ==
  /\ Rebuilt(disk) = Replay(disk)
  /\ mem.loaded /\ Idle => mem.fold = Rebuilt(disk)

\* No event of an acknowledged verb is ever lost, overwritten or renumbered:
\* evictions, crashes in a verb, snapshots and the migration keep it.
AcknowledgedSurvive == told \subseteq Range(Stream(disk))

\* With the durable stream as its state the store is the abstract ledger:
\* restarts are invisible, and no epoch is given again after one.
StatusOf(phase) ==
  CASE phase = "queued"    -> "open"
    [] phase = "claimed"   -> "held"
    [] phase \in JobSuccess -> "won"
    [] phase \in JobFailure -> "lost"
    [] phase = "canceled"  -> "dropped"

Statuses(jobs) == [j \in Jobs |-> StatusOf(jobs[j].phase)]
Owners(jobs)   == [j \in Jobs |-> jobs[j].holder]
Turns(jobs)    == [j \in Jobs |-> jobs[j].attempt]

Ledger ==
  INSTANCE JobLedger WITH
    Nobody <- NoRunner,
    status <- Statuses(Rebuilt(disk).jobs),
    owner  <- Owners(Rebuilt(disk).jobs),
    turn   <- Turns(Rebuilt(disk).jobs)

LedgerSteps == [][Ledger!Next]_(Ledger!ledger)

-----------------------------------------------------------------------------
(* The inductive invariant, where an append's writes become durable as one *)
(* (Coalesced).                                                            *)

Disks ==
  [plan : BOOLEAN, digest : BOOLEAN, events : Seq(Events), head : Nat,
   snap : [fold : Folds, through : Nat], log : Seq(Events)]

Instances ==
  [loaded : BOOLEAN, planned : BOOLEAN, fold : Folds, head : Nat, snapAt : Nat]

\* Storage when no verb is under way: one numbered stream, and a head and a
\* snapshot that belong to it.
Kept(d) ==
  /\ d \in Disks /\ d.digest = d.plan /\ (d.plan <=> Stream(d) # << >>)
  /\ d.events = << >> \/ d.log = << >>
  /\ \A i \in DOMAIN Stream(d) : Stream(d)[i].seq = i
  /\ d.head \in {0, Len(d.events)}
  /\ d.snap.through \in 0 .. Len(d.events) /\ (d.head = 0 => d.snap.through = 0)
  /\ d.snap.fold = ReduceFrom(BlankFold, SubSeq(d.events, 1, d.snap.through))
  /\ Sound(Replay(d))

\* What the verb under way leaves.
After == AllWritten(disk, pending.writes)

\* What a verb does to the jobs of a fold, as the ledger sees it.
Verb(f, g) ==
  LET Same(j) == /\ g[j].phase = f[j].phase /\ g[j].holder = f[j].holder
                 /\ g[j].attempt = f[j].attempt
      Held(j, r, n) == g[j].phase = "claimed" /\ g[j].holder = r /\ g[j].attempt = n
      Left(j, n) == g[j].holder = NoRunner /\ g[j].attempt = n
  IN  \/ \A j \in Jobs : Same(j)
      \/ \E j \in Jobs, r \in Runners :
           /\ \A k \in Jobs \ {j} : Same(k)
           /\ \/ j \in Frontier(f) /\ Held(j, r, f[j].attempt)
              \/ f[j].phase = "claimed" /\ f[j].holder # r /\ Held(j, r, f[j].attempt + 1)
      \/ \E gone \in SUBSET Jobs :
           /\ \A k \in Jobs \ gone : Same(k)
           /\ \A j \in gone : /\ f[j].phase = "claimed"
                              /\ \/ g[j].phase \in JobFailure /\ Left(j, f[j].attempt)
                                 \/ g[j].phase = "queued" /\ Left(j, f[j].attempt + 1)
      \/ \E j \in Jobs :
           /\ \/ f[j].phase = "claimed" /\ g[j].phase = "succeeded"
              \/ j \in Frontier(f) /\ g[j].phase = "memoized"
           /\ Left(j, f[j].attempt) /\ \A k \in Jobs \ {j} : Same(k)
      \/ /\ RunPhase(PhasesOf(f), FALSE, TRUE) = "running"
         /\ \A j \in Jobs : f[j].phase # "canceled"
         /\ \A j \in Jobs :
              \/ f[j].phase \in JobTerminal /\ Same(j)
              \/ /\ f[j].phase \notin JobTerminal
                 /\ g[j].phase = "canceled" /\ Left(j, f[j].attempt)

IInv ==
  /\ Kept(disk) /\ Kept(After)
  /\ mem \in Instances /\ pending.writes \in Seq(Range(pending.writes))
  /\ IF mem.loaded
       THEN /\ mem.fold = Replay(After) /\ mem.planned = After.plan
            /\ mem.head = Len(Stream(After)) /\ After.log = << >>
       ELSE mem = NoMem /\ Idle
  /\ told \subseteq Range(Stream(disk))
  /\ told \cup Range(pending.events) \subseteq Range(Stream(After))
  /\ Verb(Replay(disk).jobs, Replay(After).jobs)
==============================================================================
