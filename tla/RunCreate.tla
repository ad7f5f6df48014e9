------------------------------ MODULE RunCreate ------------------------------
(***************************************************************************)
(* The creation of a run (handleCreateRun in handlers/runs.ts): a row, the *)
(* job rows and the shard's seed, one after the other in three requests to *)
(* two stores.  Every job of a CI matrix sends the same request, clients   *)
(* repeat it, and a request can stop between any two steps; a replay heals *)
(* what an earlier one left undone.                                        *)
(*                                                                         *)
(* The shard is a JobLedger.  Runners work as soon as it is seeded, and    *)
(* projections of the shard run beside the requests: an update of the run  *)
(* row that is guarded by last_seq, and then one of every job row that is  *)
(* not, so they overlap and overtake one another.  (RunProjection also has *)
(* the read of the fold apart, and the order of the job rows.)             *)
(***************************************************************************)
EXTENDS Integers, FiniteSets

CONSTANTS
  Jobs, Deps, Runners, Nobody,
  Clients,     \* who sends the request
  FaultBound,  \* bound: requests that die, and calls that fail
  SeqBound     \* bound: the events of the stream

ASSUME CreateAssumption ==
  /\ IsFiniteSet(Jobs) /\ Jobs # {}
  /\ FaultBound \in Nat /\ SeqBound \in Nat \ {0}

VARIABLES
  status, owner, turn,  \* the shard's jobs, as in JobLedger
  seq,                  \* fold.lastSeq; 0 when the shard was never seeded
  runRow,               \* state.runs: status and last_seq, or NoRow
  jobRow,               \* state.run_jobs: what each row shows, or NoRow
  step,                 \* where each client's request is
  acked,                \* the clients answered 200 or 201
  unhealed,             \* the last heal of the job rows failed, and was answered
  owed,                 \* a verb has changed the shard and not projected yet
  under,                \* the projections that have written the run row and not
                        \* all job rows: their position, and what they have yet
                        \* to write; one that died is one that never goes on
  overtaken,            \* ghost: the job rows last written by a projection
                        \* older than the run row
  faults

shard == << status, owner, turn, seq >>
rows  == << runRow, jobRow >>
reqs  == << step, acked, unhealed, faults >>
projs == << owed, under, overtaken >>
vars  == << shard, rows, reqs, projs >>

Shard == INSTANCE JobLedger

Ended  == {"succeeded", "failed", "canceled"}
NoRow  == [status |-> "none"]
Queued == [status |-> "open", owner |-> Nobody, turn |-> 1]

JobView(j) == [status |-> status[j], owner |-> owner[j], turn |-> turn[j]]

\* Nothing was created yet; or an earlier version of the worker, which wrote the
\* job rows one by one, died and left the row, some job rows and no shard.
Init ==
  /\ Shard!Init /\ seq = 0
  /\ \/ runRow = NoRow /\ jobRow = [j \in Jobs |-> NoRow]
     \/ /\ runRow = [status |-> "pending", seq |-> 0]
        /\ \E done \in SUBSET Jobs :
             jobRow = [j \in Jobs |-> IF j \in done THEN Queued ELSE NoRow]
  /\ step = [c \in Clients |-> "idle"]
  /\ acked = {} /\ unhealed = FALSE /\ faults = 0
  /\ owed = FALSE /\ under = {} /\ overtaken = {}

Goes(c, to) == step' = [step EXCEPT ![c] = to]

Fault == faults < FaultBound /\ faults' = faults + 1

-----------------------------------------------------------------------------
(* The request, one step per call to a store.                              *)

Bug_RowLast(c) ==
  /\ step[c] = "idle"
  /\ Goes(c, IF runRow = NoRow THEN "jobs" ELSE "healShard")
  /\ UNCHANGED << shard, rows, acked, unhealed, faults, projs >>

Bug_ReplayOnlyReads(c) ==
  /\ step[c] = "idle"
  /\ Goes(c, IF runRow = NoRow THEN "create" ELSE "idle")
  /\ UNCHANGED << shard, rows, acked, unhealed, faults, projs >>

\* getRunByUlid: a known run is healed, an unknown one created.
LookUp(c) ==
  /\ step[c] = "idle"
  /\ Goes(c, IF runRow = NoRow THEN "create" ELSE "healShard")
  /\ UNCHANGED << shard, rows, acked, unhealed, faults, projs >>

\* Projector not ready, over quota or no plan object: refused, nothing written.
Refuse(c) ==
  /\ step[c] = "create"
  /\ Fault
  /\ Goes(c, "idle")
  /\ UNCHANGED << shard, rows, acked, unhealed, projs >>

\* createRun: INSERT ... ON CONFLICT DO NOTHING; the loser of a race heals.
InsertRun(c) ==
  /\ step[c] = "create"
  /\ IF runRow = NoRow
       THEN runRow' = [status |-> "pending", seq |-> 0] /\ Goes(c, "jobs")
       ELSE Goes(c, "healShard") /\ UNCHANGED runRow
  /\ UNCHANGED << shard, jobRow, acked, unhealed, faults, projs >>

\* createRunJobsBulk: rows that are there are left alone.
InsertJobs == jobRow' = [j \in Jobs |-> IF jobRow[j] = NoRow THEN Queued ELSE jobRow[j]]

CreateJobs(c) ==
  /\ step[c] = "jobs"
  /\ InsertJobs
  /\ Goes(c, "seed")
  /\ UNCHANGED << shard, runRow, acked, unhealed, faults, projs >>

\* initCoordinator: seeds an absent shard, and accepts the plan it has.
InitShard ==
  /\ seq' = IF seq = 0 THEN 1 ELSE seq
  /\ UNCHANGED << status, owner, turn >>

\* The creator's seed; the reply is 201.
Seed(c) ==
  /\ step[c] = "seed"
  /\ InitShard
  /\ Goes(c, "idle") /\ acked' = acked \cup {c}
  /\ UNCHANGED << rows, unhealed, faults, projs >>

Bug_HealEmptyOnly(c) ==
  /\ step[c] = "healShard"
  /\ IF \A j \in Jobs : jobRow[j] = NoRow THEN InitShard ELSE UNCHANGED shard
  /\ Goes(c, "healJobs")
  /\ UNCHANGED << rows, acked, unhealed, faults, projs >>

\* healShardIfUnseeded.
HealShard(c) ==
  /\ step[c] = "healShard"
  /\ InitShard
  /\ Goes(c, "healJobs")
  /\ UNCHANGED << rows, acked, unhealed, faults, projs >>

\* The counts have a bucket for every status but canceled.
SeenAll ==
  Cardinality({ j \in Jobs : jobRow[j].status \notin {"none", "dropped"} })
    >= Cardinality(Jobs)

\* healMissingJobRows; the reply is 200, also if the insert failed.
HealJobs(c) ==
  /\ step[c] = "healJobs"
  /\ \/ ~SeenAll /\ InsertJobs /\ unhealed' = FALSE /\ UNCHANGED faults
     \/ ~SeenAll /\ Fault /\ unhealed' = TRUE /\ UNCHANGED jobRow
     \/ SeenAll /\ unhealed' = FALSE /\ UNCHANGED << jobRow, faults >>
  /\ Goes(c, "idle") /\ acked' = acked \cup {c}
  /\ UNCHANGED << shard, runRow, projs >>

\* The request dies, or a call fails and it is answered 503: the client comes
\* again.
Dies(c) ==
  /\ step[c] # "idle"
  /\ Fault
  /\ Goes(c, "idle")
  /\ UNCHANGED << shard, rows, acked, unhealed, projs >>

Request(c) ==
  LookUp(c) \/ InsertRun(c) \/ CreateJobs(c) \/ Seed(c) \/ HealShard(c) \/ HealJobs(c)

-----------------------------------------------------------------------------
(* The shard and its projections.                                          *)

Appends == seq \in 1 .. SeqBound - 1 /\ seq' = seq + 1

VerbMoves ==
  /\ Appends /\ Shard!Request
  /\ owed' = TRUE
  /\ UNCHANGED << rows, reqs, under, overtaken >>

AlarmMoves ==
  /\ Appends /\ Shard!Timeout
  /\ UNCHANGED << rows, reqs, projs >>

Bug_HasQueued(j) == jobRow[j] = Queued

\* A projection updates the rows it finds.
Has(j) == jobRow[j] # NoRow

\* After a verb, or by the sweep while the row is open: the fold is read, and the
\* run row updated if its last_seq is behind.  (An update that comes later than
\* its read is refused, or might as well have come at once: only the guard of
\* another update looks at last_seq.)
ProjectRun ==
  /\ owed \/ runRow.status \notin Ended
  /\ owed' = FALSE
  /\ IF runRow # NoRow /\ seq > runRow.seq
       THEN /\ runRow' = [status |-> Shard!RunStatus, seq |-> seq]
            /\ under' = under \cup
                 {[seq |-> seq, todo |-> [j \in Jobs |-> JobView(j)]]}
       ELSE UNCHANGED << runRow, under >>
  /\ UNCHANGED << shard, jobRow, overtaken, reqs >>

Left(p) == DOMAIN p.todo

\* The update of one job row, in the one order of the plan: nothing compares
\* positions any more.
ProjectJob(p, j) ==
  /\ j = CHOOSE k \in Left(p) : TRUE
  /\ IF Has(j)
       THEN /\ jobRow' = [jobRow EXCEPT ![j] = p.todo[j]]
            /\ overtaken' = IF p.seq < runRow.seq THEN overtaken \cup {j}
                                                 ELSE overtaken \ {j}
       ELSE UNCHANGED << jobRow, overtaken >>
  /\ under' = (under \ {p}) \cup
       (IF Left(p) = {j} THEN {}
        ELSE {[seq |-> p.seq, todo |-> [k \in Left(p) \ {j} |-> p.todo[k]]]})
  /\ UNCHANGED << shard, runRow, owed, reqs >>

Next ==
  \/ \E c \in Clients : Request(c) \/ Refuse(c) \/ Dies(c)
  \/ VerbMoves \/ AlarmMoves
  \/ ProjectRun
  \/ \E p \in under : \E j \in Left(p) : ProjectJob(p, j)

(* Clients repeat their request, and one that does not die goes on.        *)
Spec == Init /\ [][Next]_vars /\ \A c \in Clients : WF_vars(Request(c))

-----------------------------------------------------------------------------
Statuses == {"open", "held", "won", "lost", "dropped"}

Views == [status : Statuses, owner : Runners \cup {Nobody}, turn : Nat \ {0}]

TypeOK ==
  /\ status \in [Jobs -> Statuses] /\ owner \in [Jobs -> Runners \cup {Nobody}]
  /\ turn \in [Jobs -> Nat \ {0}]
  /\ seq \in 0 .. SeqBound
  /\ runRow \in {NoRow} \cup [status : {"pending", "running"} \cup Ended, seq : 0 .. seq]
  /\ jobRow \in [Jobs -> {NoRow} \cup Views]
  /\ runRow = NoRow => acked = {} /\ seq = 0 /\ \A j \in Jobs : jobRow[j] = NoRow
  /\ step \in [Clients -> {"idle", "create", "jobs", "seed", "healShard", "healJobs"}]
  /\ acked \subseteq Clients /\ unhealed \in BOOLEAN /\ owed \in BOOLEAN
  /\ \A p \in under :
       p.seq \in 1 .. seq /\ Left(p) \subseteq Jobs /\ \A j \in Left(p) : p.todo[j] \in Views
  /\ overtaken \subseteq Jobs
  /\ faults \in 0 .. FaultBound

\* A client that was answered can claim: whichever request wrote the row, and
\* wherever it died, the shard has been seeded with the plan.
AnsweredIsClaimable == acked # {} => seq > 0

\* A run that was answered for has a row for every job, unless the heal of the
\* rows failed, which only the next replay repairs.
AnsweredHasJobRows ==
  acked # {} /\ ~unhealed => \A j \in Jobs : jobRow[j] # NoRow

\* In a read model that is at the shard's position a job row that disagrees with
\* the shard shows a job nobody has touched, never one that looks held or done:
\* it was inserted after its projection.  Excepted are the rows the projection of
\* this position has not come to, or died before, and those that an overtaken
\* one wrote last.
StaleRowsLookQueued ==
  runRow # NoRow /\ runRow.seq = seq /\ seq > 0 =>
    \A j \in Jobs \ overtaken :
      \/ jobRow[j] \in {JobView(j), Queued, NoRow}
      \/ \E p \in under : p.seq = seq /\ j \in Left(p)

\* What the safety properties need: how far each request has come, that only held
\* jobs have an owner, and that no row and no projection is ahead of the shard or
\* shows an end that is not the job's own.
RequestsAreOrdered ==
  \A c \in Clients :
    /\ step[c] \in {"jobs", "seed", "healShard", "healJobs"} => runRow # NoRow
    /\ step[c] = "seed" => \A j \in Jobs : jobRow[j] # NoRow
    /\ step[c] = "healJobs" => seq > 0

OnlyHeldAreOwned == \A j \in Jobs : status[j] # "held" => owner[j] = Nobody

Trails(view, j) ==
  /\ view.turn <= turn[j]
  /\ view.status \in Shard!Done => view = JobView(j)

RowsTrail == \A j \in Jobs : jobRow[j] # NoRow => Trails(jobRow[j], j)

ProjectionsTrail ==
  \A p \in under :
    /\ runRow # NoRow /\ p.seq <= runRow.seq
    /\ \A j \in Left(p) : /\ Trails(p.todo[j], j)
                          /\ p.seq = seq => p.todo[j] = JobView(j)

\* The inductive invariant.
IInv ==
  /\ TypeOK
  /\ RequestsAreOrdered /\ OnlyHeldAreOwned /\ RowsTrail /\ ProjectionsTrail
  /\ AnsweredIsClaimable /\ AnsweredHasJobRows /\ StaleRowsLookQueued

\* A run whose row exists becomes claimable, whoever wrote the row and died, as
\* long as one client keeps asking.
PoisonedRunHeals == (runRow # NoRow) ~> (seq > 0)
==============================================================================
