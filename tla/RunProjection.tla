---------------------------- MODULE RunProjection ----------------------------
(***************************************************************************)
(* The Postgres read model of one run: state.runs and state.run_jobs,      *)
(* written by projections of the shard's fold (coordination-route.ts,      *)
(* packages/db/src/state/projector.ts, projection-sweep.ts).               *)
(*                                                                         *)
(* The shard is the JobLedger that RunCoordinator implements, with the     *)
(* stream position `seq' beside it.  A projection reads the fold, updates  *)
(* the run row if its last_seq is behind, and then updates the job rows    *)
(* one by one; each of these is a round trip, so projections started by    *)
(* verbs and by the cron interleave, and one can die between any two.      *)
(***************************************************************************)
EXTENDS Integers, Sequences

CONSTANTS
  Jobs, Deps, Runners, Nobody,
  JobOrder,    \* the jobs in jobId order
  Workers,     \* the invocations that can project at the same time
  SeqBound,    \* bound: the events of the stream
  CrashBound   \* bound: the projections that die half way

ASSUME ProjectionAssumption ==
  /\ JobOrder \in Seq(Jobs)
  /\ Jobs = {JobOrder[i] : i \in DOMAIN JobOrder}
  /\ SeqBound \in Nat /\ CrashBound \in Nat

VARIABLES
  status, owner, turn,  \* the shard's jobs, as in JobLedger
  seq,                  \* fold.lastSeq
  runRow,               \* state.runs: status and last_seq
  jobRow,               \* state.run_jobs: what each row shows
  step,                 \* where each projection is
  fold,                 \* the fold each projection has read
  todo,                 \* the job rows each projection still has to update
  owed,                 \* a verb has changed the shard and not projected yet
  crashes

shard == << status, owner, turn, seq >>
rows  == << runRow, jobRow >>
work  == << step, fold, todo, owed, crashes >>
vars  == << shard, rows, work >>

Shard == INSTANCE JobLedger

Open  == {"pending", "running"}
Ended == {"succeeded", "failed", "canceled"}

JobView(j) == [status |-> status[j], owner |-> owner[j], turn |-> turn[j]]

\* GET /state.
FoldNow ==
  [seq |-> seq, run |-> Shard!RunStatus, jobs |-> [j \in Jobs |-> JobView(j)]]

NoFold == [seq |-> 0, run |-> "pending", jobs |-> << >>]

\* createRun leaves a pending row at last_seq 0, open job rows, and a shard
\* whose stream holds RunCreated.
Init ==
  /\ Shard!Init
  /\ seq = 1
  /\ runRow = [status |-> "pending", seq |-> 0]
  /\ jobRow = [j \in Jobs |-> JobView(j)]
  /\ step = [w \in Workers |-> "idle"]
  /\ fold = [w \in Workers |-> NoFold]
  /\ todo = [w \in Workers |-> << >>]
  /\ owed = FALSE
  /\ crashes = 0

Appends == seq < SeqBound /\ seq' = seq + 1

\* A claim, a completion or a cancel appends events and projects afterwards.
VerbMoves ==
  /\ Appends
  /\ Shard!Request
  /\ owed' = TRUE
  /\ UNCHANGED << rows, step, fold, todo, crashes >>

\* The alarm's sweep, and a heartbeat's renewal: events, but no projection.
QuietlyMoves ==
  /\ Appends
  /\ Shard!Timeout \/ UNCHANGED << status, owner, turn >>
  /\ UNCHANGED << rows, work >>

\* projectCoordinatorRun reads the fold.
ReadFold(w) ==
  /\ step[w] = "idle"
  /\ step' = [step EXCEPT ![w] = "folded"]
  /\ fold' = [fold EXCEPT ![w] = FoldNow]
  /\ UNCHANGED << shard, rows, todo, crashes >>

\* After a verb, granted or refused.
VerbReads(w) == ReadFold(w) /\ owed' = FALSE

Bug_SweepRunningOnly == runRow.status = "running"

\* The cron sweep projects the runs that the read model shows as open.
SweepSelects == runRow.status \in Open

SweepReads(w) == SweepSelects /\ ReadFold(w) /\ UNCHANGED owed

Bug_Unguarded(w) == TRUE

\* The update's WHERE clause.  The plan's own check against an earlier SELECT
\* of last_seq never refuses what this one accepts, since last_seq only grows.
Newer(w) == runRow.seq < fold[w].seq

\* A projection is over.
Drops(w) ==
  /\ step' = [step EXCEPT ![w] = "idle"]
  /\ fold' = [fold EXCEPT ![w] = NoFold]
  /\ todo' = [todo EXCEPT ![w] = << >>]

\* The conditional update of the run row.
WriteRun(w) ==
  /\ step[w] = "folded" /\ Newer(w)
  /\ runRow' = [status |-> fold[w].run, seq |-> fold[w].seq]
  /\ step' = [step EXCEPT ![w] = "jobs"]
  /\ todo' = [todo EXCEPT ![w] = JobOrder]
  /\ UNCHANGED << shard, jobRow, fold, owed, crashes >>

\* It matched no row: nothing is written.
NothingNew(w) ==
  /\ step[w] = "folded" /\ ~Newer(w)
  /\ Drops(w)
  /\ UNCHANGED << shard, rows, owed, crashes >>

AllWritten(w) == todo[w] = << >>

\* The updates of the job rows have no guard of their own.
WriteJob(w) ==
  /\ step[w] = "jobs" /\ ~AllWritten(w)
  /\ LET j == Head(todo[w])
     IN  jobRow' = [jobRow EXCEPT ![j] = fold[w].jobs[j]]
  /\ todo' = [todo EXCEPT ![w] = Tail(@)]
  /\ UNCHANGED << shard, runRow, step, fold, owed, crashes >>

Finish(w) ==
  /\ step[w] = "jobs" /\ AllWritten(w)
  /\ Drops(w)
  /\ UNCHANGED << shard, rows, owed, crashes >>

\* A database error or an evicted isolate: projectAfterVerb and the sweep log
\* it and go on.
Dies(w) ==
  /\ step[w] # "idle"
  /\ crashes < CrashBound
  /\ crashes' = crashes + 1
  /\ Drops(w)
  /\ UNCHANGED << shard, rows, owed >>

Project(w) == WriteRun(w) \/ NothingNew(w) \/ WriteJob(w) \/ Finish(w)

Next ==
  \/ VerbMoves \/ QuietlyMoves
  \/ \E w \in Workers : VerbReads(w) \/ SweepReads(w) \/ Project(w) \/ Dies(w)

Spec == Init /\ [][Next]_vars

(* The cron runs again and again, a verb that changed the shard gets to    *)
(* its projection, and a projection goes on; no further verb has to come.  *)
SweepSpec ==
  /\ Spec
  /\ WF_vars(\E w \in Workers : SweepReads(w))
  /\ WF_vars(owed /\ \E w \in Workers : VerbReads(w))
  /\ \A w \in Workers : WF_vars(Project(w))

-----------------------------------------------------------------------------
Statuses == {"open", "held"} \cup Shard!Done

View == [status : Statuses, owner : Runners \cup {Nobody}, turn : Nat]

ShardType ==
  /\ status \in [Jobs -> Statuses]
  /\ owner \in [Jobs -> Runners \cup {Nobody}]
  /\ turn \in [Jobs -> Nat]

TypeOK ==
  /\ ShardType
  /\ seq \in Nat
  /\ runRow \in [status : Open \cup Ended, seq : Nat]
  /\ jobRow \in [Jobs -> View]
  /\ step \in [Workers -> {"idle", "folded", "jobs"}]
  /\ todo \in [Workers -> Seq(Jobs)]
  /\ fold \in [Workers -> [seq : Nat, run : Open \cup Ended,
                           jobs : [Jobs -> View] \cup {<< >>}]]
  /\ \A w \in Workers : step[w] # "idle" => fold[w].jobs \in [Jobs -> View]
  /\ owed \in BOOLEAN /\ crashes \in Nat

\* However projections overlap, the run row moves forward only: its last_seq
\* never drops and an end it shows is never taken back.
RunRowNeverGoesBack ==
  [][/\ runRow'.seq >= runRow.seq
     /\ runRow.status \in Ended => runRow'.status = runRow.status]_vars

\* The run's end reaches its row without any verb, even if projections die.
EndSurfaces ==
  \A s \in Ended : (Shard!RunStatus = s) ~> (runRow.status = s)

-----------------------------------------------------------------------------
(* The inductive invariant behind RunRowNeverGoesBack.                     *)

\* What the row, the projections under way and the shard say of the run, each
\* at its own position of the stream.
Said ==
  {[seq |-> runRow.seq, run |-> runRow.status], [seq |-> seq, run |-> Shard!RunStatus]}
    \cup {[seq |-> fold[w].seq, run |-> fold[w].run] :
            w \in {v \in Workers : step[v] = "folded"}}

\* An end, once said of the run, is said by all that is not older.
SaidInOrder ==
  \A a, b \in Said :
    /\ a.seq <= seq
    /\ a.seq <= b.seq /\ a.run \in Ended => b.run = a.run

DroppedIsWhole ==
  (\E j \in Jobs : status[j] = "dropped") => \A j \in Jobs : status[j] \in Shard!Done

IInv == TypeOK /\ DroppedIsWhole /\ SaidInOrder

-----------------------------------------------------------------------------
(* What the code's own comments say, and the code does not do.             *)

\* projection-sweep.ts:1-6: what the alarm does to a job reaches the read model
\* without a verb.  coordination-route.ts:229-230: and the sweep is the safety
\* net if a projection fails.
JobEndSurfaces ==
  \A j \in Jobs, s \in Shard!Done : (status[j] = s) ~> (jobRow[j].status = s)
=============================================================================
