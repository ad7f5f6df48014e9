---------------------------- MODULE RunCreateProofs ----------------------------
(***************************************************************************)
(* Whoever is answered for a run can claim, and finds its job rows: for    *)
(* every plan, any number of clients and requests that die, and projections*)
(* that overtake one another.                                              *)
(***************************************************************************)
EXTENDS RunCreate, FiniteSetTheorems, TLAPS

-----------------------------------------------------------------------------
(* The shard and its views.                                                *)

ShardType ==
  /\ OnlyHeldAreOwned
  /\ status \in [Jobs -> Statuses] /\ owner \in [Jobs -> Runners \cup {Nobody}]
  /\ turn \in [Jobs -> Nat \ {0}]

LEMMA NoRowIsNoView == NoRow \notin Views
<1> SUFFICES ASSUME NoRow \in Views PROVE FALSE
  OBVIOUS
<1>1. NoRow.status \in Statuses
  BY DEF Views
<1> QED BY <1>1 DEF NoRow, Statuses

LEMMA RowIsNotNone ==
  ASSUME NEW s, NEW n, s # "none" PROVE [status |-> s, seq |-> n] # NoRow
<1>1. [status |-> s, seq |-> n].status = s /\ NoRow.status = "none"
  BY DEF NoRow
<1> QED BY <1>1

LEMMA QueuedIsView == /\ Queued \in Views /\ Queued # NoRow
                      /\ Queued.turn = 1 /\ Queued.status = "open"
BY NoRowIsNoView DEF Queued, Views, Statuses

\* A step of the ledger keeps the types, lowers no turn and leaves what is done.
LEMMA LedgerStep ==
  ASSUME ShardType, Shard!Request \/ Shard!Timeout
  PROVE  /\ ShardType'
         /\ \A j \in Jobs : /\ turn'[j] >= turn[j]
                            /\ status[j] \in Shard!Done =>
                                 JobView(j)' = JobView(j)
<1> USE DEF ShardType, OnlyHeldAreOwned, Statuses, JobView, Shard!Done
<1>1. ASSUME NEW j \in Jobs, NEW r \in Runners, Shard!Give(j, r)
      PROVE  ShardType' /\ \A k \in Jobs : /\ turn'[k] >= turn[k]
                                           /\ status[k] \in Shard!Done =>
                                                JobView(k)' = JobView(k)
  BY <1>1 DEF Shard!Give
<1>2. ASSUME NEW j \in Jobs, NEW r \in Runners, Shard!Pass(j, r)
      PROVE  ShardType' /\ \A k \in Jobs : /\ turn'[k] >= turn[k]
                                           /\ status[k] \in Shard!Done =>
                                                JobView(k)' = JobView(k)
  BY <1>2 DEF Shard!Pass
<1>3. ASSUME NEW j \in Jobs,
             Shard!Adopt(j) \/ \E result \in {"won", "lost"} : Shard!Finish(j, result)
      PROVE  ShardType' /\ \A k \in Jobs : /\ turn'[k] >= turn[k]
                                           /\ status[k] \in Shard!Done =>
                                                JobView(k)' = JobView(k)
  BY <1>3 DEF Shard!Adopt, Shard!Finish
<1>4. ASSUME NEW gone \in SUBSET Jobs, NEW lost \in SUBSET gone, Shard!Expire(gone, lost)
      PROVE  ShardType' /\ \A k \in Jobs : /\ turn'[k] >= turn[k]
                                           /\ status[k] \in Shard!Done =>
                                                JobView(k)' = JobView(k)
  BY <1>4 DEF Shard!Expire
<1>5. CASE Shard!Drop
  BY <1>5 DEF Shard!Drop
<1> QED BY <1>1, <1>2, <1>3, <1>4, <1>5 DEF Shard!Request, Shard!Timeout

LEMMA ViewTypes ==
  ASSUME ShardType, NEW j \in Jobs
  PROVE  /\ JobView(j) \in Views /\ JobView(j) # NoRow
         /\ JobView(j).turn = turn[j] /\ JobView(j).status = status[j]
BY NoRowIsNoView DEF ShardType, JobView, Views

\* healMissingJobRows finds nothing to heal only when every job has a row.
LEMMA SeenAllIsAll ==
  ASSUME SeenAll PROVE \A j \in Jobs : jobRow[j] # NoRow
<1> DEFINE S == { j \in Jobs : jobRow[j].status \notin {"none", "dropped"} }
<1>1. IsFiniteSet(Jobs)
  BY CreateAssumption
<1>2. S \subseteq Jobs
  OBVIOUS
<1>3. Cardinality(S) >= Cardinality(Jobs)
  BY DEF SeenAll
<1>4. S = Jobs
  <2>1. Cardinality(S) <= Cardinality(Jobs) /\ (Cardinality(S) = Cardinality(Jobs) => S = Jobs)
    BY <1>1, <1>2, FS_Subset
  <2>2. Cardinality(S) \in Nat /\ Cardinality(Jobs) \in Nat
    BY <1>1, <1>2, FS_Subset, FS_CardinalityType
  <2> QED BY <1>3, <2>1, <2>2
<1>5. NoRow.status = "none"
  BY DEF NoRow
<1> QED BY <1>4, <1>5

-----------------------------------------------------------------------------
(* The invariant, step by step.                                            *)

LEMMA InitInv == Init => IInv
<1> SUFFICES ASSUME Init PROVE IInv
  OBVIOUS
<1>1. TypeOK
  <2>1. jobRow \in [Jobs -> {NoRow} \cup Views]
    BY QueuedIsView DEF Init
  <2>2. /\ runRow \in {NoRow} \cup [status : {"pending", "running"} \cup Ended, seq : 0 .. seq]
        /\ runRow = NoRow => \A j \in Jobs : jobRow[j] = NoRow
    BY RowIsNotNone DEF Init
  <2>3. /\ unhealed \in BOOLEAN /\ owed \in BOOLEAN
        /\ under = {} /\ overtaken = {}
    BY Zenon DEF Init
  <2>4. seq \in 0 .. SeqBound /\ faults \in 0 .. FaultBound
    BY CreateAssumption DEF Init
  <2>5. /\ status \in [Jobs -> Statuses] /\ owner \in [Jobs -> Runners \cup {Nobody}]
        /\ turn \in [Jobs -> Nat \ {0}]
    BY DEF Init, Shard!Init, Statuses
  <2>6. /\ step \in [Clients -> {"idle", "create", "jobs", "seed", "healShard", "healJobs"}]
        /\ acked = {} /\ seq = 0
    BY DEF Init
  <2> QED BY <2>1, <2>2, <2>3, <2>4, <2>5, <2>6 DEF TypeOK
<1>2. RequestsAreOrdered /\ OnlyHeldAreOwned
  BY DEF Init, Shard!Init, RequestsAreOrdered, OnlyHeldAreOwned
<1>3. RowsTrail
  BY QueuedIsView DEF Init, Shard!Init, Shard!Done, RowsTrail, Trails
<1>4. ProjectionsTrail
  BY DEF Init, ProjectionsTrail
<1> QED BY <1>1, <1>2, <1>3, <1>4 DEF Init, IInv, AnsweredIsClaimable, AnsweredHasJobRows, StaleRowsLookQueued

\* Steps that only move a request.
LEMMA OnlyMoves ==
  ASSUME IInv, NEW c \in Clients, LookUp(c) \/ Refuse(c) \/ Dies(c)
  PROVE  IInv'
<1>1. /\ UNCHANGED << shard, rows, acked, unhealed, projs >>
      /\ faults' \in 0 .. FaultBound
  BY CreateAssumption DEF LookUp, Refuse, Dies, Fault, IInv, TypeOK
<1>2. \E to \in {"idle", "create", "healShard"} :
        Goes(c, to) /\ (to = "healShard" => runRow # NoRow)
  BY DEF LookUp, Refuse, Dies
<1>3. TypeOK' /\ RequestsAreOrdered'
  BY <1>1, <1>2 DEF Goes, IInv, TypeOK, RequestsAreOrdered, shard, rows, projs
<1> QED BY <1>1, <1>3 DEF IInv, OnlyHeldAreOwned, RowsTrail, ProjectionsTrail, Trails,
                          JobView, shard, rows, projs,
                          AnsweredIsClaimable, AnsweredHasJobRows, StaleRowsLookQueued

LEMMA RunInserted ==
  ASSUME IInv, NEW c \in Clients, InsertRun(c)
  PROVE  IInv'
<1>1. UNCHANGED << shard, jobRow, acked, unhealed, faults, projs >>
  BY DEF InsertRun
<1>2. runRow' # NoRow /\ runRow' \in [status : {"pending", "running"} \cup Ended, seq : 0 .. seq]
  BY DEF InsertRun, IInv, TypeOK, NoRow, Goes, shard
<1>3. (runRow # NoRow => runRow' = runRow) /\ (runRow = NoRow => seq = 0)
  BY DEF InsertRun, IInv, TypeOK
<1>4. \E to \in {"jobs", "healShard"} : Goes(c, to)
  BY DEF InsertRun
<1>5. TypeOK' /\ RequestsAreOrdered'
  BY <1>1, <1>2, <1>3, <1>4 DEF Goes, IInv, TypeOK, RequestsAreOrdered, shard, projs
<1> QED BY <1>1, <1>3, <1>5 DEF IInv, OnlyHeldAreOwned, RowsTrail, ProjectionsTrail, Trails,
                                JobView, shard, projs,
                                AnsweredIsClaimable, AnsweredHasJobRows, StaleRowsLookQueued

\* What the insert of the missing job rows keeps, whoever makes it.
LEMMA JobsInserted ==
  ASSUME IInv, InsertJobs, UNCHANGED << status, owner, turn, seq, runRow, projs >>
  PROVE  /\ jobRow' \in [Jobs -> {NoRow} \cup Views]
         /\ \A j \in Jobs : jobRow'[j] # NoRow
         /\ RowsTrail' /\ ProjectionsTrail' /\ StaleRowsLookQueued'
<1>1. \A j \in Jobs : jobRow'[j] \in {jobRow[j], Queued} /\ jobRow'[j] # NoRow
  BY QueuedIsView DEF InsertJobs
<1>2. jobRow' \in [Jobs -> {NoRow} \cup Views]
  BY <1>1, QueuedIsView DEF InsertJobs, IInv, TypeOK
<1>3. RowsTrail'
  BY <1>1, QueuedIsView DEF IInv, TypeOK, RowsTrail, Trails, Shard!Done, JobView
<1>4. StaleRowsLookQueued'
  BY <1>1 DEF InsertJobs, IInv, StaleRowsLookQueued, JobView, projs
<1>5. ProjectionsTrail'
  BY DEF IInv, ProjectionsTrail, Trails, JobView, projs
<1> QED BY <1>1, <1>2, <1>3, <1>4, <1>5

LEMMA JobsCreated ==
  ASSUME IInv, NEW c \in Clients, CreateJobs(c)
  PROVE  IInv'
<1>1. /\ UNCHANGED << status, owner, turn, seq, runRow, acked, unhealed, faults, projs >>
      /\ InsertJobs /\ Goes(c, "seed") /\ runRow # NoRow
  BY DEF CreateJobs, shard, IInv, RequestsAreOrdered
<1>2. /\ jobRow' \in [Jobs -> {NoRow} \cup Views]
      /\ \A j \in Jobs : jobRow'[j] # NoRow
      /\ RowsTrail' /\ ProjectionsTrail' /\ StaleRowsLookQueued'
  BY <1>1, JobsInserted
<1>3. TypeOK' /\ RequestsAreOrdered'
  BY <1>1, <1>2 DEF Goes, IInv, TypeOK, RequestsAreOrdered, projs
<1> QED BY <1>1, <1>2, <1>3 DEF IInv, OnlyHeldAreOwned, AnsweredIsClaimable, AnsweredHasJobRows

\* The shard's seed, of a creator or of a heal.
LEMMA Seeded ==
  ASSUME IInv, NEW c \in Clients, Seed(c) \/ HealShard(c)
  PROVE  IInv'
<1>1. /\ UNCHANGED << status, owner, turn, runRow, jobRow, unhealed, faults, projs >>
      /\ seq' = IF seq = 0 THEN 1 ELSE seq
      /\ runRow # NoRow
  BY DEF Seed, HealShard, InitShard, rows, IInv, RequestsAreOrdered
<1>2. \/ Goes(c, "healJobs") /\ acked' = acked
      \/ Goes(c, "idle") /\ acked' = acked \cup {c} /\ \A j \in Jobs : jobRow[j] # NoRow
  BY DEF Seed, HealShard, IInv, RequestsAreOrdered
<1>3. seq' \in 1 .. SeqBound /\ seq' >= seq
  BY <1>1, CreateAssumption DEF IInv, TypeOK
<1>4. runRow' \in [status : {"pending", "running"} \cup Ended, seq : 0 .. seq']
  BY <1>1, <1>3 DEF IInv, TypeOK
<1>5. TypeOK'
  <2>1. \A p \in under : p.seq \in 1 .. seq'
    BY <1>3 DEF IInv, TypeOK
  <2> QED BY <1>1, <1>2, <1>3, <1>4, <2>1 DEF Goes, IInv, TypeOK, projs
<1>6. RequestsAreOrdered'
  BY <1>1, <1>2, <1>3 DEF Goes, IInv, TypeOK, RequestsAreOrdered
<1>7. RowsTrail' /\ OnlyHeldAreOwned'
  BY <1>1 DEF IInv, RowsTrail, Trails, OnlyHeldAreOwned, JobView
<1>71. ProjectionsTrail'
  <2>1. \A p \in under : p.seq = seq' => p.seq = seq
    BY <1>1 DEF IInv, TypeOK
  <2> QED BY <1>1, <2>1 DEF IInv, ProjectionsTrail, Trails, JobView, projs
<1>8. AnsweredIsClaimable' /\ AnsweredHasJobRows'
  BY <1>1, <1>2, <1>3 DEF IInv, AnsweredIsClaimable, AnsweredHasJobRows
<1>9. StaleRowsLookQueued'
  <2>1. CASE seq = 0
    BY <2>1, <1>1 DEF IInv, TypeOK, StaleRowsLookQueued
  <2>2. CASE seq # 0
    BY <2>2, <1>1 DEF IInv, StaleRowsLookQueued, JobView, projs
  <2> QED BY <2>1, <2>2
<1> QED BY <1>5, <1>6, <1>7, <1>71, <1>8, <1>9 DEF IInv

LEMMA JobsHealed ==
  ASSUME IInv, NEW c \in Clients, HealJobs(c)
  PROVE  IInv'
<1>1. /\ UNCHANGED << status, owner, turn, seq, runRow, projs >>
      /\ Goes(c, "idle") /\ acked' = acked \cup {c}
      /\ runRow # NoRow /\ seq > 0
  BY DEF HealJobs, shard, IInv, RequestsAreOrdered
<1>2. faults' \in 0 .. FaultBound /\ unhealed' \in BOOLEAN
  <2>1. faults' \in 0 .. FaultBound
    BY CreateAssumption DEF HealJobs, Fault, IInv, TypeOK
  <2>2. unhealed' \in BOOLEAN
    BY Zenon DEF HealJobs
  <2> QED BY <2>1, <2>2
<1>3. /\ jobRow' \in [Jobs -> {NoRow} \cup Views]
      /\ (\A j \in Jobs : jobRow'[j] # NoRow) \/ (unhealed' = TRUE /\ jobRow' = jobRow)
      /\ \A j \in Jobs : jobRow[j] # NoRow => jobRow'[j] # NoRow
      /\ RowsTrail' /\ ProjectionsTrail' /\ StaleRowsLookQueued'
  <2>1. CASE InsertJobs
    BY <2>1, <1>1, JobsInserted
  <2>2. CASE UNCHANGED jobRow /\ (unhealed' = TRUE \/ SeenAll)
    BY <2>2, <1>1, SeenAllIsAll DEF IInv, TypeOK, RowsTrail, ProjectionsTrail, Trails,
                                   StaleRowsLookQueued, JobView, projs
  <2> QED BY <2>1, <2>2 DEF HealJobs
<1>4. TypeOK' /\ RequestsAreOrdered'
  BY <1>1, <1>2, <1>3 DEF Goes, IInv, TypeOK, RequestsAreOrdered, projs
<1>5. AnsweredHasJobRows'
  BY <1>1, <1>3 DEF AnsweredHasJobRows
<1> QED BY <1>1, <1>3, <1>4, <1>5 DEF IInv, OnlyHeldAreOwned, AnsweredIsClaimable

\* The shard moves on: what rows say of it stays behind or stays true.
LEMMA ShardMoves ==
  ASSUME IInv, VerbMoves \/ AlarmMoves
  PROVE  IInv'
<1>1. /\ UNCHANGED << runRow, jobRow, step, acked, unhealed, faults, under, overtaken >>
      /\ seq \in 1 .. SeqBound - 1 /\ seq' = seq + 1
      /\ Shard!Request \/ Shard!Timeout
  BY DEF VerbMoves, AlarmMoves, Appends, rows, reqs, projs
<1>2. owed' \in BOOLEAN
  BY Zenon DEF VerbMoves, AlarmMoves, projs, IInv, TypeOK
<1>3. ShardType
  BY DEF ShardType, IInv, TypeOK
<1>4. /\ ShardType'
      /\ \A j \in Jobs : /\ turn'[j] >= turn[j]
                         /\ status[j] \in Shard!Done => JobView(j)' = JobView(j)
  BY <1>1, <1>3, LedgerStep
<1>5. seq' \in 0 .. SeqBound /\ seq' > seq /\ seq' # 0
  BY <1>1, CreateAssumption
<1>6. runRow' = NoRow \/ (runRow' \in [status : {"pending", "running"} \cup Ended, seq : 0 .. seq']
                          /\ runRow'.seq # seq')
  BY <1>1, <1>5 DEF IInv, TypeOK
<1>7. runRow # NoRow
  BY <1>1 DEF IInv, TypeOK
<1>8. TypeOK'
  <2>1. \A p \in under : p.seq \in 1 .. seq'
    BY <1>5 DEF IInv, TypeOK
  <2> QED BY <1>1, <1>2, <1>4, <1>5, <1>6, <1>7, <2>1 DEF IInv, TypeOK, ShardType
<1>9. ASSUME NEW j \in Jobs, NEW view \in Views, Trails(view, j) PROVE Trails(view, j)'
  <2>1. /\ view.turn <= turn[j]
        /\ view.status \in Shard!Done => view = JobView(j)
    BY <1>9 DEF Trails
  <2>2. view.turn \in Nat /\ turn[j] \in Nat /\ turn'[j] \in Nat /\ turn'[j] >= turn[j]
    BY <1>4 DEF IInv, TypeOK, Views, ShardType
  <2>3. view.status \in Shard!Done => JobView(j)' = JobView(j)
    BY <1>3, <1>4, <2>1, ViewTypes
  <2> QED BY <2>1, <2>2, <2>3 DEF Trails, Shard!Done
<1>91. RowsTrail'
  BY <1>1, <1>9 DEF IInv, TypeOK, RowsTrail
<1>92. ProjectionsTrail'
  <2>1. \A p \in under : p.seq # seq'
    BY <1>5 DEF IInv, TypeOK
  <2> QED BY <1>1, <1>9, <2>1 DEF IInv, TypeOK, ProjectionsTrail, Left
<1>10. RequestsAreOrdered' /\ AnsweredIsClaimable' /\ AnsweredHasJobRows'
  BY <1>1, <1>5 DEF IInv, RequestsAreOrdered, AnsweredIsClaimable, AnsweredHasJobRows
<1>11. StaleRowsLookQueued'
  BY <1>6 DEF StaleRowsLookQueued
<1> QED BY <1>4, <1>8, <1>91, <1>92, <1>10, <1>11 DEF IInv, ShardType

\* A projection begins: whatever the job rows say is excused till it has come to
\* them.
LEMMA RunProjected ==
  ASSUME IInv, ProjectRun
  PROVE  IInv'
<1>1. /\ UNCHANGED << status, owner, turn, seq, jobRow, overtaken, step, acked, unhealed, faults >>
      /\ owed' = FALSE
  BY DEF ProjectRun, shard, reqs
<1>2. ShardType
  BY DEF ShardType, IInv, TypeOK
<1>3. CASE UNCHANGED << runRow, under >>
  BY <1>1, <1>3 DEF IInv, TypeOK, RequestsAreOrdered, OnlyHeldAreOwned, RowsTrail,
                    ProjectionsTrail, Trails, JobView,
                    AnsweredIsClaimable, AnsweredHasJobRows, StaleRowsLookQueued
<1>4. CASE ~ UNCHANGED << runRow, under >>
  <2> DEFINE new == [seq |-> seq, todo |-> [j \in Jobs |-> JobView(j)]]
  <2>1. /\ runRow # NoRow /\ seq > runRow.seq
        /\ runRow' = [status |-> Shard!RunStatus, seq |-> seq]
        /\ under' = under \cup {new}
    BY <1>4 DEF ProjectRun
  <2>2. Shard!RunStatus \in {"running"} \cup Ended
    BY DEF Shard!RunStatus, Ended
  <2>3. runRow' # NoRow /\ runRow' \in [status : {"pending", "running"} \cup Ended, seq : 0 .. seq]
    <3>1. seq \in 0 .. seq
      BY CreateAssumption DEF IInv, TypeOK
    <3>2. Shard!RunStatus # "none"
      BY <2>2 DEF Ended
    <3> QED BY <2>1, <2>2, <3>1, <3>2, RowIsNotNone
  <2>4. runRow.seq \in 0 .. seq /\ seq \in 1 .. seq
    BY <2>1 DEF IInv, TypeOK
  <2>5. /\ new.seq = seq /\ Left(new) = Jobs
        /\ \A j \in Jobs : /\ new.todo[j] = JobView(j) /\ new.todo[j] \in Views
                          /\ Trails(new.todo[j], j)
    BY <1>2, ViewTypes DEF Left, Trails, ShardType
  <2>6. TypeOK' /\ RequestsAreOrdered'
    BY <1>1, <2>1, <2>3, <2>4, <2>5 DEF IInv, TypeOK, RequestsAreOrdered, Left
  <2>7. \A j \in Jobs : JobView(j)' = JobView(j)
    BY <1>1 DEF JobView
  <2>71. ASSUME NEW j \in Jobs, NEW view, Trails(view, j) PROVE Trails(view, j)'
    BY <1>1, <2>7, <2>71 DEF Trails, Shard!Done
  <2>8. RowsTrail'
    BY <1>1, <2>71 DEF IInv, RowsTrail
  <2>9. ProjectionsTrail'
    <3>1. ASSUME NEW p \in under PROVE p.seq <= runRow'.seq /\ p.seq # seq'
      BY <1>1, <2>1, <2>4 DEF IInv, TypeOK, ProjectionsTrail
    <3>2. runRow'.seq = seq /\ seq' = seq
      BY <1>1, <2>1
    <3>3. \A p \in under' : p = new \/ p \in under
      BY <2>1
    <3>4. \A p \in under : Left(p) \subseteq Jobs
      BY DEF IInv, TypeOK
    <3>5. ASSUME NEW p \in under'
          PROVE  /\ runRow' # NoRow /\ p.seq <= runRow'.seq
                 /\ \A j \in Left(p) : /\ Trails(p.todo[j], j)'
                                       /\ p.seq = seq' => p.todo[j] = JobView(j)'
      <4>1. CASE p \in under
        <5>1. \A j \in Left(p) : Trails(p.todo[j], j)'
          BY <2>71, <3>4, <4>1 DEF IInv, ProjectionsTrail
        <5> QED BY <2>3, <3>1, <4>1, <5>1
      <4>2. CASE p = new
        <5>1. \A j \in Left(p) : Trails(p.todo[j], j)' /\ p.todo[j] = JobView(j)'
          BY <1>1, <2>5, <2>7, <4>2 DEF Trails, Shard!Done
        <5>2. p.seq <= runRow'.seq
          BY <2>4, <2>5, <3>2, <4>2
        <5> QED BY <2>3, <5>1, <5>2
      <4> QED BY <3>3, <4>1, <4>2
    <3> QED BY <3>5 DEF ProjectionsTrail, Left
  <2>10. StaleRowsLookQueued'
    BY <1>1, <2>1, <2>5 DEF StaleRowsLookQueued, Left
  <2> QED BY <1>1, <2>6, <2>8, <2>9, <2>10 DEF IInv, OnlyHeldAreOwned, AnsweredIsClaimable, AnsweredHasJobRows
<1> QED BY <1>3, <1>4

\* It comes to a job row: of the newest projection, the row is the shard's.
LEMMA JobProjected ==
  ASSUME IInv, NEW p \in under, NEW j, j \in Left(p), ProjectJob(p, j)
  PROVE  IInv'
<1>1. UNCHANGED << status, owner, turn, seq, runRow, step, acked, unhealed, faults, owed >>
  BY DEF ProjectJob, shard, reqs
<1>2. /\ p.seq \in 1 .. seq /\ Left(p) \subseteq Jobs
      /\ runRow # NoRow /\ p.seq <= runRow.seq /\ runRow.seq \in 0 .. seq
      /\ \A k \in Left(p) : /\ p.todo[k] \in Views /\ Trails(p.todo[k], k)
                            /\ p.seq = seq => p.todo[k] = JobView(k)
  BY DEF IInv, TypeOK, ProjectionsTrail
<1>3. \A k \in Jobs : JobView(k)' = JobView(k)
  BY <1>1 DEF JobView
<1>4. /\ jobRow' \in [Jobs -> {NoRow} \cup Views]
      /\ \A k \in Jobs \ {j} : jobRow'[k] = jobRow[k]
      /\ jobRow[j] # NoRow => /\ jobRow'[j] = p.todo[j]
                              /\ j \notin overtaken' => p.seq = runRow.seq
      /\ jobRow[j] = NoRow => jobRow'[j] = NoRow
      /\ overtaken' \subseteq Jobs
      /\ \A k \in Jobs \ {j} : k \in overtaken' <=> k \in overtaken
  <2>1. IF jobRow[j] # NoRow
          THEN /\ jobRow' = [jobRow EXCEPT ![j] = p.todo[j]]
               /\ overtaken' = IF p.seq < runRow.seq THEN overtaken \cup {j}
                                                    ELSE overtaken \ {j}
          ELSE UNCHANGED << jobRow, overtaken >>
    BY DEF ProjectJob, Has
  <2> QED BY <1>2, <2>1 DEF IInv, TypeOK
<1>5. \A k \in Jobs : jobRow'[k] = NoRow <=> jobRow[k] = NoRow
  <2>1. j \in Jobs /\ p.todo[j] \in Views /\ p.todo[j] # NoRow
    BY <1>2, NoRowIsNoView
  <2> QED BY <1>4, <2>1
<1> DEFINE rest == [seq |-> p.seq, todo |-> [k \in Left(p) \ {j} |-> p.todo[k]]]
<1>6. /\ \A q \in under' : q \in under \/ (q = rest /\ Left(p) # {j})
      /\ \A q \in under : q = p \/ q \in under'
      /\ Left(p) # {j} => rest \in under'
  BY DEF ProjectJob
<1>7. rest.seq = p.seq /\ Left(rest) = Left(p) \ {j}
      /\ \A k \in Left(rest) : rest.todo[k] = p.todo[k]
  BY DEF Left
<1>8. TypeOK' /\ RequestsAreOrdered'
  <2>1. \A q \in under' : /\ q.seq \in 1 .. seq /\ Left(q) \subseteq Jobs
                          /\ \A k \in Left(q) : q.todo[k] \in Views
    BY <1>2, <1>6, <1>7 DEF IInv, TypeOK
  <2> HIDE DEF rest
  <2> QED BY <1>1, <1>2, <1>4, <1>5, <2>1 DEF IInv, TypeOK, RequestsAreOrdered, Left
<1>9. RowsTrail'
  <2>1. \A k \in Jobs : jobRow'[k] # NoRow => Trails(jobRow'[k], k)
    <3>1. Trails(p.todo[j], j)
      BY <1>2
    <3> QED BY <1>4, <1>5, <3>1 DEF IInv, RowsTrail
  <2> QED BY <1>1, <1>3, <2>1 DEF RowsTrail, Trails, Shard!Done
<1>10. ProjectionsTrail'
  <2>1. \A q \in under' : /\ q.seq <= runRow.seq /\ Left(q) \subseteq Jobs
                          /\ \A k \in Left(q) : /\ Trails(q.todo[k], k)
                                                /\ q.seq = seq => q.todo[k] = JobView(k)
    BY <1>2, <1>6, <1>7 DEF IInv, TypeOK, ProjectionsTrail
  <2> HIDE DEF rest
  <2> QED BY <1>1, <1>2, <1>3, <2>1 DEF ProjectionsTrail, Trails, Shard!Done, Left
<1>11. StaleRowsLookQueued'
  <2> SUFFICES ASSUME runRow.seq = seq, seq > 0, NEW k \in Jobs, k \notin overtaken'
               PROVE  \/ jobRow'[k] \in {JobView(k), Queued, NoRow}
                      \/ \E q \in under' : q.seq = seq /\ k \in Left(q)
    BY <1>1, <1>3 DEF StaleRowsLookQueued, Left
  <2>1. CASE k = j
    <3>1. CASE jobRow[j] = NoRow
      BY <1>4, <2>1, <3>1
    <3>2. CASE jobRow[j] # NoRow
      <4>1. p.seq = seq
        BY <1>4, <2>1, <3>2
      <4>2. p.todo[j] = JobView(j)
        BY <1>2, <4>1
      <4> QED BY <1>4, <2>1, <3>2, <4>2
    <3> QED BY <3>1, <3>2
  <2>2. CASE k # j
    <3>1. \/ jobRow[k] \in {JobView(k), Queued, NoRow}
          \/ \E q \in under : q.seq = seq /\ k \in Left(q)
      BY <1>2, <1>4, <2>2 DEF IInv, StaleRowsLookQueued
    <3>2. ASSUME NEW q \in under, q.seq = seq, k \in Left(q)
          PROVE  \E u \in under' : u.seq = seq /\ k \in Left(u)
      <4>1. CASE q = p
        BY <1>6, <1>7, <2>2, <3>2, <4>1
      <4>2. CASE q # p
        BY <1>6, <3>2, <4>2
      <4> QED BY <4>1, <4>2
    <3> QED BY <1>4, <2>2, <3>1, <3>2
  <2> QED BY <2>1, <2>2
<1> QED BY <1>1, <1>5, <1>8, <1>9, <1>10, <1>11
        DEF IInv, OnlyHeldAreOwned, AnsweredIsClaimable, AnsweredHasJobRows

LEMMA InvNext == IInv /\ [Next]_vars => IInv'
<1> SUFFICES ASSUME IInv, [Next]_vars PROVE IInv'
  OBVIOUS
<1>1. ASSUME NEW c \in Clients, Request(c) \/ Refuse(c) \/ Dies(c) PROVE IInv'
  BY <1>1, OnlyMoves, RunInserted, JobsCreated, Seeded, JobsHealed DEF Request
<1>2. CASE UNCHANGED vars
  BY <1>2 DEF vars, shard, rows, reqs, projs, IInv, TypeOK, RequestsAreOrdered, OnlyHeldAreOwned,
              RowsTrail, ProjectionsTrail, Trails, JobView, AnsweredIsClaimable, AnsweredHasJobRows, StaleRowsLookQueued
<1> QED BY <1>1, <1>2, ShardMoves, RunProjected, JobProjected DEF Next

-----------------------------------------------------------------------------
(* The theorems.                                                           *)

\* The inductive invariant holds: types, the order of each request's steps, and
\* what the rows say of the shard.
THEOREM Invariance == Spec => []IInv
BY InitInv, InvNext, PTL DEF Spec

\* A client that was answered by handleCreateRun can claim.
THEOREM Claimable == Spec => []AnsweredIsClaimable
<1>1. IInv => AnsweredIsClaimable
  BY DEF IInv
<1> QED BY <1>1, Invariance, PTL

\* A run that was answered for has a row for every job, unless the last heal of
\* the rows failed.
THEOREM JobRows == Spec => []AnsweredHasJobRows
<1>1. IInv => AnsweredHasJobRows
  BY DEF IInv
<1> QED BY <1>1, Invariance, PTL

\* At the shard's position, a job row that disagrees with it looks queued, unless
\* its projection has not come to it or an overtaken one wrote it last.
THEOREM StaleRows == Spec => []StaleRowsLookQueued
<1>1. IInv => StaleRowsLookQueued
  BY DEF IInv
<1> QED BY <1>1, Invariance, PTL

\* However projections overtake one another, no job row is ahead of the shard,
\* and an end that a row shows is the job's own.
THEOREM RowsTrailShard == Spec => []RowsTrail
<1>1. IInv => RowsTrail
  BY DEF IInv
<1> QED BY <1>1, Invariance, PTL
==============================================================================
