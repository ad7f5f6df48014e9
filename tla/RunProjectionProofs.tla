------------------------- MODULE RunProjectionProofs -------------------------
(***************************************************************************)
(* The run row only moves forward, for every plan, any number of           *)
(* projections at once and any number that die.                            *)
(***************************************************************************)
EXTENDS RunProjection, SequenceTheorems, TLAPS

-----------------------------------------------------------------------------
(* The ledger's steps: types, and ends that stay.                          *)

\* What a step of the ledger can do to one job's status.
StatusStep(j) ==
  \/ status'[j] = status[j]
  \/ status[j] \in {"open", "held"} /\ status'[j] \in Statuses

LEMMA LedgerStep ==
  ASSUME ShardType, Shard!Next
  PROVE  /\ ShardType'
         /\ \A j \in Jobs : StatusStep(j)
         /\ \/ \A j \in Jobs : status'[j] = "dropped" => status[j] = "dropped"
            \/ /\ Shard!RunStatus = "running"
               /\ \A j \in Jobs : status'[j] \in Shard!Done
<1> USE DEF ShardType, StatusStep, Statuses, Shard!Done
<1>1. ASSUME NEW j \in Jobs, NEW r \in Runners, Shard!Give(j, r) \/ Shard!Pass(j, r)
      PROVE  /\ ShardType'
             /\ \A k \in Jobs : StatusStep(k)
             /\ \A k \in Jobs : status'[k] = "dropped" => status[k] = "dropped"
  BY <1>1 DEF Shard!Give, Shard!Pass
<1>2. ASSUME NEW j \in Jobs,
             Shard!Adopt(j) \/ \E result \in {"won", "lost"} : Shard!Finish(j, result)
      PROVE  /\ ShardType'
             /\ \A k \in Jobs : StatusStep(k)
             /\ \A k \in Jobs : status'[k] = "dropped" => status[k] = "dropped"
  BY <1>2 DEF Shard!Adopt, Shard!Finish
<1>3. ASSUME NEW gone \in SUBSET Jobs, NEW lost \in SUBSET gone, Shard!Expire(gone, lost)
      PROVE  /\ ShardType'
             /\ \A k \in Jobs : StatusStep(k)
             /\ \A k \in Jobs : status'[k] = "dropped" => status[k] = "dropped"
  BY <1>3 DEF Shard!Expire
<1>4. CASE Shard!Drop
  BY <1>4 DEF Shard!Drop, Shard!Done
<1> QED BY <1>1, <1>2, <1>3, <1>4 DEF Shard!Next, Shard!Request, Shard!Timeout

\* A run that has ended does not change its status.
LEMMA EndStays ==
  ASSUME ShardType, DroppedIsWhole, Shard!Next \/ UNCHANGED << status, owner, turn >>
  PROVE  /\ ShardType' /\ DroppedIsWhole'
         /\ Shard!RunStatus \in Ended => Shard!RunStatus' = Shard!RunStatus
<1>1. CASE UNCHANGED << status, owner, turn >>
  BY <1>1 DEF ShardType, DroppedIsWhole, Shard!RunStatus
<1>2. CASE Shard!Next
  <2>1. ShardType' /\ \A j \in Jobs : StatusStep(j)
    BY <1>2, LedgerStep
  <2>2. CASE \A j \in Jobs : status'[j] = "dropped" => status[j] = "dropped"
    <3>1. DroppedIsWhole'
      BY <2>1, <2>2 DEF DroppedIsWhole, StatusStep, Shard!Done
    <3>2. \A j \in Jobs : status[j] \in Shard!Done => status'[j] = status[j]
      BY <2>1 DEF StatusStep, Shard!Done
    <3>3. CASE \E j \in Jobs : status[j] = "dropped"
      <4>1. \E j \in Jobs : status'[j] = "dropped"
        BY <3>2, <3>3 DEF Shard!Done
      <4> QED BY <2>1, <3>1, <3>3, <4>1 DEF Shard!RunStatus
    <3>4. CASE ~ \E j \in Jobs : status[j] = "dropped"
      <4>1. ~ \E j \in Jobs : status'[j] = "dropped"
        BY <2>2, <3>4
      <4>2. Shard!RunStatus \in Ended => Shard!RunStatus' = Shard!RunStatus
        <5>1. CASE \E j \in Jobs : status[j] = "lost"
          <6>1. \E j \in Jobs : status'[j] = "lost"
            BY <3>2, <5>1 DEF Shard!Done
          <6> QED BY <3>4, <4>1, <5>1, <6>1 DEF Shard!RunStatus
        <5>2. CASE \A j \in Jobs : status[j] = "won"
          <6>1. \A j \in Jobs : status'[j] = "won"
            BY <3>2, <5>2 DEF Shard!Done
          <6> QED BY <3>4, <4>1, <5>2, <6>1 DEF Shard!RunStatus
        <5> QED BY <3>4, <5>1, <5>2 DEF Shard!RunStatus, Ended
      <4> QED BY <2>1, <3>1, <4>2
    <3> QED BY <2>1, <3>1, <3>3, <3>4
  <2>3. CASE /\ Shard!RunStatus = "running"
             /\ \A j \in Jobs : status'[j] \in Shard!Done
    BY <2>1, <2>3 DEF DroppedIsWhole, Ended
  <2> QED BY <1>2, <2>2, <2>3, LedgerStep
<1> QED BY <1>1, <1>2

-----------------------------------------------------------------------------
(* Type correctness.                                                       *)

LEMMA ViewTypes ==
  ASSUME ShardType
  PROVE  /\ \A j \in Jobs : JobView(j) \in View
         /\ Shard!RunStatus \in Open \cup Ended
BY DEF ShardType, JobView, View, Shard!RunStatus, Open, Ended

\* The projection's own steps keep every variable in its type.
LEMMA DropsTypes ==
  ASSUME TypeOK, NEW w \in Workers, Drops(w), UNCHANGED << shard, rows >>,
         owed' \in BOOLEAN, crashes' \in Nat
  PROVE  TypeOK'
<1>1. step' \in [Workers -> {"idle", "folded", "jobs"}]
      /\ todo' \in [Workers -> Seq(Jobs)]
  BY DEF Drops, TypeOK
<1>2. fold' \in [Workers -> [seq : Nat, run : Open \cup Ended,
                             jobs : [Jobs -> View] \cup {<< >>}]]
  BY DEF Drops, TypeOK, NoFold, Open
<1>3. \A v \in Workers : step'[v] # "idle" => step[v] # "idle" /\ fold'[v] = fold[v]
  BY DEF Drops, TypeOK
<1> QED BY <1>1, <1>2, <1>3 DEF TypeOK, ShardType, shard, rows

LEMMA TypeNext == TypeOK /\ DroppedIsWhole /\ [Next]_vars => TypeOK'
<1> SUFFICES ASSUME TypeOK, DroppedIsWhole, [Next]_vars PROVE TypeOK'
  OBVIOUS
<1>1. CASE VerbMoves \/ QuietlyMoves
  <2>1. Shard!Next \/ UNCHANGED << status, owner, turn >>
    BY <1>1 DEF VerbMoves, QuietlyMoves, Shard!Next
  <2>2. ShardType'
    BY <2>1, EndStays DEF TypeOK
  <2>3. seq' \in Nat
    BY <1>1 DEF VerbMoves, QuietlyMoves, Appends, TypeOK
  <2>4. owed' \in BOOLEAN
    BY <1>1, Zenon DEF VerbMoves, QuietlyMoves, work, TypeOK
  <2>5. UNCHANGED << runRow, jobRow, step, fold, todo, crashes >>
    BY <1>1 DEF VerbMoves, QuietlyMoves, rows, work
  <2> QED BY <2>2, <2>3, <2>4, <2>5 DEF TypeOK
<1>2. ASSUME NEW w \in Workers, VerbReads(w) \/ SweepReads(w) PROVE TypeOK'
  <2>1. FoldNow \in [seq : Nat, run : Open \cup Ended, jobs : [Jobs -> View]]
    BY ViewTypes DEF FoldNow, TypeOK
  <2>2. ReadFold(w)
    BY <1>2 DEF VerbReads, SweepReads
  <2>3. owed' \in BOOLEAN
    BY <1>2, Zenon DEF VerbReads, SweepReads, TypeOK
  <2>4. step' \in [Workers -> {"idle", "folded", "jobs"}]
    BY <2>2 DEF ReadFold, TypeOK
  <2>5. fold' \in [Workers -> [seq : Nat, run : Open \cup Ended,
                               jobs : [Jobs -> View] \cup {<< >>}]]
    BY <2>1, <2>2 DEF ReadFold, TypeOK
  <2>6. \A v \in Workers : step'[v] # "idle" => fold'[v].jobs \in [Jobs -> View]
    BY <2>1, <2>2 DEF ReadFold, TypeOK
  <2>7. ShardType' /\ UNCHANGED << seq, runRow, jobRow, todo, crashes >>
    BY <2>2 DEF ReadFold, TypeOK, ShardType, shard, rows
  <2> QED BY <2>3, <2>4, <2>5, <2>6, <2>7 DEF TypeOK
<1>3. ASSUME NEW w \in Workers, WriteRun(w) PROVE TypeOK'
  <2>1. runRow' \in [status : Open \cup Ended, seq : Nat]
    BY <1>3 DEF WriteRun, TypeOK
  <2>2. step' \in [Workers -> {"idle", "folded", "jobs"}]
        /\ todo' \in [Workers -> Seq(Jobs)]
    BY <1>3, ProjectionAssumption DEF ProjectionAssumption, WriteRun, TypeOK
  <2>3. \A v \in Workers : step'[v] # "idle" => step[v] # "idle"
    BY <1>3 DEF WriteRun, TypeOK
  <2> QED BY <1>3, <2>1, <2>2, <2>3 DEF WriteRun, TypeOK, ShardType, shard
<1>4. ASSUME NEW w \in Workers, NothingNew(w) \/ Finish(w) \/ Dies(w) PROVE TypeOK'
  <2>1. Drops(w) /\ UNCHANGED << shard, rows, owed >> /\ crashes' \in Nat
    BY <1>4 DEF NothingNew, Finish, Dies, TypeOK
  <2> QED BY <2>1, DropsTypes DEF TypeOK
<1>5. ASSUME NEW w \in Workers, WriteJob(w) PROVE TypeOK'
  <2>1. todo[w] \in Seq(Jobs) /\ todo[w] # << >> /\ step[w] # "idle"
    BY <1>5 DEF WriteJob, AllWritten, TypeOK
  <2>2. Head(todo[w]) \in Jobs /\ Tail(todo[w]) \in Seq(Jobs)
    BY <2>1, HeadTailProperties
  <2>3. fold[w].jobs[Head(todo[w])] \in View
    BY <2>1, <2>2 DEF TypeOK
  <2>4. jobRow' \in [Jobs -> View] /\ todo' \in [Workers -> Seq(Jobs)]
    BY <1>5, <2>2, <2>3 DEF WriteJob, TypeOK
  <2> QED BY <1>5, <2>4 DEF WriteJob, TypeOK, ShardType, shard
<1>6. CASE UNCHANGED vars
  BY <1>6 DEF vars, shard, rows, work, TypeOK, ShardType
<1> QED BY <1>1, <1>2, <1>3, <1>4, <1>5, <1>6 DEF Next, Project

-----------------------------------------------------------------------------
(* What is said of the run, and when.                                      *)

Said1(w) == [seq |-> fold[w].seq, run |-> fold[w].run]

\* A step of the shard adds one newer word, which keeps an end.
LEMMA ShardSays ==
  ASSUME IInv, VerbMoves \/ QuietlyMoves
  PROVE  SaidInOrder'
<1>1. Shard!Next \/ UNCHANGED << status, owner, turn >>
  BY DEF VerbMoves, QuietlyMoves, Shard!Next
<1>2. Shard!RunStatus \in Ended => Shard!RunStatus' = Shard!RunStatus
  BY <1>1, EndStays DEF IInv, TypeOK
<1>3. seq' = seq + 1 /\ seq \in Nat
  BY DEF VerbMoves, QuietlyMoves, Appends, IInv, TypeOK
<1>4. UNCHANGED << runRow, step, fold >>
  BY DEF VerbMoves, QuietlyMoves, rows, work
<1> DEFINE now == [seq |-> seq, run |-> Shard!RunStatus]
           next == [seq |-> seq + 1, run |-> Shard!RunStatus']
<1>5. Said' \subseteq (Said \cup {next}) /\ now \in Said
  BY <1>3, <1>4 DEF Said
<1>6. \A a \in Said : a.seq \in Nat /\ a.seq <= seq /\ (a.run \in Ended => now.run = a.run)
  <2> SUFFICES ASSUME NEW a \in Said
               PROVE  a.seq \in Nat /\ a.seq <= seq /\ (a.run \in Ended => now.run = a.run)
    OBVIOUS
  <2>1. a.seq \in Nat
    BY DEF Said, IInv, TypeOK
  <2>2. a.seq <= seq /\ (a.seq <= now.seq /\ a.run \in Ended => now.run = a.run)
    BY <1>5 DEF IInv, SaidInOrder
  <2> QED BY <2>1, <2>2
<1>7. ASSUME NEW a \in Said \cup {next}, NEW b \in Said \cup {next}
      PROVE  /\ a.seq <= seq + 1
             /\ a.seq <= b.seq /\ a.run \in Ended => b.run = a.run
  <2>1. CASE a \in Said /\ b \in Said
    BY <2>1, <1>3, <1>6 DEF IInv, SaidInOrder
  <2>2. CASE a \in Said /\ b = next
    BY <2>2, <1>2, <1>3, <1>6
  <2>3. CASE a = next
    BY <2>3, <1>3, <1>6
  <2> QED BY <2>1, <2>2, <2>3
<1> QED BY <1>3, <1>5, <1>7 DEF SaidInOrder

\* A step that says nothing new, and leaves the shard, keeps the order.
LEMMA NothingSaid ==
  ASSUME SaidInOrder, Said' \subseteq Said, seq' = seq
  PROVE  SaidInOrder'
BY DEF SaidInOrder

LEMMA InvNext == IInv /\ [Next]_vars => IInv'
<1> SUFFICES ASSUME IInv, [Next]_vars PROVE IInv'
  OBVIOUS
<1>1. TypeOK'
  BY TypeNext DEF IInv
<1>2. CASE VerbMoves \/ QuietlyMoves
  <2>1. Shard!Next \/ UNCHANGED << status, owner, turn >>
    BY <1>2 DEF VerbMoves, QuietlyMoves, Shard!Next
  <2> QED BY <1>1, <1>2, <2>1, EndStays, ShardSays DEF IInv, TypeOK
<1>3. ASSUME UNCHANGED shard PROVE DroppedIsWhole' /\ Shard!RunStatus' = Shard!RunStatus
  BY <1>3 DEF IInv, DroppedIsWhole, shard, Shard!RunStatus
<1>4. ASSUME NEW w \in Workers, VerbReads(w) \/ SweepReads(w) PROVE IInv'
  <2>1. ReadFold(w)
    BY <1>4 DEF VerbReads, SweepReads
  <2>2. UNCHANGED shard /\ seq' = seq /\ runRow' = runRow
    BY <2>1 DEF ReadFold, shard, rows
  <2>3. \A v \in Workers : \/ v = w /\ fold'[v] = FoldNow
                           \/ step'[v] = step[v] /\ fold'[v] = fold[v]
    BY <2>1 DEF ReadFold, IInv, TypeOK
  <2>4. ASSUME NEW v \in Workers, step'[v] = "folded"
        PROVE  [seq |-> fold'[v].seq, run |-> fold'[v].run] \in Said
    <3>1. CASE fold'[v] = FoldNow
      BY <3>1 DEF FoldNow, Said
    <3>2. CASE step'[v] = step[v] /\ fold'[v] = fold[v]
      BY <2>4, <3>2 DEF Said
    <3> QED BY <2>3, <3>1, <3>2
  <2>5. Said' \subseteq Said
    BY <1>3, <2>2, <2>4 DEF Said
  <2> QED BY <1>1, <1>3, <2>2, <2>5, NothingSaid DEF IInv
<1>5. ASSUME NEW w \in Workers, WriteRun(w) PROVE IInv'
  <2>1. UNCHANGED shard /\ seq' = seq
    BY <1>5 DEF WriteRun, shard
  <2>2. \A v \in Workers : step'[v] = "folded" => step[v] = "folded" /\ fold'[v] = fold[v]
    BY <1>5 DEF WriteRun, IInv, TypeOK
  <2>3. Said1(w) \in Said
    BY <1>5 DEF WriteRun, Said, Said1
  <2>4. [seq |-> runRow'.seq, run |-> runRow'.status] = Said1(w)
    BY <1>5 DEF WriteRun, Said1
  <2>5. Said' \subseteq Said
    BY <1>3, <2>1, <2>2, <2>3, <2>4 DEF Said
  <2> QED BY <1>1, <1>3, <2>1, <2>5, NothingSaid DEF IInv
<1>6. ASSUME NEW w \in Workers, NothingNew(w) \/ Finish(w) \/ Dies(w) PROVE IInv'
  <2>1. Drops(w) /\ UNCHANGED shard /\ seq' = seq /\ runRow' = runRow
    BY <1>6 DEF NothingNew, Finish, Dies, shard, rows
  <2>2. \A v \in Workers : step'[v] = "folded" => step[v] = "folded" /\ fold'[v] = fold[v]
    BY <2>1 DEF Drops, IInv, TypeOK
  <2>3. Said' \subseteq Said
    BY <1>3, <2>1, <2>2 DEF Said
  <2> QED BY <1>1, <1>3, <2>1, <2>3, NothingSaid DEF IInv
<1>7. ASSUME UNCHANGED << shard, runRow, step, fold >> PROVE IInv'
  <2>1. Said' = Said /\ seq' = seq
    BY <1>3, <1>7 DEF Said, shard
  <2> QED BY <1>1, <1>3, <1>7, <2>1, NothingSaid DEF IInv
<1>8. ASSUME NEW w \in Workers, WriteJob(w) PROVE IInv'
  BY <1>7, <1>8 DEF WriteJob
<1>9. CASE UNCHANGED vars
  BY <1>7, <1>9 DEF vars, rows, work
<1> QED BY <1>2, <1>4, <1>5, <1>6, <1>8, <1>9 DEF Next, Project

LEMMA InvInit == Init => IInv
<1> SUFFICES ASSUME Init PROVE IInv
  OBVIOUS
<1>1. ShardType
  BY DEF Init, Shard!Init, ShardType, Statuses
<1>2. TypeOK
  <2>1. jobRow \in [Jobs -> View]
    BY <1>1, ViewTypes DEF Init
  <2>2. fold \in [Workers -> [seq : Nat, run : Open \cup Ended,
                            jobs : [Jobs -> View] \cup {<< >>}]]
    BY DEF Init, NoFold, Open
  <2>3. todo \in [Workers -> Seq(Jobs)] /\ step \in [Workers -> {"idle", "folded", "jobs"}]
    BY DEF Init
  <2>4. \A w \in Workers : step[w] = "idle"
    BY DEF Init
  <2>5. runRow \in [status : Open \cup Ended, seq : Nat]
    BY DEF Init, Open
  <2> QED BY <1>1, <2>1, <2>2, <2>3, <2>4, <2>5 DEF Init, TypeOK
<1>3. DroppedIsWhole
  BY DEF Init, Shard!Init, DroppedIsWhole
<1>4. \A a \in Said : \/ a.seq = 0 /\ a.run = "pending"
                      \/ a = [seq |-> 1, run |-> Shard!RunStatus]
  BY DEF Init, Said
<1>5. SaidInOrder
  BY <1>4 DEF Init, SaidInOrder, Ended
<1> QED BY <1>2, <1>3, <1>5 DEF IInv

-----------------------------------------------------------------------------
(* The theorems.                                                           *)

\* Every state is of its type, and an end said of the run stands.
THEOREM Invariance == Spec => []IInv
BY InvInit, InvNext, PTL DEF Spec

THEOREM TypeCorrect == Spec => []TypeOK
<1>1. IInv => TypeOK
  BY DEF IInv
<1> QED BY <1>1, Invariance, PTL

\* One step of a system in which ends are said in order.
LEMMA RowStep ==
  ASSUME IInv, [Next]_vars
  PROVE  /\ runRow'.seq >= runRow.seq
         /\ runRow.status \in Ended => runRow'.status = runRow.status
<1>1. CASE runRow' = runRow
  BY <1>1 DEF IInv, TypeOK
<1>2. ASSUME NEW w \in Workers, WriteRun(w)
      PROVE  /\ runRow'.seq >= runRow.seq
             /\ runRow.status \in Ended => runRow'.status = runRow.status
  <2> DEFINE shown == [seq |-> runRow.seq, run |-> runRow.status]
  <2>1. shown \in Said /\ Said1(w) \in Said
    BY <1>2 DEF WriteRun, Said, Said1
  <2>2. runRow.seq < fold[w].seq /\ runRow.seq \in Nat /\ fold[w].seq \in Nat
    BY <1>2 DEF WriteRun, Newer, IInv, TypeOK
  <2>3. runRow.status \in Ended => fold[w].run = runRow.status
    BY <2>1, <2>2 DEF Said1, IInv, SaidInOrder
  <2> QED BY <1>2, <2>2, <2>3 DEF WriteRun
<1>3. \/ runRow' = runRow
      \/ \E w \in Workers : WriteRun(w)
  BY DEF Next, VerbMoves, QuietlyMoves, VerbReads, SweepReads, ReadFold, Project,
         NothingNew, WriteJob, Finish, Dies, vars, rows
<1> QED BY <1>1, <1>2, <1>3

\* However many projections overlap or die, the run row moves forward only.
THEOREM RowForward == Spec => RunRowNeverGoesBack
<1>1. IInv /\ [Next]_vars =>
        [/\ runRow'.seq >= runRow.seq
         /\ runRow.status \in Ended => runRow'.status = runRow.status]_vars
  BY RowStep
<1> QED BY <1>1, Invariance, PTL DEF Spec, RunRowNeverGoesBack
=============================================================================
