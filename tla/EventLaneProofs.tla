---------------------------- MODULE EventLaneProofs ----------------------------
(***************************************************************************)
(* However many ticks and replays overlap, fail and die: the lane's cursor *)
(* passes nothing unhandled, and a severity of a story is told once.       *)
(***************************************************************************)
EXTENDS EventLane, FiniteSetTheorems, TLAPS

-----------------------------------------------------------------------------
(* Types.                                                                  *)

LEMMA Odds == ASSUME TypeOK, Odd PROVE odds' \in 0 .. OddBound
BY LaneAssumption DEF Odd, TypeOK

LEMMA Severities ==
  ASSUME TypeOK
  PROVE  told \in Nat /\ \A e \in Events : severity[e] \in Nat
<1>1. severity \in [Events -> Nat]
  BY LaneAssumption DEF TypeOK
<1>2. told \in {0} \cup { severity[e] : e \in log } /\ log \subseteq Events
  BY DEF TypeOK
<1> QED BY <1>1, <1>2

LEMMA InitTypes == Init => TypeOK
BY LaneAssumption DEF Init, TypeOK

LEMMA AppendTypes == ASSUME TypeOK, NEW e \in Events, Append(e) PROVE TypeOK'
BY DEF Append, TypeOK, letters, story, local

LEMMA BeginTypes == ASSUME TypeOK, NEW t \in Ticks, Begin(t) PROVE TypeOK'
<1>1. Unread \subseteq log /\ t \in Actors /\ odds' \in 0 .. OddBound
  BY Odds DEF Unread, Begin, Actors, TypeOK
<1> QED BY <1>1 DEF Begin, TypeOK, letters, story, ghosts

LEMMA LoadRulesTypes ==
  ASSUME TypeOK, NEW a \in Actors, NEW e \in log, cur[a] = 0, LoadRules(a, e),
         odds' \in 0 .. OddBound
  PROVE  TypeOK'
<1>1. e \in Events /\ e # 0
  BY LaneAssumption DEF TypeOK
<1>2. CASE cache[a] = "blind"
  BY <1>1, <1>2 DEF LoadRules, Return, Pass, TypeOK, letters, story
<1>3. CASE cache[a] # "blind"
  BY <1>1, <1>3 DEF LoadRules, Go, TypeOK, letters, story
<1> QED BY <1>2, <1>3

LEMMA RulesFailTypes ==
  ASSUME TypeOK, NEW a \in Actors, NEW e \in log, RulesFail(a, e)
  PROVE  TypeOK'
<1>1. e \in Events /\ e # 0 /\ odds' \in 0 .. OddBound
  BY LaneAssumption, Odds DEF TypeOK, RulesFail
<1> QED BY <1>1 DEF RulesFail, Go, TypeOK, letters, story

LEMMA SnapshotTypes == ASSUME TypeOK, NEW a \in Actors, Snapshot(a) PROVE TypeOK'
<1>1. odds' \in 0 .. OddBound
  BY Odds DEF Snapshot, TypeOK
<1>2. told \in Nat
  BY Severities
<1> QED BY <1>1, <1>2 DEF Snapshot, Throw, Go, TypeOK, letters, story

LEMMA UpsertTypes == ASSUME TypeOK, NEW a \in Actors, Upsert(a) PROVE TypeOK'
<1>1. /\ told \in Nat /\ cur[a] \in log /\ severity[cur[a]] \in Nat
      /\ told' = Greater(told, severity[cur[a]])
  <2>1. cur[a] \in log /\ cur[a] \in Events
    BY DEF TypeOK, Upsert
  <2> QED BY <2>1, Severities DEF Upsert
<1>2. /\ told' \in {0} \cup { severity[e] : e \in log } /\ told' >= told /\ told' \in Nat
  BY <1>1 DEF Greater, TypeOK
<1>3. CASE severity[cur[a]] > prior[a]
  BY <1>1, <1>2, <1>3 DEF Upsert, Decide, Go, TypeOK, letters
<1>4. CASE ~ (severity[cur[a]] > prior[a])
  BY <1>1, <1>2, <1>4 DEF Upsert, Decide, Return, Pass, TypeOK, letters
<1> QED BY <1>3, <1>4

LEMMA ThrottleTypes == ASSUME TypeOK, NEW a \in Actors, Throttle(a) PROVE TypeOK'
<1>1. odds' \in 0 .. OddBound /\ cur[a] \in log
  BY Odds DEF Throttle, TypeOK
<1>2. CASE Return(a, cur[a])
  BY <1>1, <1>2 DEF Throttle, Return, Pass, TypeOK, letters, story
<1>3. CASE Go(a, cur[a], "enqueue") \/ Throw(a)
  BY <1>1, <1>3 DEF Throttle, Throw, Go, TypeOK, letters, story
<1> QED BY <1>2, <1>3 DEF Throttle

LEMMA EnqueueTypes == ASSUME TypeOK, NEW a \in Actors, Enqueue(a) PROVE TypeOK'
<1>1. cur[a] \in log /\ sent' \subseteq log /\ burnt' \subseteq log
  BY DEF Enqueue, Reach, TypeOK
<1>2. CASE Return(a, cur[a])
  BY <1>1, <1>2 DEF Enqueue, Return, Pass, TypeOK, letters, story
<1>3. CASE Throw(a)
  BY <1>1, <1>3 DEF Enqueue, Throw, Go, TypeOK, letters, story
<1> QED BY <1>2, <1>3 DEF Enqueue

\* What a failure adds to the lane's dead letters.
LEMMA RecordTypes ==
  ASSUME TypeOK, NEW e \in log, Record(e)
  PROVE  /\ attempts' \in [Events -> 0 .. MaxAttempts]
         /\ letter' \in [Events -> {"none", "open", "replayed"}]
         /\ \A f \in Events : letter'[f] = "none" <=> attempts'[f] = 0
         /\ \A f \in Events \ log : letter'[f] = "none"
         /\ \A f \in Events : /\ attempts[f] <= attempts'[f]
                              /\ letter'[f] = "none" => letter[f] = "none"
BY LaneAssumption DEF Record, TypeOK

LEMMA FailTypes == ASSUME TypeOK, NEW t \in Ticks, Fail(t) PROVE TypeOK'
<1>1. t \in Actors /\ cur[t] \in log /\ cur[t] \in Events
  BY DEF Fail, Recorded, TypeOK, Actors
<1>2. /\ attempts' \in [Events -> 0 .. MaxAttempts]
      /\ letter' \in [Events -> {"none", "open", "replayed"}]
      /\ \A f \in Events : letter'[f] = "none" <=> attempts'[f] = 0
      /\ \A f \in Events \ log : letter'[f] = "none"
      /\ odds' \in 0 .. OddBound
  BY <1>1, RecordTypes, Odds DEF Fail, Recorded, letters, TypeOK
<1>3. CASE Pass(t, cur[t])
  BY <1>1, <1>2, <1>3 DEF Fail, Recorded, Pass, TypeOK, story, ghosts
<1>4. CASE Stall(t)
  BY <1>1, <1>2, <1>4 DEF Fail, Recorded, Stall, TypeOK, story, ghosts
<1> QED BY <1>3, <1>4 DEF Fail, Recorded

LEMMA AdvanceTypes == ASSUME TypeOK, NEW t \in Ticks, Advance(t) PROVE TypeOK'
<1>1. t \in Actors /\ odds' \in 0 .. OddBound /\ cursor' \in log \cup {0}
  BY Odds DEF Advance, TypeOK, Actors
<1> QED BY <1>1 DEF Advance, Forget, TypeOK, letters, story, ghosts

LEMMA ReplayFailsTypes == ASSUME TypeOK, NEW r \in Replays, ReplayFails(r) PROVE TypeOK'
<1>1. r \in Actors /\ cur[r] \in log /\ cur[r] \in Events
  BY DEF ReplayFails, TypeOK, Actors
<1>2. /\ attempts' \in [Events -> 0 .. MaxAttempts]
      /\ letter' \in [Events -> {"none", "open", "replayed"}]
      /\ \A f \in Events : letter'[f] = "none" <=> attempts'[f] = 0
      /\ \A f \in Events \ log : letter'[f] = "none"
      /\ odds' \in 0 .. OddBound
  BY <1>1, RecordTypes, Odds DEF ReplayFails, letters, TypeOK
<1> QED BY <1>1, <1>2 DEF ReplayFails, Forget, TypeOK, story, ghosts

LEMMA MarkTypes ==
  ASSUME TypeOK, InOrder, NEW r \in Replays, MarkReplayed(r)
  PROVE  TypeOK'
<1>1. /\ r \in Actors /\ cur[r] \in Events /\ cur[r] \in log /\ odds' \in 0 .. OddBound
      /\ letter[cur[r]] # "none"
  BY Odds DEF MarkReplayed, TypeOK, Actors, InOrder
<1>2. /\ letter' \in [Events -> {"none", "open", "replayed"}]
      /\ \A e \in Events : letter'[e] = "none" <=> attempts'[e] = 0
      /\ \A e \in Events \ log : letter'[e] = "none"
  BY <1>1 DEF MarkReplayed, TypeOK
<1> QED BY <1>1, <1>2 DEF MarkReplayed, Forget, TypeOK, story, ghosts

LEMMA DiesTypes == ASSUME TypeOK, NEW a \in Actors, Dies(a) PROVE TypeOK'
<1>1. odds' \in 0 .. OddBound /\ burnt' \subseteq log
  BY Odds DEF Dies, TypeOK
<1> QED BY <1>1 DEF Dies, Forget, TypeOK, letters, story

-----------------------------------------------------------------------------
(* The cursor: everything behind it was handled or given up.               *)

Given == handled \cup DeadLettered

LaneInv == InOrder /\ NoGaps /\ NothingIsSkipped

\* What is handled or given up stays so, and what came late stays late.
Keeps ==
  /\ severity' = severity /\ log' = log /\ late' = late /\ told <= told'
  /\ handled \subseteq handled' /\ burnt \subseteq burnt'
  /\ \A e \in Events : /\ attempts[e] = MaxAttempts => attempts'[e] = MaxAttempts
                       /\ letter'[e] = "none" => letter[e] = "none"

LEMMA KeepsGiven == ASSUME Keeps PROVE Given \subseteq Given'
BY DEF Keeps, Given, DeadLettered

\* A step that moves nobody's reading, or empties it, leaves no gap.
LEMMA NoFurther ==
  ASSUME LaneInv, Keeps,
         cursor' \in {cursor, 0} \cup { done[t] : t \in Ticks },
         \A t \in Ticks : /\ batch'[t] \in {batch[t], {}}
                          /\ done'[t] \in {done[t], 0},
         log \subseteq Nat \ {0}
  PROVE  NoGaps' /\ NothingIsSkipped'
<1>1. Given \subseteq Given' /\ log' = log /\ late' = late
  BY KeepsGiven DEF Keeps
<1>2. NoGaps'
  BY <1>1 DEF LaneInv, NoGaps, Given
<1>3. NothingIsSkipped'
  <2> SUFFICES ASSUME NEW e \in log \ late,
                      e <= cursor' \/ \E t \in Ticks : e <= done'[t]
               PROVE  e \in Given
    BY <1>1 DEF NothingIsSkipped, Given, DeadLettered
  <2>0. e \in Nat \ {0}
    OBVIOUS
  <2>1. ~ (e <= 0)
    BY <2>0
  <2>2. e <= cursor \/ \E t \in Ticks : e <= done[t]
    BY <2>1
  <2> QED BY <2>2 DEF LaneInv, NothingIsSkipped, Given
<1> QED BY <1>2, <1>3

\* A tick that is through with the first event of its batch.
LEMMA PassedOver ==
  ASSUME TypeOK, LaneInv, Keeps, NEW t \in Ticks, NEW e \in batch[t], Pass(t, e),
         \A f \in batch[t] : e <= f, e \in Given', cursor' = cursor
  PROVE  NoGaps' /\ NothingIsSkipped'
<1>1. /\ Given \subseteq Given' /\ log' = log /\ late' = late
      /\ t \in Actors /\ log \subseteq Nat /\ batch[t] \subseteq Nat
  BY KeepsGiven, LaneAssumption DEF Keeps, TypeOK, Actors
<1>2. /\ \A k \in Ticks : k # t => batch'[k] = batch[k] /\ done'[k] = done[k]
      /\ batch'[t] = batch[t] \ {e} /\ done'[t] = e
  BY <1>1 DEF Pass, TypeOK, Actors
<1>3. \A f \in log \ late : f <= e => f \in Given'
  <2> SUFFICES ASSUME NEW f \in log \ late, f <= e PROVE f \in Given'
    OBVIOUS
  <2>1. f \in batch[t] \/ f \in Given
    BY DEF LaneInv, NoGaps, Given
  <2>2. CASE f \in batch[t]
    <3>1. e <= f /\ e \in Nat /\ f \in Nat
      BY <1>1, <2>2
    <3>2. e = f
      BY <3>1
    <3> QED BY <3>2
  <2>3. CASE f \in Given
    BY <1>1, <2>3
  <2> QED BY <2>1, <2>2, <2>3
<1>4. NoGaps'
  BY <1>1, <1>2 DEF LaneInv, NoGaps, Given
<1>5. NothingIsSkipped'
  <2> SUFFICES ASSUME NEW f \in log \ late,
                      f <= cursor \/ \E k \in Ticks : f <= done'[k]
               PROVE  f \in Given'
    BY <1>1 DEF NothingIsSkipped, Given
  <2>1. CASE f <= e
    BY <1>3, <2>1
  <2>2. CASE ~ (f <= e)
    <3>1. f <= cursor \/ \E k \in Ticks : f <= done[k]
      BY <1>2, <2>2
    <3>2. f \in Given
      BY <3>1 DEF LaneInv, NothingIsSkipped, Given
    <3> QED BY <1>1, <3>2
  <2> QED BY <2>1, <2>2
<1> QED BY <1>4, <1>5

LEMMA AppendLane == ASSUME TypeOK, LaneInv, NEW e \in Events, Append(e) PROVE LaneInv'
<1>1. /\ UNCHANGED << cursor, letters, local, handled >> /\ log' = log \cup {e}
      /\ late \subseteq late'
      /\ e \notin late' => /\ ~ (e <= cursor)
                           /\ \A t \in Ticks : /\ ~ (e <= done[t])
                                               /\ \A x \in batch[t] : ~ (e <= x)
  BY DEF Append
<1>2. InOrder'
  BY <1>1 DEF LaneInv, InOrder, letters, local
<1>3. NoGaps'
  BY <1>1 DEF LaneInv, NoGaps, letters, local, DeadLettered
<1>4. NothingIsSkipped'
  BY <1>1 DEF LaneInv, NothingIsSkipped, letters, local, DeadLettered
<1> QED BY <1>2, <1>3, <1>4 DEF LaneInv

\* The batch a tick reads starts right after the cursor.
LEMMA UnreadHasNoGaps ==
  ASSUME TypeOK, IsFiniteSet(log), NEW e \in log, NEW x \in Unread, e <= x
  PROVE  e <= cursor \/ e \in Unread
<1>0. log \subseteq Nat /\ cursor \in Nat /\ x \in log
  BY LaneAssumption DEF TypeOK, Unread
<1>a. e \in Nat /\ (e <= cursor \/ e > cursor)
  BY <1>0
<1> SUFFICES ASSUME e > cursor PROVE e \in Unread
  BY <1>a
<1> DEFINE Before(y) == { f \in log : cursor < f /\ f < y }
<1>1. Before(e) \subseteq Before(x)
  <2> SUFFICES ASSUME NEW f \in log, cursor < f, f < e PROVE f < x
    OBVIOUS
  <2>1. e \in Nat /\ f \in Nat /\ x \in Nat
    BY <1>0
  <2> QED BY <2>1
<1>2. Before(x) \subseteq log
  OBVIOUS
<1>3. IsFiniteSet(Before(x))
  BY <1>2, FS_Subset
<1>4. /\ Cardinality(Before(e)) <= Cardinality(Before(x)) /\ IsFiniteSet(Before(e))
  BY <1>1, <1>3, FS_Subset
<1>5. Cardinality(Before(e)) \in Nat /\ Cardinality(Before(x)) \in Nat
  BY <1>3, <1>4, FS_CardinalityType
<1>6. Cardinality(Before(x)) < BatchSize
  BY DEF Unread
<1> QED BY <1>4, <1>5, <1>6, LaneAssumption DEF Unread

LEMMA BeginLane ==
  ASSUME TypeOK, IsFiniteSet(log), LaneInv, NEW t \in Ticks, Begin(t)
  PROVE  LaneInv'
<1>1. /\ t \in Actors
      /\ UNCHANGED << log, cursor, letters, story, done, cur, ghosts >>
      /\ pc' = [pc EXCEPT ![t] = "next"] /\ batch' = [batch EXCEPT ![t] = Unread]
  BY DEF Begin, Actors
<1>2. InOrder'
  BY <1>1 DEF LaneInv, InOrder, TypeOK, Working, letters, Actors
<1>3. NothingIsSkipped'
  BY <1>1 DEF LaneInv, NothingIsSkipped, letters, ghosts, DeadLettered
<1>4. NoGaps'
  <2> SUFFICES ASSUME NEW k \in Ticks, NEW e \in log \ late, NEW x \in batch'[k], e <= x
               PROVE  e \in batch'[k] \cup handled \cup DeadLettered
    BY <1>1 DEF NoGaps, letters, ghosts, DeadLettered
  <2>1. CASE k = t
    BY <2>1, <1>1, UnreadHasNoGaps DEF LaneInv, NothingIsSkipped, TypeOK
  <2>2. CASE k # t
    BY <2>2, <1>1 DEF LaneInv, NoGaps, TypeOK, Actors
  <2> QED BY <2>1, <2>2
<1> QED BY <1>2, <1>3, <1>4 DEF LaneInv
\* What an actor may work on: a tick on the first event of its batch, a replay on
\* one with a dead letter.
MayWork(a, e) ==
  /\ e \in log
  /\ a \in Ticks => e \in batch[a] /\ \A f \in batch[a] : e <= f
  /\ a \in Replays => letter[e] # "none"

LEMMA WorksOn ==
  ASSUME TypeOK, InOrder, NEW a \in Actors, pc[a] \in Working
  PROVE  MayWork(a, cur[a])
<1>1. cur[a] \in log /\ cur[a] # 0
  BY LaneAssumption DEF TypeOK, Working
<1> QED BY <1>1 DEF MayWork, InOrder

\* Only one actor moves; the others stay in order.
LEMMA OneMoves ==
  ASSUME TypeOK, InOrder, Keeps, NEW a \in Actors, NEW p, NEW c, NEW b,
         pc' = [pc EXCEPT ![a] = p], cur' = [cur EXCEPT ![a] = c],
         batch'[a] = b, \A k \in Ticks : k # a => batch'[k] = batch[k],
         a \in Ticks => /\ p = "idle" => b = {}
                        /\ p \in Working => c \in b /\ \A e \in b : c <= e,
         a \in Replays => (c # 0 => letter'[c] # "none")
  PROVE  InOrder'
<1>1. ASSUME NEW t \in Ticks
      PROVE  /\ pc'[t] = "idle" => batch'[t] = {}
             /\ pc'[t] \in Working =>
                  cur'[t] \in batch'[t] /\ \A e \in batch'[t] : cur'[t] <= e
  <2>1. CASE t = a
    BY <2>1 DEF TypeOK
  <2>2. CASE t # a
    BY <2>2 DEF TypeOK, InOrder, Actors
  <2> QED BY <2>1, <2>2
<1>2. ASSUME NEW r \in Replays, cur'[r] # 0 PROVE letter'[cur'[r]] # "none"
  <2>1. CASE r = a
    BY <1>2, <2>1 DEF TypeOK
  <2>2. CASE r # a
    <3>1. r \in Actors /\ cur'[r] = cur[r] /\ cur[r] # 0 /\ cur[r] \in Events
      BY <1>2, <2>2 DEF TypeOK, Actors
    <3> QED BY <3>1 DEF InOrder, Keeps
  <2> QED BY <2>1, <2>2
<1> QED BY <1>1, <1>2 DEF InOrder

LEMMA GoLane ==
  ASSUME TypeOK, LaneInv, Keeps, NEW a \in Actors, NEW e, MayWork(a, e),
         NEW to \in Working, Go(a, e, to), cursor' = cursor
  PROVE  LaneInv'
<1>1. log \subseteq Events /\ log \subseteq Nat \ {0} /\ e \in log
  BY LaneAssumption DEF TypeOK, MayWork
<1>2. InOrder'
  <2>1. to \notin {"mark", "idle"}
    BY DEF Working
  <2>2. letter'[e] = "none" => letter[e] = "none"
    BY <1>1 DEF Keeps
  <2> QED BY <2>1, <2>2, OneMoves DEF Go, LaneInv, MayWork
<1>3. NoGaps' /\ NothingIsSkipped'
  BY <1>1, NoFurther DEF Go
<1> QED BY <1>2, <1>3 DEF LaneInv

LEMMA ReturnLane ==
  ASSUME TypeOK, LaneInv, Keeps, NEW a \in Actors, NEW e, MayWork(a, e),
         Return(a, e), cursor' = cursor
  PROVE  LaneInv'
<1>1. /\ log \subseteq Events /\ log \subseteq Nat \ {0} /\ e \in log
      /\ batch[a] \subseteq log /\ e \in Given'
  BY LaneAssumption DEF TypeOK, MayWork, Return, Given
<1>2. CASE a \in Ticks
  <2>1. Pass(a, e) /\ pc' = [pc EXCEPT ![a] = "next"] /\ a \notin Replays
    BY <1>2, LaneAssumption DEF Return
  <2>2. InOrder'
    <3>1. \A k \in Ticks : k # a => batch'[k] = batch[k]
      BY <2>1 DEF Pass, TypeOK, Actors
    <3> QED BY <2>1, <3>1, OneMoves DEF Pass, LaneInv, Working
  <2>3. NoGaps' /\ NothingIsSkipped'
    BY <1>1, <1>2, <2>1, PassedOver DEF MayWork
  <2> QED BY <2>2, <2>3 DEF LaneInv
<1>3. CASE a \notin Ticks
  <2>1. InOrder'
    <3>1. letter'[e] = "none" => letter[e] = "none"
      BY <1>1 DEF Keeps
    <3> QED BY <1>3, <3>1, OneMoves DEF Return, LaneInv, MayWork, Actors
  <2>2. NoGaps' /\ NothingIsSkipped'
    BY <1>1, <1>3, NoFurther DEF Return
  <2> QED BY <2>1, <2>2 DEF LaneInv
<1> QED BY <1>2, <1>3

LEMMA ForgetLane ==
  ASSUME TypeOK, LaneInv, Keeps, NEW a \in Actors, Forget(a),
         cursor' \in {cursor} \cup { done[t] : t \in Ticks }
  PROVE  LaneInv'
<1>1. log \subseteq Events /\ log \subseteq Nat \ {0}
  BY LaneAssumption DEF TypeOK
<1>2. InOrder'
  <2>1. batch'[a] = {} /\ \A k \in Ticks : k # a => batch'[k] = batch[k]
    BY DEF Forget, TypeOK, Actors
  <2> QED BY <2>1, OneMoves DEF Forget, LaneInv, Working
<1>3. \A t \in Ticks : batch'[t] \in {batch[t], {}} /\ done'[t] \in {done[t], 0}
  BY DEF Forget, TypeOK, Actors
<1>4. NoGaps' /\ NothingIsSkipped'
  BY <1>1, <1>3, NoFurther
<1> QED BY <1>2, <1>4 DEF LaneInv

\* A failure is recorded; an event that failed too often is given up.
LEMMA FailLane ==
  ASSUME TypeOK, TypeOK', LaneInv, Keeps, NEW t \in Ticks, Fail(t)
  PROVE  LaneInv'
<1>1. /\ log \subseteq Events /\ log \subseteq Nat \ {0} /\ t \in Actors /\ t \notin Replays
      /\ pc[t] = "threw" /\ pc' = [pc EXCEPT ![t] = "next"] /\ cursor' = cursor
  BY LaneAssumption DEF TypeOK, Actors, Fail, Recorded
<1>2. MayWork(t, cur[t]) /\ cur[t] \in Events
  BY <1>1, WorksOn DEF LaneInv, Working, MayWork
<1>3. CASE Stall(t)
  <2>1. InOrder'
    <3>1. batch'[t] = {} /\ \A k \in Ticks : k # t => batch'[k] = batch[k]
      BY <1>1, <1>3 DEF Stall, TypeOK, Actors
    <3> QED BY <1>1, <1>3, <3>1, OneMoves DEF Stall, LaneInv, Working
  <2>2. NoGaps' /\ NothingIsSkipped'
    BY <1>1, <1>3, NoFurther DEF Stall, TypeOK, Actors
  <2> QED BY <2>1, <2>2 DEF LaneInv
<1>4. CASE ~ Stall(t)
  <2>1. Pass(t, cur[t]) /\ Record(cur[t]) /\ attempts[cur[t]] + 1 >= MaxAttempts
    BY <1>4 DEF Fail, Recorded
  <2>2. attempts'[cur[t]] = MaxAttempts
    BY <1>2, <2>1, LaneAssumption DEF Record, TypeOK
  <2>3. cur[t] \in Given'
    BY <1>2, <2>2 DEF Given, DeadLettered
  <2>4. InOrder'
    <3>1. \A k \in Ticks : k # t => batch'[k] = batch[k]
      BY <2>1 DEF Pass, TypeOK, Actors
    <3> QED BY <1>1, <2>1, <3>1, OneMoves DEF Pass, LaneInv, Working
  <2>5. NoGaps' /\ NothingIsSkipped'
    BY <1>1, <1>2, <2>1, <2>3, PassedOver DEF MayWork
  <2> QED BY <2>4, <2>5 DEF LaneInv
<1> QED BY <1>3, <1>4
-----------------------------------------------------------------------------
(* The story: a severity is told, and told once.                           *)

StoryInv == StoryIsTold /\ HandledIsTold /\ AdmittedIsLedgered /\ OneGetsThrough

LEMMA KeepsClean ==
  ASSUME Keeps, NEW e \in Events, Clean(e)'
  PROVE  Clean(e)
BY DEF Keeps, Clean

LEMMA InitStory == Init => StoryInv
<1> SUFFICES ASSUME Init PROVE StoryInv
  OBVIOUS
<1>1. log = {} /\ told = 0 /\ handled = {}
  BY DEF Init
<1>2. ~ (told > 0)
  BY <1>1
<1> QED BY <1>1, <1>2 DEF StoryInv, StoryIsTold, HandledIsTold, AdmittedIsLedgered, OneGetsThrough

\* A step by which nothing is admitted and no snapshot is taken.
LEMMA NothingAdmitted ==
  ASSUME TypeOK, TypeOK', StoryInv, Keeps, told' = told,
         \A e \in log : Admitted(e)' => Admitted(e),
         \A e \in log : e \in burnt \/ Admitted(e) => (e \in burnt \/ Admitted(e))',
         \A e \in log : e \in handled' \ handled => e \in burnt' \/ severity[e] <= told,
         \A b \in Actors : pc'[b] = "story" =>
           pc[b] = "story" /\ cur'[b] = cur[b] /\ prior'[b] = prior[b]
  PROVE  StoryInv'
<1>1. log \subseteq Events /\ log' = log /\ severity' = severity /\ burnt \subseteq burnt'
  BY DEF TypeOK, Keeps
<1>2. StoryIsTold'
  BY <1>1 DEF StoryInv, StoryIsTold, Admitted
<1>3. HandledIsTold'
  <2>1. handled' \subseteq log
    BY <1>1 DEF TypeOK
  <2> QED BY <1>1, <2>1 DEF StoryInv, HandledIsTold
<1>4. AdmittedIsLedgered'
  BY <1>1 DEF StoryInv, AdmittedIsLedgered
<1>5. OneGetsThrough'
  <2> SUFFICES ASSUME NEW e \in log, NEW f \in log, Rivals(e, f)', Clean(e)', Clean(f)', e < f
               PROVE  Spent(f)' /\ (Admitted(f)' => Spent(e)' /\ ~ Admitted(e)')
    BY <1>1 DEF OneGetsThrough
  <2>1. Rivals(e, f) /\ Clean(e) /\ Clean(f)
    BY <1>1, KeepsClean DEF Rivals
  <2>2. Spent(f) /\ (Admitted(f) => Spent(e) /\ ~ Admitted(e))
    BY <2>1 DEF StoryInv, OneGetsThrough
  <2>3. \A x \in log : Spent(x) => Spent(x)'
    BY <1>1 DEF Spent
  <2> QED BY <2>2, <2>3
<1> QED BY <1>2, <1>3, <1>4, <1>5 DEF StoryInv
\* An actor that ends up neither at the ledger nor at the queue.
LEMMA Elsewhere ==
  ASSUME TypeOK, TypeOK', StoryInv, Keeps, told' = told, NEW a \in Actors,
         \A b \in Actors : b # a => pc'[b] = pc[b] /\ cur'[b] = cur[b] /\ prior'[b] = prior[b],
         pc'[a] \notin {"story", "enqueue"},
         sent' \subseteq sent \cup (IF pc[a] = "enqueue" THEN {cur[a]} ELSE {}),
         sent \subseteq sent',
         pc[a] = "enqueue" => cur[a] \in sent' \cup burnt',
         \A e \in handled' \ handled : e \in burnt' \/ severity[e] <= told
  PROVE  StoryInv'
<1>1. \A e \in log : Admitted(e)' => Admitted(e)
  BY DEF Admitted
<1>2. \A e \in log : Admitted(e) => (e \in burnt' \/ Admitted(e)')
  BY DEF Admitted
<1>3. burnt \subseteq burnt'
  BY DEF Keeps
<1>4. \A b \in Actors : pc'[b] = "story" =>
        pc[b] = "story" /\ cur'[b] = cur[b] /\ prior'[b] = prior[b]
  OBVIOUS
<1> QED BY <1>1, <1>2, <1>3, <1>4, NothingAdmitted

\* What is admitted is in the ledger, and so is what is handled after it.
LEMMA AdmittedTold ==
  ASSUME TypeOK, StoryInv, NEW a \in Actors, pc[a] = "enqueue"
  PROVE  cur[a] \in log /\ severity[cur[a]] <= told
<1>1. cur[a] \in log
  BY DEF TypeOK
<1> QED BY <1>1 DEF StoryInv, AdmittedIsLedgered, Admitted

LEMMA EnqueueStory ==
  ASSUME TypeOK, TypeOK', StoryInv, Keeps, NEW a \in Actors, Enqueue(a)
  PROVE  StoryInv'
<1>1. cur[a] \in log /\ severity[cur[a]] <= told
  BY AdmittedTold DEF Enqueue
<1>2. told' = told /\ prior' = prior
  BY DEF Enqueue, story
<1>3. /\ \A b \in Actors : b # a => pc'[b] = pc[b] /\ cur'[b] = cur[b]
      /\ pc'[a] \in {"next", "mark", "threw"}
      /\ handled' \subseteq handled \cup {cur[a]}
  BY DEF Enqueue, Return, Pass, Throw, Go, TypeOK
<1>4. /\ sent \subseteq sent' /\ sent' \subseteq sent \cup {cur[a]}
      /\ cur[a] \in sent' \cup burnt' /\ pc[a] = "enqueue"
  BY DEF Enqueue, Reach
<1> QED BY <1>1, <1>2, <1>3, <1>4, Elsewhere

LEMMA LoadRulesStory ==
  ASSUME TypeOK, TypeOK', StoryInv, Keeps, NEW a \in Actors, NEW e \in log, cur[a] = 0,
         LoadRules(a, e)
  PROVE  StoryInv'
<1>1. /\ told' = told /\ prior' = prior /\ sent' = sent /\ pc[a] # "enqueue"
      /\ \A f \in handled' \ handled : f \in burnt'
  BY DEF LoadRules, story, Return, Go, TypeOK
<1>2. /\ \A b \in Actors : b # a => pc'[b] = pc[b] /\ cur'[b] = cur[b]
      /\ pc'[a] \in {"next", "mark", "admit"}
  BY DEF LoadRules, Return, Pass, Go, TypeOK
<1> QED BY <1>1, <1>2, Elsewhere

LEMMA RulesFailStory ==
  ASSUME TypeOK, TypeOK', StoryInv, Keeps, NEW a \in Actors, NEW e \in log, cur[a] = 0,
         RulesFail(a, e)
  PROVE  StoryInv'
<1>1. /\ told' = told /\ prior' = prior /\ sent' = sent /\ pc[a] # "enqueue"
      /\ handled' = handled
  BY DEF RulesFail, story, Go, TypeOK
<1>2. /\ \A b \in Actors : b # a => pc'[b] = pc[b] /\ cur'[b] = cur[b]
      /\ pc'[a] = "threw"
  BY DEF RulesFail, Go, TypeOK
<1> QED BY <1>1, <1>2, Elsewhere

LEMMA ForgetStory ==
  ASSUME TypeOK, TypeOK', StoryInv, Keeps, NEW a \in Actors, Forget(a),
         UNCHANGED << told, sent, handled >>,
         pc[a] = "enqueue" => cur[a] \in burnt'
  PROVE  StoryInv'
<1>1. /\ \A b \in Actors : b # a => pc'[b] = pc[b] /\ cur'[b] = cur[b] /\ prior'[b] = prior[b]
      /\ pc'[a] = "idle"
  BY DEF Forget, TypeOK
<1> QED BY <1>1, Elsewhere

LEMMA FailStory ==
  ASSUME TypeOK, TypeOK', StoryInv, Keeps, NEW t \in Ticks, Fail(t)
  PROVE  StoryInv'
<1>1. /\ t \in Actors /\ told' = told /\ prior' = prior /\ sent' = sent /\ handled' = handled
      /\ pc[t] = "threw"
  BY DEF Fail, Recorded, story, ghosts, Actors
<1>2. /\ \A b \in Actors : b # t => pc'[b] = pc[b] /\ cur'[b] = cur[b]
      /\ pc'[t] = "next"
  BY <1>1 DEF Fail, Recorded, Pass, Stall, TypeOK
<1> QED BY <1>1, <1>2, Elsewhere

LEMMA BeginStory ==
  ASSUME TypeOK, TypeOK', StoryInv, Keeps, NEW t \in Ticks, Begin(t)
  PROVE  StoryInv'
<1>1. /\ t \in Actors /\ told' = told /\ prior' = prior /\ sent' = sent /\ handled' = handled
      /\ pc[t] = "idle" /\ cur' = cur
  BY DEF Begin, story, ghosts, Actors
<1>2. /\ \A b \in Actors : b # t => pc'[b] = pc[b]
      /\ pc'[t] = "next"
  BY <1>1 DEF Begin, TypeOK
<1> QED BY <1>1, <1>2, Elsewhere

\* An event before the one at work was handled, and unless it was burnt, told.
LEMMA BeforeIsTold ==
  ASSUME TypeOK, LaneInv, StoryInv, NEW a \in Actors, pc[a] \in Working,
         NEW e \in log, Clean(e), Clean(cur[a]), e < cur[a]
  PROVE  severity[e] <= told
<1>1. MayWork(a, cur[a])
  BY WorksOn DEF LaneInv
<1>2. a \in Ticks /\ cur[a] \in batch[a]
  BY <1>1 DEF MayWork, Clean, Actors
<1>3. e \notin late /\ e \notin burnt /\ attempts[e] # MaxAttempts /\ e \in Events
  BY LaneAssumption DEF Clean, TypeOK
<1>4. cur[a] \in Nat /\ e \in Nat
  BY <1>3, <1>1, LaneAssumption DEF MayWork, TypeOK
<1>5. e \in batch[a] \cup handled \cup DeadLettered
  BY <1>2, <1>3, <1>4 DEF LaneInv, NoGaps
<1>6. e \notin batch[a]
  BY <1>1, <1>2, <1>4 DEF MayWork
<1>7. e \in handled
  BY <1>3, <1>5, <1>6 DEF DeadLettered
<1> QED BY <1>3, <1>7 DEF StoryInv, HandledIsTold
\* Once an event is admitted, the next snapshot finds the story told.
LEMMA SnapshotStory ==
  ASSUME TypeOK, TypeOK', LaneInv, StoryInv, Keeps, NEW a \in Actors, Snapshot(a)
  PROVE  StoryInv'
<1>1. /\ told' = told /\ sent' = sent /\ handled' = handled /\ burnt' = burnt
      /\ severity' = severity /\ log' = log /\ pc[a] = "admit" /\ log \subseteq Events
  BY DEF Snapshot, story, Throw, Go, Keeps, TypeOK
<1>2. CASE Throw(a)
  <2>1. prior' = prior
    BY <1>1, <1>2 DEF Snapshot, Throw, Go, TypeOK
  <2>2. /\ \A b \in Actors : b # a => pc'[b] = pc[b] /\ cur'[b] = cur[b]
        /\ pc'[a] = "threw"
    BY <1>2 DEF Throw, Go, TypeOK
  <2> QED BY <1>1, <2>1, <2>2, Elsewhere
<1>3. CASE Go(a, cur[a], "story") /\ prior' = [prior EXCEPT ![a] = told]
  <2>1. /\ \A b \in Actors : b # a => pc'[b] = pc[b] /\ prior'[b] = prior[b]
        /\ pc'[a] = "story" /\ prior'[a] = told /\ \A b \in Actors : cur'[b] = cur[b]
    BY <1>3 DEF Go, TypeOK
  <2>2. \A e \in log : Admitted(e)' <=> Admitted(e)
    BY <1>1, <2>1 DEF Admitted
  <2>3. StoryIsTold' /\ HandledIsTold'
    BY <1>1, <2>2 DEF StoryInv, StoryIsTold, HandledIsTold, Admitted
  <2>4. AdmittedIsLedgered'
    BY <1>1, <2>2 DEF StoryInv, AdmittedIsLedgered
  <2>5. OneGetsThrough'
    <3> SUFFICES ASSUME NEW e \in log, NEW f \in log, Rivals(e, f)', Clean(e)', Clean(f)', e < f
                 PROVE  Spent(f)' /\ (Admitted(f)' => Spent(e)' /\ ~ Admitted(e)')
      BY <1>1 DEF OneGetsThrough
    <3>1. Rivals(e, f) /\ Clean(e) /\ Clean(f)
      BY <1>1, KeepsClean DEF Rivals
    <3>2. Spent(f) /\ (Admitted(f) => Spent(e) /\ ~ Admitted(e))
      BY <3>1 DEF StoryInv, OneGetsThrough
    <3>3. cur[a] = f => told >= severity[f]
      <4> SUFFICES ASSUME cur[a] = f PROVE told >= severity[f]
        OBVIOUS
      <4>1. severity[e] <= told
        BY <1>1, <3>1, BeforeIsTold DEF Working
      <4> QED BY <4>1, <3>1, Severities, <1>1 DEF Rivals
    <3>4. Spent(f)'
      BY <1>1, <2>1, <3>2, <3>3 DEF Spent
    <3>5. ASSUME Admitted(f) PROVE Spent(e)'
      <4>1. severity[e] <= told /\ told \in Nat /\ severity[e] \in Nat
        BY <3>1, <3>5, Severities, <1>1 DEF StoryInv, AdmittedIsLedgered, Rivals
      <4> QED BY <1>1, <2>1, <3>2, <3>5, <4>1 DEF Spent
    <3> QED BY <2>2, <3>2, <3>4, <3>5
  <2> QED BY <2>3, <2>4, <2>5 DEF StoryInv
<1> QED BY <1>2, <1>3 DEF Snapshot

\* The upsert fires only for a severity its snapshot had not seen.
LEMMA UpsertStory ==
  ASSUME TypeOK, TypeOK', LaneInv, StoryInv, Keeps, NEW a \in Actors, Upsert(a)
  PROVE  StoryInv'
<1> DEFINE x == cur[a]
<1>1. /\ sent' = sent /\ burnt' = burnt /\ severity' = severity /\ log' = log
      /\ pc[a] = "story" /\ log \subseteq Events /\ x \in log
      /\ told' = Greater(told, severity[x])
  BY DEF Upsert, Decide, Go, Return, TypeOK
<1>2. /\ told \in Nat /\ severity[x] \in Nat /\ prior[a] \in Nat /\ prior[a] <= told
      /\ \A e \in log : severity[e] \in Nat
  BY <1>1, Severities DEF TypeOK
<1>3. told' >= told /\ told' >= severity[x] /\ told' \in {told, severity[x]}
  BY <1>1, <1>2 DEF Greater
<1>4. /\ \A b \in Actors : b # a => pc'[b] = pc[b] /\ cur'[b] = cur[b] /\ prior'[b] = prior[b]
      /\ pc'[a] # "story" /\ handled' \subseteq handled \cup {x}
  BY DEF Upsert, Decide, Go, Return, Pass, TypeOK
<1>5. CASE severity[x] > prior[a]
  <2>1. pc'[a] = "enqueue" /\ cur'[a] = x /\ handled' = handled
    BY <1>5, <1>1 DEF Upsert, Decide, Go, TypeOK
  <2>2. \A e \in log : Admitted(e)' <=> Admitted(e) \/ e = x
    BY <1>1, <1>4, <2>1 DEF Admitted
  <2>3. \A e \in log : Spent(e) => Spent(e)'
    BY <1>1, <1>4, <2>1 DEF Spent
  <2>4. ~ Spent(x)
    BY <1>1, <1>2, <1>5 DEF Spent
  <2>5. StoryIsTold'
    <3>1. CASE told' = told
      BY <1>1, <2>2, <3>1 DEF StoryInv, StoryIsTold, Admitted
    <3>2. CASE told' = severity[x]
      BY <1>1, <2>1, <3>2 DEF StoryIsTold
    <3> QED BY <1>3, <3>1, <3>2
  <2>6. HandledIsTold'
    <3>1. \A e \in handled \ burnt : severity[e] <= told /\ severity[e] \in Nat
      BY <1>2 DEF StoryInv, HandledIsTold, TypeOK
    <3> QED BY <1>1, <1>2, <1>3, <2>1, <3>1 DEF HandledIsTold
  <2>7. AdmittedIsLedgered'
    <3>1. \A e \in log : Admitted(e) => severity[e] <= told
      BY DEF StoryInv, AdmittedIsLedgered
    <3> QED BY <1>1, <1>2, <1>3, <2>2, <3>1 DEF AdmittedIsLedgered
  <2>8. OneGetsThrough'
    <3> SUFFICES ASSUME NEW e \in log, NEW f \in log, Rivals(e, f)', Clean(e)', Clean(f)', e < f
                 PROVE  Spent(f)' /\ (Admitted(f)' => Spent(e)' /\ ~ Admitted(e)')
      BY <1>1 DEF OneGetsThrough
    <3>1. Rivals(e, f) /\ Clean(e) /\ Clean(f)
      BY <1>1, KeepsClean DEF Rivals
    <3>2. Spent(f) /\ (Admitted(f) => Spent(e) /\ ~ Admitted(e))
      BY <3>1 DEF StoryInv, OneGetsThrough
    <3>3. f # x
      BY <2>4, <3>2
    <3>4. Admitted(f) => e # x
      BY <2>4, <3>2
    <3> QED BY <2>2, <2>3, <3>2, <3>3, <3>4
  <2> QED BY <2>5, <2>6, <2>7, <2>8 DEF StoryInv
<1>6. CASE ~ (severity[x] > prior[a])
  <2>1. told' = told /\ severity[x] <= told /\ pc'[a] \notin {"story", "enqueue"}
    BY <1>1, <1>2, <1>6 DEF Upsert, Decide, Return, TypeOK, Greater
  <2> QED BY <1>1, <1>4, <2>1, Elsewhere
<1> QED BY <1>5, <1>6
LEMMA ThrottleStory ==
  ASSUME TypeOK, TypeOK', StoryInv, Keeps, NEW a \in Actors, Throttle(a)
  PROVE  StoryInv'
<1> DEFINE x == cur[a]
<1>1. /\ told' = told /\ sent' = sent /\ burnt' = burnt /\ severity' = severity /\ log' = log
      /\ prior' = prior /\ severity[x] = 0 /\ told \in Nat /\ pc[a] = "admit" /\ x \in log
      /\ \A b \in Actors : b # a => pc'[b] = pc[b] /\ cur'[b] = cur[b]
  BY Severities DEF Throttle, story, Return, Pass, Throw, Go, TypeOK
<1>2. CASE Return(a, x)
  <2>1. pc'[a] \in {"next", "mark"} /\ handled' \subseteq handled \cup {x}
    BY <1>2 DEF Return, TypeOK
  <2> QED BY <1>1, <2>1, Elsewhere
<1>3. CASE Throw(a)
  <2>1. pc'[a] = "threw" /\ handled' = handled
    BY <1>3 DEF Throw, Go, TypeOK
  <2> QED BY <1>1, <2>1, Elsewhere
<1>4. CASE Go(a, x, "enqueue")
  <2>1. pc'[a] = "enqueue" /\ cur'[a] = x /\ handled' = handled
    BY <1>4 DEF Go, TypeOK
  <2>2. \A e \in log : Admitted(e)' <=> Admitted(e) \/ e = x
    BY <1>1, <2>1 DEF Admitted
  <2>3. StoryIsTold' /\ HandledIsTold'
    BY <1>1, <2>1, <2>2 DEF StoryInv, StoryIsTold, HandledIsTold, Admitted
  <2>4. AdmittedIsLedgered'
    BY <1>1, <2>2 DEF StoryInv, AdmittedIsLedgered
  <2>5. OneGetsThrough'
    <3> SUFFICES ASSUME NEW e \in log, NEW f \in log, Rivals(e, f)', Clean(e)', Clean(f)', e < f
                 PROVE  Spent(f)' /\ (Admitted(f)' => Spent(e)' /\ ~ Admitted(e)')
      BY <1>1 DEF OneGetsThrough
    <3>1. Rivals(e, f) /\ Clean(e) /\ Clean(f) /\ e # x /\ f # x
      BY <1>1, KeepsClean DEF Rivals, TypeOK
    <3>2. Spent(f) /\ (Admitted(f) => Spent(e) /\ ~ Admitted(e))
      BY <3>1 DEF StoryInv, OneGetsThrough
    <3>3. \A y \in log : Spent(y) => Spent(y)'
      BY <1>1, <2>1 DEF Spent
    <3> QED BY <2>2, <3>1, <3>2, <3>3
  <2> QED BY <2>3, <2>4, <2>5 DEF StoryInv
<1> QED BY <1>2, <1>3, <1>4 DEF Throttle

\* An event that comes behind one at work is late.
LEMMA AppendStory ==
  ASSUME TypeOK, TypeOK', LaneInv, StoryInv, NEW n \in Events, Append(n)
  PROVE  StoryInv'
<1>1. /\ UNCHANGED << severity, told, sent, handled, burnt, letter, pc, cur, batch, prior >>
      /\ n \notin log /\ log' = log \cup {n} /\ late \subseteq late'
      /\ \A t \in Ticks : (\E y \in batch[t] : n <= y) => n \in late'
  BY DEF Append, letters, story, local
<1>2. ~ Admitted(n) /\ Spent(n) /\ n # 0
  BY <1>1, LaneAssumption DEF Admitted, Spent, TypeOK
<1>3. /\ \A e \in Events : Admitted(e)' <=> Admitted(e)
      /\ \A e \in Events : Spent(e)' <=> Spent(e)
  BY <1>1 DEF Admitted, Spent
<1>4. StoryIsTold' /\ HandledIsTold'
  BY <1>1 DEF StoryInv, StoryIsTold, HandledIsTold
<1>5. AdmittedIsLedgered'
  BY <1>1, <1>2, <1>3 DEF StoryInv, AdmittedIsLedgered, TypeOK
<1>6. OneGetsThrough'
  <2> SUFFICES ASSUME NEW e \in log', NEW f \in log', Rivals(e, f)', Clean(e)', Clean(f)', e < f
               PROVE  Spent(f) /\ (Admitted(f) => Spent(e) /\ ~ Admitted(e))
    BY <1>1, <1>3 DEF OneGetsThrough, TypeOK
  <2>1. Rivals(e, f) /\ Clean(e) /\ Clean(f) /\ e \in Nat /\ f \in Nat
    BY <1>1, LaneAssumption DEF Rivals, Clean, TypeOK
  <2>2. CASE e \in log /\ f \in log
    BY <2>1, <2>2 DEF StoryInv, OneGetsThrough
  <2>3. CASE f = n
    BY <2>3, <1>2
  <2>4. CASE e = n /\ f \in log
    <3>1. ASSUME NEW a \in Actors, cur[a] = f, pc[a] = "story" PROVE FALSE
      <4>1. MayWork(a, f)
        BY <3>1, WorksOn DEF LaneInv, Working
      <4>2. a \in Ticks /\ f \in batch[a]
        BY <2>1, <4>1 DEF MayWork, Clean, Actors
      <4>3. n \in late'
        BY <1>1, <2>1, <2>4, <4>2
      <4> QED BY <2>4, <4>3 DEF Clean
    <3> QED BY <2>4, <1>2, <3>1 DEF Spent
  <2> QED BY <1>1, <2>2, <2>3, <2>4
<1> QED BY <1>4, <1>5, <1>6 DEF StoryInv

-----------------------------------------------------------------------------
(* The theorems.                                                           *)

LEMMA RecordKeeps ==
  ASSUME TypeOK, UNCHANGED << severity, log, told, late, handled, burnt >>,
         UNCHANGED letters \/ \E e \in Events : Record(e)
  PROVE  Keeps
<1>1. told \in Nat
  BY Severities
<1>2. \A e \in Events : /\ attempts[e] = MaxAttempts => attempts'[e] = MaxAttempts
                        /\ letter'[e] = "none" => letter[e] = "none"
  BY LaneAssumption DEF Record, letters, TypeOK
<1> QED BY <1>1, <1>2 DEF Keeps

\* Every step but an append keeps what the invariant counts on.
LEMMA AllKeep ==
  ASSUME TypeOK, InOrder, Next, \A e \in Events : ~ Append(e)
  PROVE  Keeps
<1>1. told \in Nat
  BY Severities
<1>2. ASSUME NEW t \in Ticks, Begin(t) \/ Fail(t) \/ Advance(t) PROVE Keeps
  <2>1. cur[t] \in Events \cup {0} /\ (pc[t] = "threw" => cur[t] \in Events)
    BY DEF TypeOK, Actors
  <2> QED BY <1>2, <2>1, RecordKeeps DEF Begin, Fail, Recorded, Advance, story, ghosts
<1>3. ASSUME NEW a \in Actors, NEW e \in Events, LoadRules(a, e) \/ RulesFail(a, e) PROVE Keeps
  BY <1>1, <1>3 DEF Keeps, LoadRules, RulesFail, Return, Go, letters, story
<1>4. ASSUME NEW a \in Actors, Handler(a) PROVE Keeps
  <2>1. CASE Snapshot(a) \/ Throttle(a) \/ Enqueue(a)
    BY <1>1, <2>1 DEF Keeps, Snapshot, Throttle, Enqueue, Reach, Throw, Return, Go, letters, story
  <2>2. CASE Upsert(a)
    <3>1. severity[cur[a]] \in Nat
      BY <2>2, Severities DEF Upsert, TypeOK
    <3> QED BY <1>1, <2>2, <3>1 DEF Upsert, Keeps, Decide, Return, Go, letters, Greater
  <2> QED BY <1>4, <2>1, <2>2 DEF Handler
<1>5. ASSUME NEW r \in Replays, ReplayFails(r) PROVE Keeps
  <2>1. cur[r] \in Events
    BY <1>5 DEF TypeOK, Actors, ReplayFails
  <2> QED BY <1>5, <2>1, RecordKeeps DEF ReplayFails, story, ghosts
<1>6. ASSUME NEW r \in Replays, MarkReplayed(r) PROVE Keeps
  BY <1>1, <1>6 DEF Keeps, MarkReplayed, story, ghosts, TypeOK
<1>7. ASSUME NEW a \in Actors, Dies(a) PROVE Keeps
  BY <1>1, <1>7 DEF Keeps, Dies, letters, story
<1>8. ASSUME NEW t \in Ticks, Take(t) PROVE Keeps
  <2>1. batch[t] \subseteq Events /\ t \in Actors
    BY DEF TypeOK, Actors
  <2> QED BY <1>3, <1>8, <2>1 DEF Take
<1>9. ASSUME NEW r \in Replays, NEW e \in Events, Replay(r, e) PROVE Keeps
  BY <1>3, <1>9 DEF Replay, Actors
<1> QED BY <1>2, <1>4, <1>5, <1>6, <1>7, <1>8, <1>9 DEF Next, Tick, Actors

LEMMA InitInv == Init => IInv
<1> SUFFICES ASSUME Init PROVE IInv
  OBVIOUS
<1>1. TypeOK /\ StoryInv
  BY InitTypes, InitStory
<1>2. IsFiniteSet(log)
  BY FS_EmptySet DEF Init
<1>3. InOrder /\ NoGaps /\ NothingIsSkipped
  BY DEF Init, InOrder, NoGaps, NothingIsSkipped, Working, Actors
<1> QED BY <1>1, <1>2, <1>3 DEF IInv, StoryInv
\* Every step leaves the types, ...
LEMMA StepTypes == ASSUME TypeOK, InOrder, Next PROVE TypeOK'
<1>1. CASE \E e \in Events : Append(e)
  BY <1>1, AppendTypes
<1>2. ASSUME NEW t \in Ticks, Take(t) PROVE TypeOK'
  <2> PICK e \in batch[t] : \/ LoadRules(t, e) /\ UNCHANGED odds
                            \/ RulesFail(t, e)
    BY <1>2 DEF Take
  <2>1. t \in Actors /\ e \in log /\ cur[t] = 0 /\ odds \in 0 .. OddBound
    BY <1>2 DEF Take, Actors, TypeOK
  <2> QED BY <2>1, LoadRulesTypes, RulesFailTypes
<1>3. ASSUME NEW r \in Replays, NEW e \in Events, Replay(r, e) PROVE TypeOK'
  <2>1. r \in Actors /\ e \in log /\ cur[r] = 0 /\ odds' \in 0 .. OddBound
    BY <1>3, Odds DEF Replay, Actors, TypeOK
  <2> QED BY <1>3, <2>1, LoadRulesTypes DEF Replay
<1>4. ASSUME NEW a \in Actors, Handler(a) PROVE TypeOK'
  BY <1>4, SnapshotTypes, UpsertTypes, ThrottleTypes, EnqueueTypes DEF Handler
<1> QED BY <1>1, <1>2, <1>3, <1>4, BeginTypes, FailTypes, AdvanceTypes, ReplayFailsTypes,
           MarkTypes, DiesTypes DEF Next, Tick, Actors

\* ... the order of the lane ...
LEMMA StepLane ==
  ASSUME TypeOK, TypeOK', IsFiniteSet(log), LaneInv, Next
  PROVE  LaneInv'
<1>1. CASE \E e \in Events : Append(e)
  BY <1>1, AppendLane
<1>2. CASE \A e \in Events : ~ Append(e)
  <2>1. Keeps
    BY <1>2, AllKeep DEF LaneInv
  <2>2. ASSUME NEW a \in Actors, NEW e, MayWork(a, e), LoadRules(a, e) PROVE LaneInv'
    BY <2>1, <2>2, GoLane, ReturnLane DEF LoadRules, Working
  <2>3. ASSUME NEW t \in Ticks, Take(t) PROVE LaneInv'
    <3> PICK e \in batch[t] : /\ \A f \in batch[t] : e <= f
                              /\ LoadRules(t, e) \/ RulesFail(t, e)
      BY <2>3 DEF Take
    <3>1. t \in Actors /\ MayWork(t, e)
      BY LaneAssumption DEF Actors, TypeOK, MayWork
    <3>2. CASE RulesFail(t, e)
      BY <2>1, <3>1, <3>2, GoLane DEF RulesFail, Working
    <3> QED BY <2>2, <3>1, <3>2
  <2>4. ASSUME NEW r \in Replays, NEW e \in Events, Replay(r, e) PROVE LaneInv'
    <3>1. r \in Actors /\ MayWork(r, e)
      BY <2>4, LaneAssumption DEF Actors, TypeOK, MayWork, Replay
    <3> QED BY <2>2, <2>4, <3>1 DEF Replay
  <2>5. ASSUME NEW a \in Actors, Handler(a) PROVE LaneInv'
    <3>1. pc[a] \in Working /\ cursor' = cursor
      BY <2>5 DEF Handler, Snapshot, Upsert, Decide, Throttle, Enqueue, Working
    <3>2. MayWork(a, cur[a])
      BY <3>1, WorksOn DEF LaneInv
    <3>3. Return(a, cur[a]) \/ \E to \in Working : Go(a, cur[a], to)
      BY <2>5 DEF Handler, Snapshot, Upsert, Decide, Throttle, Enqueue, Throw, Working
    <3> QED BY <2>1, <3>1, <3>2, <3>3, GoLane, ReturnLane
  <2>6. ASSUME NEW a \in Actors, Dies(a) PROVE LaneInv'
    BY <2>1, <2>6, ForgetLane DEF Dies
  <2>7. ASSUME NEW t \in Ticks, Advance(t) PROVE LaneInv'
    BY <2>1, <2>7, ForgetLane DEF Advance, Actors
  <2>8. ASSUME NEW r \in Replays, ReplayFails(r) \/ MarkReplayed(r) PROVE LaneInv'
    BY <2>1, <2>8, ForgetLane DEF ReplayFails, MarkReplayed, Actors
  <2> QED BY <1>2, <2>1, <2>3, <2>4, <2>5, <2>6, <2>7, <2>8, BeginLane, FailLane
          DEF Next, Tick, Actors
<1> QED BY <1>1, <1>2

\* ... and the truth of the story.
LEMMA StepStory ==
  ASSUME TypeOK, TypeOK', LaneInv, StoryInv, Next
  PROVE  StoryInv'
<1>1. CASE \E e \in Events : Append(e)
  BY <1>1, AppendStory
<1>2. CASE \A e \in Events : ~ Append(e)
  <2>1. Keeps
    BY <1>2, AllKeep DEF LaneInv
  <2>2. ASSUME NEW t \in Ticks, Take(t) PROVE StoryInv'
    <3> PICK e \in batch[t] : LoadRules(t, e) \/ RulesFail(t, e)
      BY <2>2 DEF Take
    <3>1. t \in Actors /\ e \in log /\ cur[t] = 0
      BY <2>2 DEF Take, Actors, TypeOK
    <3> QED BY <2>1, <3>1, LoadRulesStory, RulesFailStory
  <2>3. ASSUME NEW r \in Replays, NEW e \in Events, Replay(r, e) PROVE StoryInv'
    <3>1. r \in Actors /\ e \in log /\ cur[r] = 0
      BY <2>3 DEF Replay, Actors, TypeOK
    <3> QED BY <2>1, <2>3, <3>1, LoadRulesStory DEF Replay
  <2>4. ASSUME NEW a \in Actors, Handler(a) PROVE StoryInv'
    BY <2>1, <2>4, SnapshotStory, UpsertStory, ThrottleStory, EnqueueStory DEF Handler
  <2>5. ASSUME NEW a \in Actors, Dies(a) PROVE StoryInv'
    BY <2>1, <2>5, ForgetStory DEF Dies, story
  <2>6. ASSUME NEW t \in Ticks, Advance(t) PROVE StoryInv'
    BY <2>1, <2>6, ForgetStory DEF Advance, story, ghosts, Actors
  <2>7. ASSUME NEW r \in Replays, ReplayFails(r) \/ MarkReplayed(r) PROVE StoryInv'
    BY <2>1, <2>7, ForgetStory DEF ReplayFails, MarkReplayed, story, ghosts, Actors
  <2> QED BY <1>2, <2>1, <2>2, <2>3, <2>4, <2>5, <2>6, <2>7, BeginStory, FailStory
          DEF Next, Tick, Actors
<1> QED BY <1>1, <1>2

LEMMA StepInv == ASSUME IInv, [Next]_vars PROVE IInv'
<1>1. TypeOK /\ LaneInv /\ StoryInv /\ IsFiniteSet(log)
  BY DEF IInv, LaneInv, StoryInv
<1>2. CASE Next
  <2>1. TypeOK'
    BY <1>1, <1>2, StepTypes DEF LaneInv
  <2>2. IsFiniteSet(log')
    <3>1. CASE \E e \in Events : Append(e)
      BY <1>1, <3>1, FS_AddElement DEF Append
    <3>2. CASE \A e \in Events : ~ Append(e)
      BY <1>1, <1>2, <3>2, AllKeep DEF LaneInv, Keeps
    <3> QED BY <3>1, <3>2
  <2>3. LaneInv' /\ StoryInv'
    BY <1>1, <1>2, <2>1, StepLane, StepStory
  <2> QED BY <2>1, <2>2, <2>3 DEF IInv, LaneInv, StoryInv
<1>3. CASE UNCHANGED vars
  <2> USE <1>3 DEF vars, letters, story, local, ghosts
  <2>1. UNCHANGED << severity, log, cursor, attempts, letter, told, sent, pc, cur, batch,
                     done, prior, cache, handled, late, burnt, odds >>
    OBVIOUS
  <2>2. TypeOK' /\ InOrder' /\ NoGaps' /\ NothingIsSkipped' /\ StoryIsTold' /\ HandledIsTold'
    BY <1>1, <2>1 DEF LaneInv, StoryInv, TypeOK, InOrder, NoGaps, NothingIsSkipped,
                      StoryIsTold, HandledIsTold, DeadLettered
  <2>3. AdmittedIsLedgered' /\ OneGetsThrough'
    BY <1>1, <2>1 DEF StoryInv, AdmittedIsLedgered, OneGetsThrough, Admitted, Rivals, Clean, Spent
  <2> QED BY <1>1, <2>1, <2>2, <2>3 DEF IInv
<1> QED BY <1>2, <1>3

\* The lane's invariant holds, whatever the ticks, the replays and the bounds.
THEOREM Invariance == Spec => []IInv
<1>1. Init => IInv
  BY InitInv
<1>2. IInv /\ [Next]_vars => IInv'
  BY StepInv
<1> QED BY <1>1, <1>2, PTL DEF Spec

\* The cursor of dispatchLaneForOrg passes only what was handled or given up.
THEOREM NoSkip == Spec => []NothingIsSkipped
<1>1. IInv => NothingIsSkipped
  BY DEF IInv
<1> QED BY <1>1, Invariance, PTL

\* What tryNotifyGroup records as told was enqueued, or is, or was burnt.
THEOREM Telling == Spec => []StoryIsTold
<1>1. IInv => StoryIsTold
  BY DEF IInv
<1> QED BY <1>1, Invariance, PTL

\* Of two clean events of one severity, one at most is notified.
THEOREM TellingOnce == Spec => []StoryIsToldOnce
<1>1. IInv => StoryIsToldOnce
  <2> SUFFICES ASSUME IInv, NEW e \in sent, NEW f \in sent, Rivals(e, f), Clean(e), Clean(f)
               PROVE  FALSE
    BY DEF StoryIsToldOnce
  <2>1. e \in log /\ f \in log /\ Admitted(e) /\ Admitted(f) /\ OneGetsThrough
    BY DEF IInv, TypeOK, Admitted
  <2>2. e \in Nat /\ f \in Nat /\ e # f
    BY <2>1, LaneAssumption DEF Rivals, IInv, TypeOK
  <2>3. Rivals(f, e)
    BY DEF Rivals
  <2>4. e < f \/ f < e
    BY <2>2
  <2> QED BY <2>1, <2>3, <2>4 DEF OneGetsThrough
<1> QED BY <1>1, Invariance, PTL

\* A handled event's severity was told, but for a lost rule or a failed enqueue.
THEOREM Handling == Spec => []HandledIsTold
<1>1. IInv => HandledIsTold
  BY DEF IInv
<1> QED BY <1>1, Invariance, PTL
==============================================================================
