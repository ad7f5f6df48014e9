------------------------------- MODULE EventLane -------------------------------
(***************************************************************************)
(* One subscriber lane of one organisation: the minutely dispatcher reads  *)
(* the event log past the lane's cursor and hands each event to the        *)
(* notifications handler; what keeps failing is dead-lettered, and can be  *)
(* replayed.  Ticks overlap, and no lock is held.                          *)
(*                                                                         *)
(* An event is its place in the order (occurred_at, id).  One rule matches *)
(* every event; its enabled targets count as one.                          *)
(***************************************************************************)
EXTENDS Integers, FiniteSets

CONSTANTS
  Events,        \* positive numbers, in the order of the log
  Kinds,         \* the functions severity is drawn from
  Ticks, Replays,
  BatchSize, MaxAttempts,
  OddBound       \* bound: overlapping ticks, replays, failed statements, dead workers

ASSUME LaneAssumption ==
  /\ Events \subseteq Nat \ {0} /\ Kinds \subseteq [Events -> Nat]
  /\ Ticks \cap Replays = {}
  /\ BatchSize \in Nat \ {0} /\ MaxAttempts \in Nat \ {0, 1}
  /\ OddBound \in Nat

Actors == Ticks \cup Replays

VARIABLES
  severity,          \* of each event in the rule's one story; 0: of no story
  log,               \* events appended so far
  cursor,            \* lane_cursors: the last event consumed, or 0
  attempts, letter,  \* dead_letters of the lane, by event
  told,              \* rule_group_notifications: highest severity, or 0
  sent,              \* notifications enqueued, by event
  pc, cur, batch, done, prior, cache,   \* of each tick or replay
  handled,           \* ghost: the handler has returned for it
  late,              \* ghost: appended behind the cursor or a batch already read
  burnt,             \* ghost: a failure after its admission, or a lost rule
  odds

letters == << attempts, letter >>
story   == << severity, told >>
local   == << pc, cur, batch, done, prior, cache >>
ghosts  == << handled, late, burnt >>
vars    == << log, cursor, letters, story, sent, local, ghosts, odds >>

Init ==
  /\ severity \in Kinds
  /\ log = {} /\ cursor = 0
  /\ attempts = [e \in Events |-> 0] /\ letter = [e \in Events |-> "none"]
  /\ told = 0 /\ sent = {}
  /\ pc = [a \in Actors |-> "idle"] /\ cur = [a \in Actors |-> 0]
  /\ batch = [a \in Actors |-> {}] /\ done = [a \in Actors |-> 0]
  /\ prior = [a \in Actors |-> 0] /\ cache = [a \in Actors |-> "unread"]
  /\ handled = {} /\ late = {} /\ burnt = {}
  /\ odds = 0

Greater(m, n) == IF m < n THEN n ELSE m

Odd == odds < OddBound /\ odds' = odds + 1

\* The first BatchSize events past the cursor.
Unread == { e \in log : e > cursor /\ Cardinality({ f \in log : cursor < f /\ f < e }) < BatchSize }

\* An event's time is its producer's, so it can come behind what has been read.
Append(e) ==
  /\ e \notin log
  /\ log' = log \cup {e}
  /\ late' = IF \E x \in {cursor} \cup UNION { batch[t] \cup {done[t]} : t \in Ticks } : e <= x
               THEN late \cup {e} ELSE late
  /\ UNCHANGED << cursor, letters, story, sent, local, handled, burnt, odds >>

-----------------------------------------------------------------------------
(* The notifications handler, for a tick or a replay.                      *)

\* The tick is done with its event: done is lastDone.
Pass(a, e) ==
  /\ batch' = [batch EXCEPT ![a] = @ \ {e}]
  /\ done' = [done EXCEPT ![a] = e]
  /\ cur' = [cur EXCEPT ![a] = 0]

Go(a, e, to) ==
  /\ pc' = [pc EXCEPT ![a] = to] /\ cur' = [cur EXCEPT ![a] = e]
  /\ UNCHANGED << batch, done, handled >>

\* The handler returns: a tick goes to the next event, a replay marks the letter.
Return(a, e) ==
  /\ handled' = handled \cup {e}
  /\ IF a \in Ticks
       THEN pc' = [pc EXCEPT ![a] = "next"] /\ Pass(a, e)
       ELSE /\ pc' = [pc EXCEPT ![a] = "mark"] /\ cur' = [cur EXCEPT ![a] = e]
            /\ UNCHANGED << batch, done >>

Throw(a) == Go(a, cur[a], "threw")

\* The rules are read once and kept, then their targets; ...
LoadRules(a, e) ==
  /\ IF cache[a] = "blind"
       THEN Return(a, e) /\ burnt' = burnt \cup {e} /\ UNCHANGED cache
       ELSE Go(a, e, "admit") /\ cache' = [cache EXCEPT ![a] = "read"] /\ UNCHANGED burnt
  /\ UNCHANGED << log, cursor, letters, story, sent, prior, late >>

\* ... when only the second read fails, the rules are kept without targets, and
\* match in vain.
RulesFail(a, e) ==
  /\ cache[a] = "unread" /\ Odd
  /\ Go(a, e, "threw")
  /\ \E c \in {"unread", "blind"} : cache' = [cache EXCEPT ![a] = c]
  /\ UNCHANGED << log, cursor, letters, story, sent, prior, late, burnt >>

\* tryNotifyGroup reads the prior severity from the statement's snapshot ...
Snapshot(a) ==
  /\ pc[a] = "admit" /\ severity[cur[a]] > 0
  /\ \/ Go(a, cur[a], "story") /\ prior' = [prior EXCEPT ![a] = told] /\ UNCHANGED odds
     \/ Odd /\ Throw(a) /\ UNCHANGED prior
  /\ UNCHANGED << log, cursor, letters, story, sent, cache, late, burnt >>

\* It fires when the event opens the story or escalates it.
Decide(a, fire) ==
  /\ IF fire THEN Go(a, cur[a], "enqueue") ELSE Return(a, cur[a])
  /\ prior' = [prior EXCEPT ![a] = 0]
  /\ UNCHANGED << severity, log, cursor, letters, sent, cache, late, burnt, odds >>

Bug_FireAlways(a) ==
  pc[a] = "story" /\ told' = Greater(told, severity[cur[a]]) /\ Decide(a, TRUE)

\* ... while its upsert waits for another's row and raises what it finds.
Upsert(a) ==
  pc[a] = "story" /\ told' = Greater(told, severity[cur[a]]) /\ Decide(a, severity[cur[a]] > prior[a])

\* tryConsumeThrottle: the window has room, or not.
Throttle(a) ==
  /\ pc[a] = "admit" /\ severity[cur[a]] = 0
  /\ \/ Go(a, cur[a], "enqueue") /\ UNCHANGED odds
     \/ Return(a, cur[a]) /\ UNCHANGED odds
     \/ Odd /\ Throw(a)
  /\ UNCHANGED << log, cursor, letters, story, sent, prior, cache, late, burnt >>

Reach(a) == sent' = sent \cup {cur[a]} /\ UNCHANGED burnt

Bug_FailureSwallowed(a) ==
  /\ pc[a] = "enqueue"
  /\ Reach(a) \/ UNCHANGED << sent, burnt >>
  /\ Return(a, cur[a])
  /\ UNCHANGED << log, cursor, letters, story, prior, cache, late, odds >>

\* Enqueued under a key of the rule, target and event; a failure, which may
\* have reached the notifications worker, is thrown.
Enqueue(a) ==
  /\ pc[a] = "enqueue"
  /\ \/ Reach(a) /\ Return(a, cur[a])
     \/ Reach(a) /\ Throw(a)
     \/ burnt' = burnt \cup {cur[a]} /\ Throw(a) /\ UNCHANGED sent
  /\ UNCHANGED << log, cursor, letters, story, prior, cache, late, odds >>

Handler(a) == Snapshot(a) \/ Upsert(a) \/ Throttle(a) \/ Enqueue(a)

-----------------------------------------------------------------------------
(* The dispatcher.                                                         *)

\* A tick reads the cursor, then a batch.
Begin(t) ==
  /\ pc[t] = "idle" /\ Unread # {}
  /\ IF \A k \in Ticks : pc[k] = "idle"
       THEN UNCHANGED odds
       ELSE Odd
  /\ pc' = [pc EXCEPT ![t] = "next"]
  /\ batch' = [batch EXCEPT ![t] = Unread]
  /\ UNCHANGED << log, cursor, letters, story, sent, cur, done, prior, cache, ghosts >>

Take(t) ==
  /\ pc[t] = "next"
  /\ \E e \in batch[t] :
       /\ \A f \in batch[t] : e <= f
       /\ \/ LoadRules(t, e) /\ UNCHANGED odds
          \/ RulesFail(t, e)

Stall(t) ==
  /\ batch' = [batch EXCEPT ![t] = {}]
  /\ cur' = [cur EXCEPT ![t] = 0]
  /\ UNCHANGED done

Bug_RecordOnce(e) ==
  letter' = [letter EXCEPT ![e] = "open"] /\ UNCHANGED attempts

\* recordDeadLetter: attempts are told apart only up to the maximum.
Record(e) ==
  /\ attempts' = [attempts EXCEPT ![e] = IF @ < MaxAttempts THEN @ + 1 ELSE @]
  /\ letter' = [letter EXCEPT ![e] = "open"]

Recorded(t, passOver) ==
  /\ pc[t] = "threw"
  /\ \/ /\ Record(cur[t]) /\ UNCHANGED odds
        /\ IF passOver THEN Pass(t, cur[t]) ELSE Stall(t)
     \/ Odd /\ Stall(t) /\ UNCHANGED letters
  /\ pc' = [pc EXCEPT ![t] = "next"]
  /\ UNCHANGED << log, cursor, story, sent, prior, cache, ghosts >>

Bug_FailPasses(t) == Recorded(t, TRUE)
Bug_FailStalls(t) == Recorded(t, FALSE)

\* The handler threw: an event that has failed too often is passed over, any
\* other stalls the organisation until the next tick.
Fail(t) == Recorded(t, attempts[cur[t]] + 1 >= MaxAttempts)

Forget(a) ==
  /\ pc' = [pc EXCEPT ![a] = "idle"] /\ cur' = [cur EXCEPT ![a] = 0]
  /\ batch' = [batch EXCEPT ![a] = {}] /\ done' = [done EXCEPT ![a] = 0]
  /\ prior' = [prior EXCEPT ![a] = 0] /\ cache' = [cache EXCEPT ![a] = "unread"]

\* advanceLaneCursor is an upsert: a slow tick moves the cursor back.
Advance(t) ==
  /\ pc[t] = "next" /\ batch[t] = {}
  /\ \/ cursor' = (IF done[t] = 0 THEN cursor ELSE done[t]) /\ UNCHANGED odds
     \/ done[t] # 0 /\ Odd /\ UNCHANGED cursor
  /\ Forget(t)
  /\ UNCHANGED << log, letters, story, sent, ghosts >>

Tick(t) == Begin(t) \/ Take(t) \/ Handler(t) \/ Fail(t) \/ Advance(t)

-----------------------------------------------------------------------------
(* handleReplayDeadLetter, with a handler of its own.                      *)

Replay(r, e) ==
  /\ pc[r] = "idle" /\ letter[e] = "open"
  /\ Odd
  /\ LoadRules(r, e)

ReplayFails(r) ==
  /\ pc[r] = "threw"
  /\ \/ Record(cur[r]) /\ UNCHANGED odds
     \/ Odd /\ UNCHANGED letters
  /\ Forget(r)
  /\ UNCHANGED << log, cursor, story, sent, ghosts >>

\* The letter is marked whatever has happened to it since it was read.
MarkReplayed(r) ==
  /\ pc[r] = "mark"
  /\ \/ letter' = [letter EXCEPT ![cur[r]] = "replayed"] /\ UNCHANGED odds
     \/ Odd /\ UNCHANGED letter
  /\ Forget(r)
  /\ UNCHANGED << log, cursor, attempts, story, sent, ghosts >>

\* The worker ends in the middle.
Dies(a) ==
  /\ pc[a] # "idle" /\ Odd
  /\ Forget(a)
  /\ burnt' = IF pc[a] = "enqueue" THEN burnt \cup {cur[a]} ELSE burnt
  /\ UNCHANGED << log, cursor, letters, story, sent, handled, late >>

Next ==
  \/ \E e \in Events : Append(e)
  \/ \E t \in Ticks : Tick(t)
  \/ \E r \in Replays : Handler(r) \/ ReplayFails(r) \/ MarkReplayed(r)
  \/ \E r \in Replays, e \in Events : Replay(r, e)
  \/ \E a \in Actors : Dies(a)

(* The cron ticks every minute; nobody need append or replay.              *)
Spec == Init /\ [][Next]_vars /\ \A t \in Ticks : WF_vars(Tick(t))

-----------------------------------------------------------------------------
DeadLettered == { e \in Events : attempts[e] = MaxAttempts }

TypeOK ==
  /\ severity \in Kinds /\ log \subseteq Events /\ cursor \in log \cup {0}
  /\ attempts \in [Events -> 0 .. MaxAttempts]
  /\ letter \in [Events -> {"none", "open", "replayed"}]
  /\ \A e \in Events : letter[e] = "none" <=> attempts[e] = 0
  /\ \A e \in Events \ log : letter[e] = "none"
  /\ told \in {0} \cup { severity[e] : e \in log }
  /\ sent \subseteq log /\ handled \subseteq log /\ late \subseteq log
  /\ burnt \subseteq log
  /\ pc \in [Actors -> {"idle", "next", "admit", "story", "enqueue", "threw", "mark"}]
  /\ cur \in [Actors -> log \cup {0}] /\ batch \in [Actors -> SUBSET log]
  /\ done \in [Actors -> log \cup {0}] /\ prior \in [Actors -> 0 .. told]
  /\ cache \in [Actors -> {"unread", "read", "blind"}]
  /\ \A a \in Actors : cur[a] = 0 <=> pc[a] \in {"idle", "next"}
  /\ odds \in 0 .. OddBound

\* The cursor, and each tick's own, stand only where everything behind has been
\* handled or has failed too often, whichever ticks overlapped and wherever one
\* of them moved the cursor back: except for events that came late.
NothingIsSkipped ==
  \A e \in log \ late :
    (e <= cursor \/ \E t \in Ticks : e <= done[t]) => e \in handled \cup DeadLettered

\* A story's ledger never runs ahead of what its readers got, except by the
\* admissions that were followed by a failed enqueue or a dead worker, and by
\* those still under way.
StoryIsTold ==
  told > 0 =>
    \E e \in log :
      /\ severity[e] = told
      /\ e \in sent \cup burnt \/ \E a \in Actors : cur[a] = e /\ pc[a] = "enqueue"

Clean(e) == e \notin late \cup burnt /\ letter[e] = "none"

Rivals(e, f) == e # f /\ severity[e] > 0 /\ severity[e] = severity[f]

\* A severity of a story is notified once, however the ticks overlap.  Two events
\* get through only when both statements found the story unopened, which takes
\* an event that failed or lost its rule before, or one that came late.
StoryIsToldOnce ==
  \A e, f \in sent : Rivals(e, f) => \E g \in {e, f} : ~Clean(g)

\* What was handled was told, in its severity or a higher one, unless the rule
\* had lost its targets or the handler had failed after the admission.
HandledIsTold == \A e \in handled \ burnt : severity[e] <= told

\* An event that fails for ever does not wedge the lane: the cursor passes every
\* event, also when the slower of two ticks keeps moving it back.
EventsArePassed == \A e \in Events : e \in log ~> e <= cursor
-----------------------------------------------------------------------------
(* What the properties rest on.                                            *)

Working == {"admit", "story", "enqueue", "threw"}

\* A tick works on the first event of its batch, a replay on one that failed.
InOrder ==
  /\ \A t \in Ticks :
       /\ pc[t] = "idle" => batch[t] = {}
       /\ pc[t] \in Working => cur[t] \in batch[t] /\ \A e \in batch[t] : cur[t] <= e
  /\ \A r \in Replays : cur[r] # 0 => letter[cur[r]] # "none"

\* A batch has no gaps but what was handled or given up.
NoGaps ==
  \A t \in Ticks, e \in log \ late :
    (\E x \in batch[t] : e <= x) => e \in batch[t] \cup handled \cup DeadLettered

Admitted(e) == e \in sent \/ \E a \in Actors : cur[a] = e /\ pc[a] = "enqueue"

AdmittedIsLedgered == \A e \in log : Admitted(e) => severity[e] <= told

\* No statement under way takes the story of e for unopened.
Spent(e) == \A a \in Actors : cur[a] = e /\ pc[a] = "story" => prior[a] >= severity[e]

\* Of two events of one severity the later never gets through, nor the earlier
\* once the later has, unless something went wrong for one of them.
OneGetsThrough ==
  \A e, f \in log :
    Rivals(e, f) /\ Clean(e) /\ Clean(f) /\ e < f =>
      Spent(f) /\ (Admitted(f) => Spent(e) /\ ~ Admitted(e))

\* The inductive invariant: it implies every invariant above.
IInv ==
  /\ TypeOK /\ IsFiniteSet(log) /\ InOrder /\ NoGaps /\ NothingIsSkipped
  /\ StoryIsTold /\ HandledIsTold /\ AdmittedIsLedgered /\ OneGetsThrough
==============================================================================
