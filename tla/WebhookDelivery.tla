---------------------------- MODULE WebhookDelivery ----------------------------
(***************************************************************************)
(* Webhook delivery to one endpoint with one subscription: each minute a   *)
(* worker dispatches the events past the cursor, one attempt row each, and *)
(* then retries the rows that are due; ticks overlap, users replay rows    *)
(* and switch the endpoint off and on.                                     *)
(*                                                                         *)
(* An event is its place in the log.  Batches are never full, and every    *)
(* retry is due by the time a worker lists.                                *)
(***************************************************************************)
EXTENDS Integers, FiniteSets

CONSTANTS
  Events,       \* positive numbers, in the order of the log
  Rows,         \* webhook_delivery_attempts, positive numbers in the order made
  Ticks, Users, \* workers: cron invocations, replay requests
  MaxRetries, Threshold,
  Budgets       \* bounds a behaviour may have: its events, the replays, and the
                \* odds: overlaps, switches, failed statements, dead workers

Workers == Ticks \cup Users

ASSUME DeliveryAssumption ==
  /\ Events \subseteq Nat \ {0} /\ Rows \subseteq Nat \ {0}
  /\ MaxRetries \in Nat \ {0} /\ Threshold \in Nat \ {0} /\ Ticks \cap Users = {}
  /\ Budgets \subseteq [events : SUBSET Events, replays : Nat, odds : Nat]
  /\ \A b \in Budgets : Cardinality(Rows) >= Cardinality(b.events) * (1 + b.odds) + b.replays

VARIABLES
  log, cursor,             \* event_log, lane_cursors
  event, status, number,   \* the rows; event 0: not made yet
  earlier,                 \* of each row with a completed_at: those with an older one
  endpoint,                \* active or disabled
  phase, batch, last, due, \* of each worker; last: lastEvent, due: rows as listed
  held,                    \* of each worker: the row it delivers
  calls,                   \* ghost: HTTP requests made, by row, up to a cap
  missed,                  \* ghost: late events, or passed over without a row
  doubled,                 \* ghost: rows that two workers had in hand
  torn,                    \* ghost: the end of a delivery was not recorded
  refused,                 \* ghost: ... because its number was another row's
  unsent,                  \* ghost: rows that failed without a call
  coming, replays, odds    \* what is left of the budget; coming: events

table  == << event, status, number, earlier >>
local  == << phase, batch, last, due, held >>
ghosts == << calls, missed, doubled, torn, refused, unsent >>
budget == << coming, replays, odds >>
vars   == << log, cursor, table, endpoint, local, ghosts, budget >>

NoRow == [row |-> 0, number |-> 0, step |-> "none"]

Init ==
  /\ log = {} /\ cursor = 0
  /\ event = [r \in Rows |-> 0] /\ status = [r \in Rows |-> "none"]
  /\ number = [r \in Rows |-> 0] /\ earlier = [r \in Rows |-> {}]
  /\ endpoint = "active"
  /\ phase = [w \in Workers |-> "idle"] /\ batch = [w \in Workers |-> {}]
  /\ last = [w \in Workers |-> 0] /\ due = [w \in Workers |-> {}]
  /\ held = [w \in Workers |-> NoRow]
  /\ calls = [r \in Rows |-> 0]
  /\ missed = {} /\ doubled = {} /\ torn = {} /\ refused = {} /\ unsent = {}
  /\ \E b \in Budgets : coming = b.events /\ replays = b.replays /\ odds = b.odds

Odd == odds > 0 /\ odds' = odds - 1

\* The producer's time may put an event behind the cursor, or a batch being read.
Publish(e) ==
  /\ e \in coming /\ coming' = coming \ {e}
  /\ log' = log \cup {e}
  /\ missed' = IF \E x \in {cursor} \cup UNION { batch[t] \cup {last[t]} : t \in Ticks } : e <= x
                 THEN missed \cup {e} ELSE missed
  /\ UNCHANGED << cursor, table, endpoint, local, calls, doubled, torn, refused,
                  unsent, replays, odds >>

-----------------------------------------------------------------------------
(* The table.  (subscription, event, attempt_number) is unique.            *)

Taken(e, n, r) == \E s \in Rows \ {r} : event[s] = e /\ number[s] = n

InHand(w, r) == held[w].row = r \/ \E p \in due[w] : p[1] = r

Hold(w, r, n, step) == held' = [held EXCEPT ![w] = [row |-> r, number |-> n, step |-> step]]

Drop(w) == held' = [held EXCEPT ![w] = NoRow]

\* createDeliveryAttempt, of a number that is not taken: the next row.
Create(w, e) ==
  \E r \in Rows :
    /\ event[r] = 0 /\ \A s \in Rows : s < r => event[s] # 0
    /\ event' = [event EXCEPT ![r] = e] /\ status' = [status EXCEPT ![r] = "pending"]
    /\ number' = [number EXCEPT ![r] = 1] /\ UNCHANGED earlier
    /\ Hold(w, r, 1, "resolve")

Settled == { r \in Rows : status[r] \in {"success", "failed"} }

\* The row's completed_at is now, or is cleared.
Stamp(r, clear) ==
  earlier' = [q \in Rows |-> IF q # r THEN earlier[q] \ {r}
                             ELSE IF clear THEN {} ELSE Settled \ {r}]

\* Mutant: a row that is retried keeps its completed_at.
Bug_UpdateStamps(r, s, n) ==
  IF Taken(event[r], n, r)
    THEN UNCHANGED table
    ELSE /\ status' = [status EXCEPT ![r] = s] /\ number' = [number EXCEPT ![r] = n]
         /\ Stamp(r, FALSE) /\ UNCHANGED event

\* updateDeliveryAttempt fails, with nothing changed, where the new number is taken.
Update(r, s, n) ==
  IF Taken(event[r], n, r)
    THEN UNCHANGED table
    ELSE /\ status' = [status EXCEPT ![r] = s] /\ number' = [number EXCEPT ![r] = n]
         /\ Stamp(r, s = "retrying") /\ UNCHANGED event

\* The failures completed after the last success.
Streak == { r \in Rows : status[r] = "failed"
                         /\ \A s \in Rows : status[s] = "success" => s \in earlier[r] }

-----------------------------------------------------------------------------
(* deliverAttempt, of worker w with the row it holds.                      *)

\* Failed for want of an endpoint; the number stays.
GiveUp(w) ==
  LET r == held[w].row IN
  /\ Update(r, "failed", number[r]) /\ unsent' = unsent \cup {r}
  /\ Drop(w) /\ UNCHANGED << torn, odds >>

\* The row is left as it is: the update failed, or the dispatcher found no endpoint.
LoseIt(w) ==
  /\ Odd /\ torn' = torn \cup {held[w].row}
  /\ Drop(w) /\ UNCHANGED << table, unsent >>

Resolve(w) ==
  /\ held[w].step = "resolve"
  /\ \/ /\ endpoint = "active" /\ Hold(w, held[w].row, held[w].number, "post")
        /\ UNCHANGED << table, torn, unsent, odds >>
     \/ endpoint = "disabled" /\ GiveUp(w)
     \/ LoseIt(w) /\ (phase[w] = "dispatch" \/ endpoint = "disabled")
     \/ \* the endpoint cannot be read: a retry or a replay takes it for gone
        /\ phase[w] # "dispatch" /\ Odd
        /\ Update(held[w].row, "failed", number[held[w].row])
        /\ unsent' = unsent \cup {held[w].row}
        /\ Drop(w) /\ UNCHANGED torn
  /\ UNCHANGED << log, cursor, endpoint, phase, batch, last, due, calls, missed,
                  doubled, refused, coming, replays >>

\* The endpoint answers 2xx, or anything else: another status, no answer in time.
Post(w) ==
  /\ held[w].step = "post"
  /\ \E answer \in {"ok", "bad"} : Hold(w, held[w].row, held[w].number, answer)
  /\ calls' = [calls EXCEPT ![held[w].row] = IF @ > MaxRetries THEN @ ELSE @ + 1]
  /\ UNCHANGED << log, cursor, table, endpoint, phase, batch, last, due,
                  missed, doubled, torn, refused, unsent, budget >>

\* Mutant: one retry too many.
Bug_OneMore(n) == n <= MaxRetries

\* nextRetryAt: none from the last number on.
Again(n) == n < MaxRetries

Succeed(w, r, n) ==
  /\ Update(r, "success", n) /\ Drop(w)
  /\ refused' = IF Taken(event[r], n, r) THEN refused \cup {r} ELSE refused

\* The last failure, once it is in the table, has the endpoint's streak counted.
Miss(w, r, n) ==
  LET lost == Taken(event[r], n + 1, r) IN
  /\ Update(r, IF Again(n) THEN "retrying" ELSE "failed", n + 1)
  /\ refused' = IF lost THEN refused \cup {r} ELSE refused
  /\ IF Again(n) \/ lost THEN Drop(w) ELSE Hold(w, r, n, "count")

Record(w) ==
  LET r == held[w].row  n == held[w].number IN
  /\ held[w].step \in {"ok", "bad"}
  /\ \/ /\ IF held[w].step = "ok" THEN Succeed(w, r, n) ELSE Miss(w, r, n)
        /\ UNCHANGED << torn, unsent, odds >>
     \/ LoseIt(w) /\ UNCHANGED refused
  /\ UNCHANGED << log, cursor, endpoint, phase, batch, last, due, calls, missed,
                  doubled, coming, replays >>

\* maybeAutoDisableEndpoint counts ...
Count(w) ==
  /\ held[w].step = "count"
  /\ \/ /\ Cardinality(Streak) >= Threshold
        /\ Hold(w, held[w].row, held[w].number, "disable") /\ UNCHANGED odds
     \/ Cardinality(Streak) < Threshold /\ Drop(w) /\ UNCHANGED odds
     \/ Odd /\ Drop(w)
  /\ UNCHANGED << log, cursor, table, endpoint, phase, batch, last, due, ghosts, coming, replays >>

\* ... and disables.
AutoDisable(w) ==
  /\ held[w].step = "disable" /\ endpoint' = "disabled" /\ Drop(w)
  /\ UNCHANGED << log, cursor, table, phase, batch, last, due, ghosts, budget >>

Deliver(w) == Resolve(w) \/ Post(w) \/ Record(w) \/ Count(w) \/ AutoDisable(w)

-----------------------------------------------------------------------------
(* A tick: dispatch, then retry.                                           *)

Free(w) == held[w].step = "none"

Goto(w, p) == phase' = [phase EXCEPT ![w] = p]

\* An organisation with no active endpoint is not listed.
Begin(t) ==
  LET unread == { e \in log : e > cursor } IN
  /\ phase[t] = "idle"
  /\ IF \A u \in Ticks \ {t} : phase[u] = "idle" THEN UNCHANGED odds ELSE Odd
  /\ IF endpoint = "active" /\ unread # {}
       THEN Goto(t, "dispatch") /\ batch' = [batch EXCEPT ![t] = unread]
       ELSE Goto(t, "list") /\ UNCHANGED batch
  /\ UNCHANGED << log, cursor, table, endpoint, last, due, held, ghosts, coming, replays >>

\* The next event gets its row; or there is no active endpoint, or a row of that number.
DispatchNext(t, e) ==
  /\ last' = [last EXCEPT ![t] = e]
  /\ IF endpoint = "active" /\ ~Taken(e, 1, 0)
       THEN Create(t, e) /\ UNCHANGED missed
       ELSE /\ missed' = IF endpoint = "active" THEN missed ELSE missed \cup {e}
            /\ UNCHANGED << table, held >>
  /\ UNCHANGED odds

\* A failed read leaves lastEvent, a failed insert does not; both go on.
DispatchFails(t, e) ==
  /\ Odd /\ missed' = missed \cup {e}
  /\ \/ UNCHANGED last
     \/ last' = [last EXCEPT ![t] = e]
  /\ UNCHANGED << table, held >>

Dispatch(t) ==
  /\ phase[t] = "dispatch" /\ Free(t)
  /\ \E e \in batch[t] :
       /\ \A f \in batch[t] : e <= f
       /\ batch' = [batch EXCEPT ![t] = @ \ {e}]
       /\ DispatchNext(t, e) \/ DispatchFails(t, e)
  /\ UNCHANGED << log, cursor, endpoint, phase, due, calls, doubled, torn, refused,
                  unsent, coming, replays >>

\* Mutant: the cursor goes to the newest event.
Bug_AdvanceToNewest(t) ==
  /\ phase[t] = "dispatch" /\ Free(t) /\ batch[t] = {}
  /\ \/ cursor' \in { e \in log : \A f \in log : f <= e } /\ UNCHANGED odds
     \/ Odd /\ UNCHANGED cursor
  /\ Goto(t, "list") /\ last' = [last EXCEPT ![t] = 0]
  /\ UNCHANGED << log, table, endpoint, batch, due, held, ghosts, coming, replays >>

Advance(t) ==
  /\ phase[t] = "dispatch" /\ Free(t) /\ batch[t] = {}
  /\ \/ cursor' = (IF last[t] = 0 THEN cursor ELSE last[t]) /\ UNCHANGED odds
     \/ Odd /\ UNCHANGED cursor
  /\ Goto(t, "list") /\ last' = [last EXCEPT ![t] = 0]
  /\ UNCHANGED << log, table, endpoint, batch, due, held, ghosts, coming, replays >>

\* Mutants: whatever has been retried is listed; rows of a disabled endpoint are not.
Listed(t, rows) ==
  /\ phase[t] = "list"
  /\ \/ /\ Goto(t, "retry")
        /\ due' = [due EXCEPT ![t] =
                    { << r, IF number[r] < MaxRetries THEN number[r] ELSE MaxRetries >> : r \in rows }]
        /\ doubled' = doubled \cup { r \in rows : \E w \in Workers \ {t} : InHand(w, r) }
        /\ UNCHANGED odds
     \/ Odd /\ Goto(t, "idle") /\ UNCHANGED << due, doubled >>
  /\ UNCHANGED << log, cursor, table, endpoint, batch, last, held, calls, missed,
                  torn, refused, unsent, coming, replays >>

Bug_ListAll(t) == Listed(t, { r \in Rows : number[r] > 1 })

Bug_ListActive(t) == Listed(t, { r \in Rows : status[r] = "retrying" /\ endpoint = "active" })

\* listRetryableDeliveries: each row with its number as it is now.
List(t) ==
  LET rows == { r \in Rows : status[r] = "retrying" } IN
  /\ phase[t] = "list"
  /\ \/ /\ Goto(t, "retry") /\ due' = [due EXCEPT ![t] = { << r, number[r] >> : r \in rows }]
        /\ doubled' = doubled \cup { r \in rows : \E w \in Workers \ {t} : InHand(w, r) }
        /\ UNCHANGED odds
     \/ Odd /\ Goto(t, "idle") /\ UNCHANGED << due, doubled >>
  /\ UNCHANGED << log, cursor, table, endpoint, batch, last, held, calls, missed, torn,
                  refused, unsent, coming, replays >>

Retry(t) ==
  /\ phase[t] = "retry" /\ Free(t)
  /\ \/ \E p \in due[t] : /\ Hold(t, p[1], p[2], "resolve")
                          /\ due' = [due EXCEPT ![t] = @ \ {p}] /\ UNCHANGED phase
     \/ due[t] = {} /\ Goto(t, "idle") /\ UNCHANGED << held, due >>
  /\ UNCHANGED << log, cursor, table, endpoint, batch, last, ghosts, budget >>

-----------------------------------------------------------------------------
(* Users.                                                                  *)

\* A fresh row for a row's event, where number 1 is not taken; else an error.
Replay(u, r) ==
  /\ phase[u] = "idle" /\ event[r] # 0 /\ ~Taken(event[r], 1, 0)
  /\ replays > 0 /\ replays' = replays - 1
  /\ Goto(u, "replay") /\ Create(u, event[r])
  /\ UNCHANGED << log, cursor, endpoint, batch, last, due, ghosts, coming, odds >>

Answer(u) ==
  /\ phase[u] = "replay" /\ Free(u) /\ Goto(u, "idle")
  /\ UNCHANGED << log, cursor, table, endpoint, batch, last, due, held, ghosts, budget >>

Switch ==
  /\ Odd /\ endpoint' = IF endpoint = "active" THEN "disabled" ELSE "active"
  /\ UNCHANGED << log, cursor, table, local, ghosts, coming, replays >>

-----------------------------------------------------------------------------

\* An invocation ends, wherever it is.
Dies(w) ==
  /\ phase[w] # "idle" /\ Odd
  /\ Goto(w, "idle") /\ Drop(w) /\ batch' = [batch EXCEPT ![w] = {}]
  /\ last' = [last EXCEPT ![w] = 0] /\ due' = [due EXCEPT ![w] = {}]
  /\ torn' = IF Free(w) THEN torn ELSE torn \cup {held[w].row}
  /\ UNCHANGED << log, cursor, table, endpoint, calls, missed, doubled, refused,
                  unsent, coming, replays >>

Work(w) == Deliver(w) \/ (w \in Ticks /\ (Dispatch(w) \/ Advance(w) \/ List(w) \/ Retry(w)))
                      \/ (w \in Users /\ Answer(w))

Tick == \E t \in Ticks : Begin(t)

Next ==
  \/ \E e \in Events : Publish(e)
  \/ Tick
  \/ \E w \in Workers : Work(w) \/ Dies(w)
  \/ \E u \in Users, r \in Rows : Replay(u, r)
  \/ Switch

\* The cron keeps ticking, and an invocation that has not ended goes on.
Spec == Init /\ [][Next]_vars /\ WF_vars(Tick) /\ \A w \in Workers : WF_vars(Work(w))

-----------------------------------------------------------------------------

\* The rows; those with a completed_at are ordered by it.
TableOK ==
  /\ event \in [Rows -> Events \cup {0}] /\ number \in [Rows -> 0 .. MaxRetries + 1]
  /\ status \in [Rows -> {"none", "pending", "retrying", "success", "failed"}]
  /\ earlier \in [Rows -> SUBSET Settled]
  /\ \A r, s \in Settled : r # s => (r \in earlier[s] <=> s \notin earlier[r])
  /\ \A r \in Rows : r \notin earlier[r] /\ (r \notin Settled => earlier[r] = {})

Deliveries == [row : Rows, number : 1 .. MaxRetries,
               step : {"resolve", "post", "ok", "bad", "count", "disable"}]

TypeOK ==
  /\ log \subseteq Events /\ cursor \in Events \cup {0}
  /\ TableOK
  /\ endpoint \in {"active", "disabled"}
  /\ phase \in [Workers -> {"idle", "dispatch", "list", "retry", "replay"}]
  /\ batch \in [Workers -> SUBSET Events] /\ last \in [Workers -> Events \cup {0}]
  /\ due \in [Workers -> SUBSET (Rows \X (1 .. MaxRetries))]
  /\ held \in [Workers -> {NoRow} \cup Deliveries]
  /\ calls \in [Rows -> 0 .. MaxRetries + 1] /\ missed \subseteq Events
  /\ doubled \subseteq Rows /\ torn \subseteq Rows /\ refused \subseteq Rows /\ unsent \subseteq Rows
  /\ coming \subseteq Events \ log
  /\ replays \in Nat /\ odds \in Nat

\* The cursor passes an event only when the event has a row, or is one of those
\* named: appended behind what was read, met by a failed statement, or by an
\* endpoint that was disabled (dispatchNewEvents).
EventsGetTheirRow ==
  \A e \in log : e <= cursor => e \in missed \/ \E r \in Rows : event[r] = e

\* A delivery that failed for the endpoint's answers was tried MaxRetries times,
\* whatever overlapped; and no delivery is tried more often, unless two workers
\* had it, or its outcome was lost or refused (deliverAttempt, nextRetryAt).
CallsAreCounted ==
  \A r \in Rows :
    /\ status[r] = "failed" => r \in unsent \/ calls[r] >= MaxRetries
    /\ calls[r] > MaxRetries => r \in doubled \cup torn \cup refused

\* A delivery the endpoint accepted stays accepted, unless two workers had it:
\* then the late failure of one overwrites the success of the other.
SuccessStays ==
  [][\A r \in Rows : status[r] = "success" => status'[r] = "success" \/ r \in doubled']_vars

\* A row is delivered or given up in the end, also when the endpoint is disabled,
\* unless its end was lost, or refused for a number that another row has.
RowsSettle ==
  \A r \in Rows :
    status[r] \in {"pending", "retrying"} ~>
      status[r] \in {"success", "failed"} \/ r \in torn \cup refused

\* specs/components/15-webhooks-integrations.md:80, "Delivery retries must be
\* bounded": a row no two workers had, and none of whose outcomes was lost, is
\* called MaxRetries times at most.
RetriesAreBounded ==
  \A r \in Rows : calls[r] > MaxRetries => r \in doubled \cup torn
-----------------------------------------------------------------------------
(* What the properties rest on.                                            *)

Seen(e) == e \in missed \/ \E r \in Rows : event[r] = e

\* A batch, and what a tick has been through, leave nothing out.
NothingLeftOut ==
  \A t \in Ticks, e \in log :
    /\ (\E x \in batch[t] : e <= x) => e \in batch[t] \/ Seen(e)
    /\ e <= last[t] => Seen(e)

\* A worker has rows in hand only where it delivers.
HandsFit ==
  /\ \A w \in Workers : /\ phase[w] \in {"idle", "list"} => Free(w)
                        /\ phase[w] # "retry" => due[w] = {}
                        /\ phase[w] \in {"dispatch", "list", "retry"} => w \in Ticks
  /\ \A r \in Rows : event[r] = 0 =>
       /\ status[r] = "none" /\ number[r] = 0 /\ calls[r] = 0 /\ r \notin doubled
       /\ \A w \in Workers : ~ InHand(w, r)
  /\ \A r \in Rows : status[r] \in {"pending", "retrying"} => number[r] \in 1 .. MaxRetries

\* The unique index.
NumbersAreTaken ==
  \A r, s \in Rows : r # s /\ event[r] = event[s] /\ event[r] # 0 => number[r] # number[s]

\* A row that was never doubled is in one worker's hand, as the table has it.
HandsAreApart ==
  \A r \in Rows \ doubled :
    /\ \A v, w \in Workers : InHand(v, r) /\ InHand(w, r) => v = w
    /\ \A w \in Workers :
         /\ held[w].row = r =>
              /\ \A p \in due[w] : p[1] # r
              /\ IF held[w].step \in {"count", "disable"}
                   THEN status[r] = "failed"
                   ELSE status[r] \in {"pending", "retrying"} /\ held[w].number = number[r]
         /\ \A p \in due[w] : p[1] = r => status[r] = "retrying" /\ p[2] = number[r]

\* A number counts calls that were made, ...
Answered(w) == held[w].step \in {"ok", "bad"}

NumbersAreCalls ==
  /\ \A r \in Rows : number[r] <= calls[r] + 1
  /\ \A w \in Workers : \A p \in due[w] : p[2] <= calls[p[1]] + 1
  /\ \A w \in Workers : held[w].row # 0 =>
       /\ held[w].number <= calls[held[w].row] + 1
       /\ Answered(w) => held[w].number <= calls[held[w].row]

\* ... and all of them, while nothing went wrong for the row.
CallsAreNumbered ==
  \A r \in Rows \ (doubled \cup torn \cup refused) :
    /\ calls[r] <= MaxRetries
    /\ status[r] \in {"pending", "retrying"} =>
         IF \E w \in Workers : held[w].row = r /\ Answered(w)
           THEN calls[r] <= number[r] ELSE calls[r] < number[r]

\* The inductive invariant: it implies the invariants above.
IInv ==
  /\ TypeOK /\ HandsFit /\ NumbersAreTaken /\ HandsAreApart
  /\ NothingLeftOut /\ EventsGetTheirRow
  /\ NumbersAreCalls /\ CallsAreNumbered /\ CallsAreCounted
==============================================================================
