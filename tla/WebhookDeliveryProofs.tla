------------------------- MODULE WebhookDeliveryProofs -------------------------
(***************************************************************************)
(* Whatever the workers, the overlaps, the faults and the replays: no      *)
(* event is left out unnamed, calls are counted, and a success stays.      *)
(***************************************************************************)
EXTENDS WebhookDelivery, TLAPS

-----------------------------------------------------------------------------
(* Rows and hands.                                                         *)

LEMMA NoRowIsNone ==
  /\ NoRow.row = 0 /\ NoRow.step = "none" /\ NoRow.number = 0 /\ 0 \notin Rows
  /\ NoRow \notin Deliveries
<1>1. NoRow.row = 0 /\ NoRow.step = "none" /\ NoRow.number = 0
  BY DEF NoRow
<1>2. 0 \notin Rows
  BY DeliveryAssumption
<1> QED BY <1>1, <1>2 DEF Deliveries

LEMMA HeldTypes ==
  ASSUME TypeOK, NEW w \in Workers
  PROVE  /\ held[w].row # 0 <=> ~ Free(w)
         /\ held[w].row # 0 => held[w] \in Deliveries /\ held[w].row \in Rows
         /\ held[w].row = 0 => held[w] = NoRow
<1>1. held[w] \in {NoRow} \cup Deliveries
  BY DEF TypeOK
<1>2. CASE held[w] = NoRow
  BY <1>2, NoRowIsNone DEF Free
<1>3. CASE held[w] \in Deliveries
  BY <1>3, NoRowIsNone DEF Free, Deliveries
<1> QED BY <1>1, <1>2, <1>3

\* What a hand holds after Hold and Drop.
LEMMA HoldEffect ==
  ASSUME TypeOK, NEW w \in Workers, NEW r \in Rows, NEW n \in 1 .. MaxRetries,
         NEW s \in {"resolve", "post", "ok", "bad", "count", "disable"}, Hold(w, r, n, s)
  PROVE  /\ held' \in [Workers -> {NoRow} \cup Deliveries]
         /\ held'[w].row = r /\ held'[w].number = n /\ held'[w].step = s
         /\ \A v \in Workers : v # w => held'[v] = held[v]
BY DEF Hold, TypeOK, Deliveries

LEMMA DropEffect ==
  ASSUME TypeOK, NEW w \in Workers, Drop(w)
  PROVE  /\ held' \in [Workers -> {NoRow} \cup Deliveries]
         /\ held'[w] = NoRow /\ held'[w].row = 0 /\ held'[w].step = "none"
         /\ \A v \in Workers : v # w => held'[v] = held[v]
BY NoRowIsNone DEF Drop, TypeOK

\* An update writes its row and no other, or nothing.
LEMMA UpdateEffect ==
  ASSUME TypeOK, NEW r \in Rows, NEW s \in {"retrying", "success", "failed"},
         NEW n \in 0 .. MaxRetries + 1, Update(r, s, n)
  PROVE  /\ TableOK' /\ event' = event
         /\ \A q \in Rows : q # r => status'[q] = status[q] /\ number'[q] = number[q]
         /\ IF Taken(event[r], n, r)
              THEN status' = status /\ number' = number
              ELSE status'[r] = s /\ number'[r] = n
<1>1. CASE Taken(event[r], n, r)
  BY <1>1 DEF Update, TypeOK, TableOK, table, Settled
<1>2. CASE ~ Taken(event[r], n, r)
  <2>1. /\ event' = event /\ status' = [status EXCEPT ![r] = s]
        /\ number' = [number EXCEPT ![r] = n] /\ Stamp(r, s = "retrying")
    BY <1>2 DEF Update
  <2>2. /\ status' \in [Rows -> {"none", "pending", "retrying", "success", "failed"}]
        /\ number' \in [Rows -> 0 .. MaxRetries + 1]
        /\ event' \in [Rows -> Events \cup {0}]
    BY <2>1 DEF TypeOK, TableOK
  <2>3. Settled' = IF s = "retrying" THEN Settled \ {r} ELSE Settled \cup {r}
    BY <2>1 DEF TypeOK, TableOK, Settled
  <2>4. /\ \A q \in Rows \ {r} : earlier'[q] = earlier[q] \ {r}
        /\ earlier'[r] = IF s = "retrying" THEN {} ELSE Settled \ {r}
    BY <2>1 DEF Stamp
  <2>5. earlier' \in [Rows -> SUBSET Settled']
    <3>1. \A q \in Rows : earlier[q] \subseteq Settled
      BY DEF TypeOK, TableOK
    <3>2. \A q \in Rows : earlier'[q] \subseteq Settled'
      BY <2>3, <2>4, <3>1
    <3>3. earlier' = [q \in Rows |-> earlier'[q]]
      BY <2>1 DEF Stamp
    <3> QED BY <3>2, <3>3
  <2>6. \A q \in Rows : q \notin earlier'[q] /\ (q \notin Settled' => earlier'[q] = {})
    BY <2>3, <2>4 DEF TypeOK, TableOK
  <2>7. \A p, q \in Settled' : p # q => (p \in earlier'[q] <=> q \notin earlier'[p])
    <3>1. Settled \subseteq Rows /\ Settled' \subseteq Rows
      BY DEF Settled
    <3> QED BY <2>3, <2>4, <3>1 DEF TypeOK, TableOK
  <2> QED BY <1>2, <2>1, <2>2, <2>5, <2>6, <2>7 DEF TableOK, TypeOK
<1> QED BY <1>1, <1>2

\* createDeliveryAttempt makes a row nobody knew.
LEMMA CreateEffect ==
  ASSUME TypeOK, HandsFit, NEW w \in Workers, NEW e \in Events, Create(w, e)
  PROVE  \E r \in Rows :
           /\ TableOK' /\ event[r] = 0 /\ event'[r] = e /\ e # 0
           /\ status[r] = "none" /\ status'[r] = "pending"
           /\ number[r] = 0 /\ number'[r] = 1 /\ calls[r] = 0 /\ r \notin doubled
           /\ \A v \in Workers : ~ InHand(v, r)
           /\ \A q \in Rows : q # r => /\ event'[q] = event[q] /\ status'[q] = status[q]
                                       /\ number'[q] = number[q]
           /\ Hold(w, r, 1, "resolve")
<1>1. PICK r \in Rows :
        /\ event[r] = 0 /\ event' = [event EXCEPT ![r] = e]
        /\ status' = [status EXCEPT ![r] = "pending"] /\ number' = [number EXCEPT ![r] = 1]
        /\ UNCHANGED earlier /\ Hold(w, r, 1, "resolve")
  BY DEF Create
<1>2. /\ status[r] = "none" /\ number[r] = 0 /\ calls[r] = 0 /\ r \notin doubled
      /\ \A v \in Workers : ~ InHand(v, r)
  BY <1>1 DEF HandsFit
<1>3. Settled' = Settled
  BY <1>1, <1>2 DEF Settled, TypeOK, TableOK
<1>4. TableOK'
  BY <1>1, <1>3, DeliveryAssumption DEF TypeOK, TableOK
<1>5. e # 0
  BY DeliveryAssumption
<1> QED BY <1>1, <1>2, <1>4, <1>5 DEF TypeOK, TableOK

-----------------------------------------------------------------------------
(* Types.                                                                  *)

LEMMA Odds == ASSUME TypeOK, Odd PROVE odds' \in Nat
BY DEF Odd, TypeOK

\* A step of a delivery leaves alone what is not the row's or the hand's.
LEMMA DeliverTypes ==
  ASSUME TypeOK, TableOK', NEW w \in Workers,
         held' \in [Workers -> {NoRow} \cup Deliveries],
         UNCHANGED << log, cursor, phase, batch, last, due, missed, doubled, coming, replays >>,
         endpoint' \in {"active", "disabled"}, calls' \in [Rows -> 0 .. MaxRetries + 1],
         torn' \subseteq Rows, refused' \subseteq Rows, unsent' \subseteq Rows, odds' \in Nat
  PROVE  TypeOK'
BY DEF TypeOK

LEMMA LoseItEffect ==
  ASSUME TypeOK, NEW w \in Workers, held[w].row \in Rows, LoseIt(w)
  PROVE  /\ held' \in [Workers -> {NoRow} \cup Deliveries] /\ held'[w] = NoRow
         /\ \A v \in Workers : v # w => held'[v] = held[v]
         /\ UNCHANGED << event, status, number, earlier, unsent >> /\ TableOK'
         /\ torn' = torn \cup {held[w].row} /\ odds' \in Nat
BY DropEffect, Odds DEF LoseIt, table, TypeOK, TableOK, Settled

LEMMA ResolveEffect ==
  ASSUME TypeOK, NEW w \in Workers, Resolve(w)
  PROVE  LET r == held[w].row IN
         /\ TypeOK' /\ r \in Rows /\ held[w] \in Deliveries /\ held[w].step = "resolve"
         /\ event' = event /\ torn \subseteq torn' /\ unsent \subseteq unsent'
         /\ UNCHANGED << log, cursor, phase, batch, last, due, calls, missed, doubled, refused >>
         /\ \A v \in Workers : v # w => held'[v] = held[v]
         /\ \A q \in Rows : q # r => status'[q] = status[q] /\ number'[q] = number[q]
         /\ \/ /\ held'[w].row = r /\ held'[w].number = held[w].number
               /\ held'[w].step = "post" /\ status' = status /\ number' = number
            \/ /\ held'[w] = NoRow
               /\ \/ status' = status /\ number' = number /\ r \in torn'
                  \/ Update(r, "failed", number[r]) /\ r \in unsent'
<1> DEFINE r == held[w].row
<1>1. held[w].step = "resolve" /\ r \in Rows /\ held[w] \in Deliveries
  BY HeldTypes, NoRowIsNone DEF Resolve, Free
<1>2. held[w].number \in 1 .. MaxRetries /\ number[r] \in 0 .. MaxRetries + 1
  BY <1>1 DEF Deliveries, TypeOK, TableOK
<1>3. CASE Hold(w, r, held[w].number, "post") /\ UNCHANGED << table, torn, unsent, odds >>
  <2>1. TableOK' /\ UNCHANGED << event, status, number, earlier >>
    BY <1>3 DEF table, TypeOK, TableOK, Settled
  <2>2. TypeOK'
    BY <1>1, <1>2, <1>3, <2>1, HoldEffect, DeliverTypes DEF Resolve, TypeOK
  <2> QED BY <1>1, <1>2, <1>3, <2>1, <2>2, HoldEffect DEF Resolve
<1>4. CASE LoseIt(w)
  <2>1. TypeOK'
    BY <1>1, <1>4, LoseItEffect, DeliverTypes DEF Resolve, TypeOK
  <2> QED BY <1>1, <1>4, <2>1, LoseItEffect DEF Resolve
<1>5. CASE /\ Update(r, "failed", number[r]) /\ unsent' = unsent \cup {r}
           /\ Drop(w) /\ UNCHANGED torn /\ (UNCHANGED odds \/ Odd)
  <2>1. TypeOK'
    BY <1>1, <1>2, <1>5, DropEffect, UpdateEffect, Odds, DeliverTypes DEF Resolve, TypeOK
  <2> QED BY <1>1, <1>2, <1>5, <2>1, DropEffect, UpdateEffect DEF Resolve
<1> QED BY <1>3, <1>4, <1>5 DEF Resolve, GiveUp

LEMMA PostEffect ==
  ASSUME TypeOK, NEW w \in Workers, Post(w)
  PROVE  LET r == held[w].row IN
         /\ TypeOK' /\ r \in Rows /\ held[w] \in Deliveries /\ held[w].step = "post"
         /\ UNCHANGED << log, cursor, event, status, number, phase, batch, last, due, missed,
                         doubled, torn, refused, unsent >>
         /\ \A v \in Workers : v # w => held'[v] = held[v]
         /\ held'[w].row = r /\ held'[w].number = held[w].number
         /\ held'[w].step \in {"ok", "bad"}
         /\ \A q \in Rows : q # r => calls'[q] = calls[q]
         /\ calls'[r] = IF calls[r] > MaxRetries THEN calls[r] ELSE calls[r] + 1
<1> DEFINE r == held[w].row
<1>1. held[w].step = "post" /\ r \in Rows /\ held[w] \in Deliveries
  BY HeldTypes, NoRowIsNone DEF Post, Free
<1>2. held[w].number \in 1 .. MaxRetries
  BY <1>1 DEF Deliveries
<1>3. PICK answer \in {"ok", "bad"} : Hold(w, r, held[w].number, answer)
  BY DEF Post
<1>4. UNCHANGED << log, cursor, event, status, number, earlier, endpoint, phase, batch, last, due,
                   missed, doubled, torn, refused, unsent, coming, replays, odds >>
  BY DEF Post, table, budget
<1>5. /\ calls' \in [Rows -> 0 .. MaxRetries + 1]
      /\ \A q \in Rows : q # r => calls'[q] = calls[q]
      /\ calls'[r] = IF calls[r] > MaxRetries THEN calls[r] ELSE calls[r] + 1
  <2>1. calls \in [Rows -> 0 .. MaxRetries + 1] /\ MaxRetries \in Nat
    BY DeliveryAssumption DEF TypeOK
  <2>2. calls[r] \in 0 .. MaxRetries + 1
    BY <1>1, <2>1
  <2>3. (IF calls[r] > MaxRetries THEN calls[r] ELSE calls[r] + 1) \in 0 .. MaxRetries + 1
    BY <2>1, <2>2
  <2>4. calls' = [calls EXCEPT ![r] = IF calls[r] > MaxRetries THEN calls[r] ELSE calls[r] + 1]
    BY DEF Post
  <2> HIDE DEF r
  <2> QED BY <1>1, <2>1, <2>3, <2>4
<1>6. /\ held' \in [Workers -> {NoRow} \cup Deliveries]
      /\ held'[w].row = r /\ held'[w].number = held[w].number /\ held'[w].step = answer
      /\ \A v \in Workers : v # w => held'[v] = held[v]
  BY <1>1, <1>2, <1>3, HoldEffect
<1>7. TableOK'
  BY <1>4 DEF TypeOK, TableOK, Settled
<1>8. TypeOK'
  BY <1>4, <1>5, <1>6, <1>7, DeliverTypes DEF TypeOK
<1> QED BY <1>1, <1>4, <1>5, <1>6, <1>8

\* The outcome is written, lost, or refused.
LEMMA RecordEffect ==
  ASSUME TypeOK, NEW w \in Workers, Record(w)
  PROVE  LET r == held[w].row  n == held[w].number IN
         /\ TypeOK' /\ r \in Rows /\ held[w] \in Deliveries /\ Answered(w)
         /\ event' = event
         /\ UNCHANGED << log, cursor, phase, batch, last, due, calls, missed, doubled, unsent >>
         /\ torn \subseteq torn' /\ refused \subseteq refused'
         /\ \A v \in Workers : v # w => held'[v] = held[v]
         /\ \A q \in Rows : q # r => status'[q] = status[q] /\ number'[q] = number[q]
         /\ \/ /\ held'[w] = NoRow /\ r \in torn' \cup refused'
               /\ status' = status /\ number' = number
            \/ /\ held'[w] = NoRow /\ Update(r, "success", n)
               /\ status'[r] = "success" /\ number'[r] = n
            \/ /\ held'[w] = NoRow /\ n < MaxRetries /\ Update(r, "retrying", n + 1)
               /\ status'[r] = "retrying" /\ number'[r] = n + 1
            \/ /\ held'[w].row = r /\ held'[w].number = n /\ held'[w].step = "count"
               /\ n >= MaxRetries /\ Update(r, "failed", n + 1)
               /\ status'[r] = "failed" /\ number'[r] = n + 1
<1> DEFINE r == held[w].row
           n == held[w].number
<1>1. Answered(w) /\ r \in Rows /\ held[w] \in Deliveries
  BY HeldTypes, NoRowIsNone DEF Record, Free, Answered
<1>2. n \in 1 .. MaxRetries /\ n \in 0 .. MaxRetries + 1 /\ n + 1 \in 0 .. MaxRetries + 1
      /\ MaxRetries \in Nat
  BY <1>1, DeliveryAssumption DEF Deliveries
<1>3. UNCHANGED << log, cursor, endpoint, phase, batch, last, due, calls, missed, doubled, coming,
                   replays >>
  BY DEF Record
<1>4. CASE Succeed(w, r, n) /\ UNCHANGED << torn, unsent, odds >>
  <2>1. TypeOK'
    BY <1>1, <1>2, <1>3, <1>4, UpdateEffect, DropEffect, DeliverTypes DEF Succeed, TypeOK
  <2> QED BY <1>1, <1>2, <1>3, <1>4, <2>1, UpdateEffect, DropEffect DEF Succeed
<1>5. CASE Miss(w, r, n) /\ UNCHANGED << torn, unsent, odds >>
  <2>1. Again(n) <=> n < MaxRetries
    BY DEF Again
  <2>2. CASE Again(n)
    <3>1. /\ Update(r, "retrying", n + 1) /\ Drop(w)
          /\ refused' = IF Taken(event[r], n + 1, r) THEN refused \cup {r} ELSE refused
      BY <1>5, <2>2 DEF Miss
    <3>2. TypeOK'
      BY <1>1, <1>2, <1>3, <1>5, <3>1, UpdateEffect, DropEffect, DeliverTypes DEF TypeOK
    <3> QED BY <1>1, <1>2, <1>3, <1>5, <2>1, <2>2, <3>1, <3>2, UpdateEffect, DropEffect
  <2>3. CASE ~ Again(n)
    <3>1. /\ Update(r, "failed", n + 1)
          /\ refused' = IF Taken(event[r], n + 1, r) THEN refused \cup {r} ELSE refused
          /\ IF Taken(event[r], n + 1, r) THEN Drop(w) ELSE Hold(w, r, n, "count")
      BY <1>5, <2>3 DEF Miss
    <3>2. /\ TableOK' /\ event' = event
          /\ \A q \in Rows : q # r => status'[q] = status[q] /\ number'[q] = number[q]
          /\ IF Taken(event[r], n + 1, r)
               THEN status' = status /\ number' = number
               ELSE status'[r] = "failed" /\ number'[r] = n + 1
      BY <1>1, <1>2, <3>1, UpdateEffect
    <3>3. CASE Taken(event[r], n + 1, r)
      <4>1. TypeOK'
        BY <1>1, <1>3, <1>5, <3>1, <3>2, <3>3, DropEffect, DeliverTypes DEF TypeOK
      <4> QED BY <1>1, <1>3, <1>5, <3>1, <3>2, <3>3, <4>1, DropEffect
    <3>4. CASE ~ Taken(event[r], n + 1, r)
      <4>1. TypeOK'
        BY <1>1, <1>2, <1>3, <1>5, <3>1, <3>2, <3>4, HoldEffect, DeliverTypes DEF TypeOK
      <4> QED BY <1>1, <1>2, <1>3, <1>5, <2>1, <2>3, <3>1, <3>2, <3>4, <4>1, HoldEffect
    <3> QED BY <3>3, <3>4
  <2> QED BY <2>2, <2>3
<1>6. CASE LoseIt(w) /\ UNCHANGED refused
  <2>1. TypeOK'
    BY <1>1, <1>3, <1>6, LoseItEffect, DeliverTypes DEF TypeOK
  <2> QED BY <1>1, <1>3, <1>6, <2>1, LoseItEffect
<1> QED BY <1>4, <1>5, <1>6 DEF Record

\* The streak is counted when the row has been given up.
LEMMA CountEffect ==
  ASSUME TypeOK, NEW w \in Workers, Count(w) \/ AutoDisable(w)
  PROVE  LET r == held[w].row IN
         /\ TypeOK' /\ r \in Rows /\ held[w].step \in {"count", "disable"}
         /\ UNCHANGED << log, cursor, event, status, number, phase, batch, last, due, calls, missed,
                         doubled, torn, refused, unsent >>
         /\ \A v \in Workers : v # w => held'[v] = held[v]
         /\ \/ held'[w] = NoRow
            \/ /\ held'[w].row = r /\ held'[w].number = held[w].number
               /\ held'[w].step = "disable"
<1> DEFINE r == held[w].row
           n == held[w].number
<1>1. held[w].step \in {"count", "disable"} /\ r \in Rows /\ held[w] \in Deliveries
  BY HeldTypes, NoRowIsNone DEF Count, AutoDisable, Free
<1>2. n \in 1 .. MaxRetries
  BY <1>1 DEF Deliveries
<1>3. /\ UNCHANGED << log, cursor, event, status, number, earlier, phase, batch, last, due, calls,
                      missed, doubled, torn, refused, unsent, coming, replays >>
      /\ endpoint' \in {"active", "disabled"} /\ odds' \in Nat
  BY Odds DEF Count, AutoDisable, table, ghosts, budget, TypeOK
<1>4. TableOK'
  BY <1>3 DEF TypeOK, TableOK, Settled
<1>5. CASE Drop(w)
  <2>1. TypeOK'
    BY <1>3, <1>4, <1>5, DropEffect, DeliverTypes DEF TypeOK
  <2> QED BY <1>1, <1>3, <1>5, <2>1, DropEffect
<1>6. CASE Hold(w, r, n, "disable")
  <2>1. TypeOK'
    BY <1>1, <1>2, <1>3, <1>4, <1>6, HoldEffect, DeliverTypes DEF TypeOK
  <2> QED BY <1>1, <1>2, <1>3, <1>6, <2>1, HoldEffect
<1> QED BY <1>5, <1>6 DEF Count, AutoDisable

LEMMA TableStays == ASSUME TypeOK, UNCHANGED table PROVE TableOK'
BY DEF table, TypeOK, TableOK, Settled

LEMMA PublishTypes == ASSUME TypeOK, NEW e \in Events, Publish(e) PROVE TypeOK'
<1>1. TableOK'
  BY TableStays DEF Publish
<1> QED BY <1>1 DEF Publish, TypeOK, local

LEMMA BeginTypes == ASSUME TypeOK, NEW t \in Ticks, Begin(t) PROVE TypeOK'
<1>1. TableOK' /\ odds' \in Nat /\ t \in Workers
  BY TableStays, Odds DEF Begin, TypeOK, Workers
<1> QED BY <1>1 DEF Begin, Goto, TypeOK, ghosts

\* The next event gets its row, has one, or is remembered as missed.
LEMMA DispatchEffect ==
  ASSUME TypeOK, HandsFit, NEW t \in Ticks, Dispatch(t)
  PROVE  \E e \in batch[t] :
           /\ TypeOK' /\ \A f \in batch[t] : e <= f
           /\ batch' = [batch EXCEPT ![t] = @ \ {e}]
           /\ last' \in {last, [last EXCEPT ![t] = e]} /\ missed \subseteq missed'
           /\ UNCHANGED << log, cursor, phase, due, calls, doubled, torn, refused, unsent >>
           /\ \/ Create(t, e)
              \/ UNCHANGED << event, status, number, held >> /\ (e \in missed' \/ Taken(e, 1, 0))
<1>1. PICK e \in batch[t] :
        /\ \A f \in batch[t] : e <= f
        /\ batch' = [batch EXCEPT ![t] = @ \ {e}]
        /\ DispatchNext(t, e) \/ DispatchFails(t, e)
  BY DEF Dispatch
<1>2. t \in Workers /\ e \in Events
  BY DEF Workers, TypeOK
<1>3. UNCHANGED << log, cursor, endpoint, phase, due, calls, doubled, torn, refused,
                   unsent, coming, replays >>
  BY DEF Dispatch
<1>4. /\ last' \in {last, [last EXCEPT ![t] = e]} /\ missed \subseteq missed'
      /\ missed' \subseteq missed \cup {e} /\ odds' \in Nat
  BY <1>1, Odds DEF DispatchNext, DispatchFails, TypeOK
<1>5. \/ Create(t, e)
      \/ UNCHANGED << table, held >> /\ (e \in missed' \/ Taken(e, 1, 0))
  BY <1>1 DEF DispatchNext, DispatchFails
<1>6. TableOK' /\ held' \in [Workers -> {NoRow} \cup Deliveries]
  <2>1. CASE Create(t, e)
    <3> PICK r \in Rows : TableOK' /\ Hold(t, r, 1, "resolve")
      BY <1>2, <2>1, CreateEffect
    <3>1. 1 \in 1 .. MaxRetries
      BY DeliveryAssumption
    <3> QED BY <1>2, <3>1, HoldEffect
  <2>2. CASE UNCHANGED << table, held >>
    BY <2>2, TableStays DEF TypeOK
  <2> QED BY <1>5, <2>1, <2>2
<1>7. TypeOK'
  BY <1>1, <1>2, <1>3, <1>4, <1>6 DEF TypeOK
<1> QED BY <1>1, <1>3, <1>4, <1>5, <1>7 DEF table

LEMMA AdvanceTypes == ASSUME TypeOK, NEW t \in Ticks, Advance(t) PROVE TypeOK'
<1>1. TableOK' /\ odds' \in Nat /\ t \in Workers /\ cursor' \in Events \cup {0}
  BY TableStays, Odds DEF Advance, TypeOK, Workers
<1> QED BY <1>1 DEF Advance, Goto, TypeOK, ghosts

\* The due rows are listed with the numbers they have.
LEMMA ListEffect ==
  ASSUME TypeOK, HandsFit, NEW t \in Ticks, List(t)
  PROVE  LET rows == { r \in Rows : status[r] = "retrying" } IN
         /\ TypeOK' /\ phase[t] = "list" /\ phase'[t] \in {"idle", "retry"}
         /\ \A w \in Workers : w # t => phase'[w] = phase[w]
         /\ UNCHANGED << log, cursor, event, status, number, batch, last, held, calls, missed,
                         torn, refused, unsent >>
         /\ \/ due' = due /\ doubled' = doubled /\ phase'[t] = "idle"
            \/ /\ due' = [due EXCEPT ![t] = { << r, number[r] >> : r \in rows }]
               /\ doubled' = doubled \cup { r \in rows : \E w \in Workers \ {t} : InHand(w, r) }
               /\ phase'[t] = "retry"
<1> DEFINE rows == { r \in Rows : status[r] = "retrying" }
<1>1. t \in Workers /\ UNCHANGED table /\ TableOK' /\ odds' \in Nat
  BY TableStays, Odds DEF List, TypeOK, Workers
<1>2. { << r, number[r] >> : r \in rows } \subseteq Rows \X (1 .. MaxRetries)
  <2>1. \A r \in rows : number[r] \in 1 .. MaxRetries
    BY DEF HandsFit
  <2> QED BY <2>1
<1>3. /\ doubled' \subseteq Rows /\ due' \in [Workers -> SUBSET (Rows \X (1 .. MaxRetries))]
  BY <1>2 DEF List, TypeOK
<1>4. TypeOK'
  BY <1>1, <1>3 DEF List, Goto, TypeOK
<1> QED BY <1>1, <1>4 DEF List, Goto, TypeOK, table

\* A due row is taken in hand with the number it had when it was listed.
LEMMA RetryEffect ==
  ASSUME TypeOK, NEW t \in Ticks, Retry(t)
  PROVE  /\ TypeOK' /\ phase[t] = "retry" /\ held[t] = NoRow
         /\ \A w \in Workers : w # t => phase'[w] = phase[w] /\ held'[w] = held[w]
         /\ UNCHANGED << log, cursor, event, status, number, batch, last, calls, missed,
                         doubled, torn, refused, unsent >>
         /\ \/ \E p \in due[t] : /\ held'[t].row = p[1] /\ held'[t].number = p[2]
                                 /\ held'[t].step = "resolve" /\ p[1] \in Rows
                                 /\ due' = [due EXCEPT ![t] = @ \ {p}] /\ phase' = phase
            \/ due[t] = {} /\ phase'[t] = "idle" /\ UNCHANGED << held, due >>
<1>1. t \in Workers /\ UNCHANGED table /\ TableOK' /\ Free(t)
  BY TableStays DEF Retry, TypeOK, Workers
<1>2. held[t] = NoRow
  BY <1>1, HeldTypes
<1>3. ASSUME NEW p \in due[t], Hold(t, p[1], p[2], "resolve"),
             due' = [due EXCEPT ![t] = @ \ {p}], UNCHANGED phase
      PROVE  /\ TypeOK' /\ held'[t].row = p[1] /\ held'[t].number = p[2]
             /\ held'[t].step = "resolve" /\ p[1] \in Rows
             /\ \A w \in Workers : w # t => held'[w] = held[w]
  <2>1. p[1] \in Rows /\ p[2] \in 1 .. MaxRetries
    BY <1>1 DEF TypeOK
  <2>2. /\ held' \in [Workers -> {NoRow} \cup Deliveries]
        /\ held'[t].row = p[1] /\ held'[t].number = p[2] /\ held'[t].step = "resolve"
        /\ \A w \in Workers : w # t => held'[w] = held[w]
    BY <1>1, <1>3, <2>1, HoldEffect
  <2>3. TypeOK'
    BY <1>1, <1>3, <2>2 DEF Retry, TypeOK, ghosts, budget
  <2> QED BY <2>1, <2>2, <2>3
<1>4. ASSUME Goto(t, "idle"), UNCHANGED << held, due >>
      PROVE  /\ TypeOK' /\ phase'[t] = "idle" /\ \A w \in Workers : w # t => phase'[w] = phase[w]
  BY <1>1, <1>4 DEF Retry, Goto, TypeOK, ghosts, budget
<1>5. UNCHANGED << log, cursor, event, status, number, batch, last, calls, missed,
                   doubled, torn, refused, unsent >> /\ phase[t] = "retry"
  BY DEF Retry, table, ghosts
<1> QED BY <1>2, <1>3, <1>4, <1>5 DEF Retry

LEMMA ReplayTypes ==
  ASSUME TypeOK, HandsFit, NEW u \in Users, NEW r \in Rows, Replay(u, r)
  PROVE  TypeOK' /\ event[r] \in Events /\ Create(u, event[r])
<1>1. u \in Workers /\ event[r] \in Events /\ Create(u, event[r])
  BY DEF Replay, Workers, TypeOK, TableOK
<1>2. TableOK' /\ held' \in [Workers -> {NoRow} \cup Deliveries]
  <2> PICK q \in Rows : TableOK' /\ Hold(u, q, 1, "resolve")
    BY <1>1, CreateEffect
  <2>1. 1 \in 1 .. MaxRetries
    BY DeliveryAssumption
  <2> QED BY <1>1, <2>1, HoldEffect
<1>3. /\ UNCHANGED << log, cursor, endpoint, batch, last, due, calls, missed, doubled, torn,
                      refused, unsent, coming, odds >>
      /\ phase' = [phase EXCEPT ![u] = "replay"] /\ replays' = replays - 1 /\ replays > 0
  BY DEF Replay, Goto, ghosts
<1>4. phase' \in [Workers -> {"idle", "dispatch", "list", "retry", "replay"}] /\ replays' \in Nat
  <2>1. replays \in Nat
    BY DEF TypeOK
  <2>2. phase \in [Workers -> {"idle", "dispatch", "list", "retry", "replay"}]
    BY DEF TypeOK
  <2>3. replays' \in Nat
    BY <1>3, <2>1
  <2> QED BY <1>3, <2>2, <2>3
<1>5. TypeOK'
  BY <1>2, <1>3, <1>4 DEF TypeOK
<1> QED BY <1>1, <1>5

LEMMA AnswerTypes ==
  ASSUME TypeOK, NEW u \in Users, Answer(u)
  PROVE  /\ TypeOK' /\ Free(u) /\ phase[u] = "replay" /\ phase'[u] = "idle"
         /\ \A w \in Workers : w # u => phase'[w] = phase[w]
<1>1. u \in Workers /\ TableOK'
  BY TableStays DEF Answer, Workers
<1> QED BY <1>1 DEF Answer, Goto, TypeOK, ghosts, budget

LEMMA SwitchTypes == ASSUME TypeOK, Switch PROVE TypeOK'
<1>1. TableOK' /\ odds' \in Nat
  BY TableStays, Odds DEF Switch
<1> QED BY <1>1 DEF Switch, TypeOK, local, ghosts

LEMMA DiesEffect ==
  ASSUME TypeOK, NEW w \in Workers, Dies(w)
  PROVE  /\ TypeOK' /\ held'[w] = NoRow /\ phase'[w] = "idle" /\ due'[w] = {}
         /\ batch'[w] = {} /\ last'[w] = 0
         /\ \A v \in Workers : v # w => /\ held'[v] = held[v] /\ phase'[v] = phase[v]
                                        /\ due'[v] = due[v] /\ batch'[v] = batch[v]
                                        /\ last'[v] = last[v]
         /\ UNCHANGED << log, cursor, event, status, number, calls, missed, doubled, refused, unsent >>
         /\ torn \subseteq torn' /\ (held[w].row # 0 => held[w].row \in torn')
<1>1. TableOK' /\ odds' \in Nat
  BY TableStays, Odds DEF Dies
<1>2. /\ held' \in [Workers -> {NoRow} \cup Deliveries] /\ held'[w] = NoRow
      /\ \A v \in Workers : v # w => held'[v] = held[v]
  BY DropEffect DEF Dies
<1>3. torn' \subseteq Rows /\ torn \subseteq torn' /\ (held[w].row # 0 => held[w].row \in torn')
  BY HeldTypes DEF Dies, TypeOK
<1>4. TypeOK'
  BY <1>1, <1>2, <1>3 DEF Dies, Goto, TypeOK
<1> QED BY <1>2, <1>3, <1>4 DEF Dies, Goto, TypeOK, table

-----------------------------------------------------------------------------
(* A row is in one hand.                                                   *)

Hands == HandsFit /\ NumbersAreTaken /\ HandsAreApart

\* What a hand that is not counting shows of its row.
Shows(w, r) ==
  IF held[w].step \in {"count", "disable"}
    THEN status[r] = "failed"
    ELSE status[r] \in {"pending", "retrying"} /\ held[w].number = number[r]

\* A step of the delivery of w: only its row and its hand change.
LEMMA DeliverHands ==
  ASSUME TypeOK, TypeOK', Hands, NEW w \in Workers, NEW r \in Rows, held[w].row = r,
         UNCHANGED << event, phase, due, doubled >>,
         \A v \in Workers : v # w => held'[v] = held[v],
         \A q \in Rows : q # r =>
           status'[q] = status[q] /\ number'[q] = number[q] /\ calls'[q] = calls[q],
         \/ status'[r] = status[r] /\ number'[r] = number[r]
         \/ /\ ~ Taken(event[r], number'[r], r)
            /\ status'[r] \in {"success", "failed", "retrying"}
            /\ status'[r] = "retrying" => number'[r] \in 1 .. MaxRetries,
         held'[w].row \in {0, r},
         held'[w].row = r /\ r \notin doubled => Shows(w, r)'
  PROVE  Hands'
<1>1. InHand(w, r) /\ held[w].row # 0 /\ ~ Free(w) /\ event[r] # 0
  BY HeldTypes, NoRowIsNone DEF InHand, Hands, HandsFit
<1>2. \A v \in Workers, q \in Rows : InHand(v, q)' => InHand(v, q)
  BY NoRowIsNone DEF InHand
<1>3. HandsFit'
  <2>1. \A v \in Workers : phase'[v] \in {"idle", "list"} => Free(v)'
    BY <1>1 DEF Hands, HandsFit, Free
  <2>2. \A q \in Rows : event'[q] = 0 => q # r
    BY <1>1
  <2>3. \A q \in Rows : event'[q] = 0 =>
          /\ status'[q] = "none" /\ number'[q] = 0 /\ calls'[q] = 0 /\ q \notin doubled'
          /\ \A v \in Workers : ~ InHand(v, q)'
    BY <1>2, <2>2 DEF Hands, HandsFit
  <2>4. \A q \in Rows : status'[q] \in {"pending", "retrying"} => number'[q] \in 1 .. MaxRetries
    BY DEF Hands, HandsFit
  <2> QED BY <2>1, <2>3, <2>4 DEF Hands, HandsFit
<1>4. NumbersAreTaken'
  <2>1. \A q \in Rows : q # r /\ event[q] = event[r] => number'[q] # number'[r]
    BY <1>1 DEF Hands, NumbersAreTaken, Taken
  <2> QED BY <2>1 DEF Hands, NumbersAreTaken
<1>5. HandsAreApart'
  <2> SUFFICES ASSUME NEW q \in Rows \ doubled
               PROVE  /\ \A u, v \in Workers : InHand(u, q)' /\ InHand(v, q)' => u = v
                      /\ \A v \in Workers :
                           /\ held'[v].row = q =>
                                (\A p \in due'[v] : p[1] # q) /\ Shows(v, q)'
                           /\ \A p \in due'[v] : p[1] = q =>
                                status'[q] = "retrying" /\ p[2] = number'[q]
    BY DEF HandsAreApart, Shows
  <2>0. /\ \A u, v \in Workers : InHand(u, q) /\ InHand(v, q) => u = v
        /\ \A v \in Workers :
             /\ held[v].row = q => (\A p \in due[v] : p[1] # q) /\ Shows(v, q)
             /\ \A p \in due[v] : p[1] = q => status[q] = "retrying" /\ p[2] = number[q]
    BY DEF Hands, HandsAreApart, Shows
  <2>1. \A u, v \in Workers : InHand(u, q)' /\ InHand(v, q)' => u = v
    BY <1>2, <2>0
  <2>2. CASE q = r
    <3>1. \A v \in Workers : v # w => ~ InHand(v, q)
      BY <1>1, <2>0, <2>2
    <3>2. \A v \in Workers : \A p \in due[v] : p[1] # q
      BY <2>0, <2>2, <3>1 DEF InHand
    <3> QED BY <2>1, <2>2, <3>1, <3>2 DEF InHand
  <2>3. CASE q # r
    <3>1. \A v \in Workers : held'[v].row = q => v # w /\ held'[v] = held[v]
      BY <2>3, NoRowIsNone
    <3> QED BY <2>0, <2>1, <2>3, <3>1 DEF Shows
  <2> QED BY <2>2, <2>3
<1> QED BY <1>3, <1>4, <1>5 DEF Hands

LEMMA ApartShows ==
  ASSUME Hands, NEW w \in Workers, NEW r \in Rows, held[w].row = r, r \notin doubled
  PROVE  Shows(w, r)
BY DEF Hands, HandsAreApart, Shows

LEMMA ResolveHands ==
  ASSUME TypeOK, Hands, NEW w \in Workers, Resolve(w)
  PROVE  Hands'
<1> DEFINE r == held[w].row
<1>1. r \in Rows /\ TypeOK' /\ event[r] # 0
  <2>1. r \in Rows /\ TypeOK'
    BY ResolveEffect
  <2> QED BY <2>1 DEF Hands, HandsFit, InHand
<1>2. /\ UNCHANGED << event, phase, due, doubled, calls >> /\ held[w].step = "resolve"
      /\ \A v \in Workers : v # w => held'[v] = held[v]
      /\ \A q \in Rows : q # r => status'[q] = status[q] /\ number'[q] = number[q]
      /\ \/ /\ held'[w].row = r /\ held'[w].number = held[w].number
            /\ held'[w].step = "post" /\ status' = status /\ number' = number
         \/ /\ held'[w] = NoRow
            /\ \/ status' = status /\ number' = number
               \/ Update(r, "failed", number[r])
  BY ResolveEffect
<1>3. r \notin doubled => Shows(w, r)
  BY <1>1, ApartShows
<1>4. CASE held'[w] = NoRow /\ Update(r, "failed", number[r])
  <2>1. ~ Taken(event[r], number[r], r)
    BY <1>1 DEF Taken, Hands, NumbersAreTaken
  <2>2. number[r] \in 0 .. MaxRetries + 1
    BY <1>1 DEF TypeOK, TableOK
  <2>3. status'[r] = "failed" /\ number'[r] = number[r]
    BY <1>1, <1>4, <2>1, <2>2, UpdateEffect
  <2> QED BY <1>1, <1>2, <1>4, <2>1, <2>3, NoRowIsNone, DeliverHands
<1>5. CASE held'[w] = NoRow /\ status' = status /\ number' = number
  BY <1>1, <1>2, <1>5, NoRowIsNone, DeliverHands
<1>6. CASE /\ held'[w].row = r /\ held'[w].number = held[w].number
           /\ held'[w].step = "post" /\ status' = status /\ number' = number
  <2>1. r \notin doubled => Shows(w, r)'
    BY <1>2, <1>3, <1>6 DEF Shows
  <2> QED BY <1>1, <1>2, <1>6, <2>1, DeliverHands
<1> QED BY <1>2, <1>4, <1>5, <1>6

LEMMA PostHands ==
  ASSUME TypeOK, Hands, NEW w \in Workers, Post(w)
  PROVE  Hands'
<1> DEFINE r == held[w].row
<1>1. /\ r \in Rows /\ TypeOK' /\ UNCHANGED << event, phase, due, doubled, status, number >>
      /\ held[w].step = "post" /\ \A v \in Workers : v # w => held'[v] = held[v]
      /\ \A q \in Rows : q # r => calls'[q] = calls[q]
      /\ held'[w].row = r /\ held'[w].number = held[w].number /\ held'[w].step \in {"ok", "bad"}
  BY PostEffect
<1>2. r \notin doubled => Shows(w, r)'
  BY <1>1, ApartShows DEF Shows
<1> QED BY <1>1, <1>2, DeliverHands

LEMMA CountHands ==
  ASSUME TypeOK, Hands, NEW w \in Workers, Count(w) \/ AutoDisable(w)
  PROVE  Hands'
<1> DEFINE r == held[w].row
<1>1. /\ r \in Rows /\ TypeOK' /\ held[w].step \in {"count", "disable"}
      /\ UNCHANGED << event, phase, due, doubled, status, number, calls >>
      /\ \A v \in Workers : v # w => held'[v] = held[v]
      /\ \/ held'[w] = NoRow
         \/ /\ held'[w].row = r /\ held'[w].number = held[w].number
            /\ held'[w].step = "disable"
  BY CountEffect
<1>2. held'[w].row = r /\ r \notin doubled => Shows(w, r)'
  BY <1>1, ApartShows, NoRowIsNone DEF Shows
<1> QED BY <1>1, <1>2, NoRowIsNone, DeliverHands

LEMMA RecordHands ==
  ASSUME TypeOK, Hands, NEW w \in Workers, Record(w)
  PROVE  Hands'
<1> DEFINE r == held[w].row
           n == held[w].number
<1>1. /\ r \in Rows /\ TypeOK' /\ Answered(w) /\ held[w] \in Deliveries
      /\ UNCHANGED << event, phase, due, doubled, calls >>
      /\ \A v \in Workers : v # w => held'[v] = held[v]
      /\ \A q \in Rows : q # r => status'[q] = status[q] /\ number'[q] = number[q]
  BY RecordEffect
<1>2. n \in 1 .. MaxRetries /\ MaxRetries \in Nat
  BY <1>1, DeliveryAssumption DEF Deliveries
<1>3. \/ held'[w] = NoRow /\ status' = status /\ number' = number
      \/ /\ held'[w] = NoRow /\ Update(r, "success", n)
         /\ status'[r] = "success" /\ number'[r] = n
      \/ /\ held'[w] = NoRow /\ n < MaxRetries /\ Update(r, "retrying", n + 1)
         /\ status'[r] = "retrying" /\ number'[r] = n + 1
      \/ /\ held'[w].row = r /\ held'[w].step = "count" /\ Update(r, "failed", n + 1)
         /\ status'[r] = "failed" /\ number'[r] = n + 1
  BY RecordEffect
<1>4. CASE held'[w] = NoRow /\ status' = status /\ number' = number
  BY <1>1, <1>4, NoRowIsNone, DeliverHands
<1>5. ASSUME NEW s \in {"success", "retrying", "failed"}, NEW m \in 1 .. MaxRetries + 1,
             Update(r, s, m), status'[r] = s, number'[r] = m,
             s = "retrying" => m \in 1 .. MaxRetries,
             held'[w].row \in {0, r},
             held'[w].row = r => held'[w].step = "count" /\ s = "failed"
      PROVE  Hands'
  <2>1. held'[w].row = r /\ r \notin doubled => Shows(w, r)'
    BY <1>5 DEF Shows
  <2>2. (status'[r] = status[r] /\ number'[r] = number[r]) \/ ~ Taken(event[r], m, r)
    <3>1. m \in 0 .. MaxRetries + 1
      BY <1>2
    <3> QED BY <1>1, <1>5, <3>1, UpdateEffect
  <2> QED BY <1>1, <1>5, <2>1, <2>2, DeliverHands
<1>6. /\ n \in 1 .. MaxRetries + 1 /\ n + 1 \in 1 .. MaxRetries + 1
      /\ n < MaxRetries => n + 1 \in 1 .. MaxRetries
  BY <1>2
<1>7. CASE /\ held'[w] = NoRow /\ Update(r, "success", n)
           /\ status'[r] = "success" /\ number'[r] = n
  BY <1>1, <1>5, <1>6, <1>7, NoRowIsNone
<1>8. CASE /\ held'[w] = NoRow /\ n < MaxRetries /\ Update(r, "retrying", n + 1)
           /\ status'[r] = "retrying" /\ number'[r] = n + 1
  BY <1>1, <1>5, <1>6, <1>8, NoRowIsNone
<1>9. CASE /\ held'[w].row = r /\ held'[w].step = "count" /\ Update(r, "failed", n + 1)
           /\ status'[r] = "failed" /\ number'[r] = n + 1
  BY <1>1, <1>5, <1>6, <1>9
<1> QED BY <1>3, <1>4, <1>7, <1>8, <1>9

\* A new row is in its maker's hand, and in nobody else's.
LEMMA CreateHands ==
  ASSUME TypeOK, TypeOK', Hands, NEW w \in Workers, NEW e \in Events, Create(w, e), Free(w),
         phase[w] # "list", due[w] = {}, UNCHANGED << due, calls, doubled >>,
         phase'[w] \in {"dispatch", "replay"}, phase'[w] = "dispatch" => w \in Ticks,
         \A v \in Workers : v # w => phase'[v] = phase[v],
         ~ Taken(e, 1, 0)
  PROVE  Hands'
<1> PICK r \in Rows :
      /\ event[r] = 0 /\ event'[r] = e /\ e # 0
      /\ status[r] = "none" /\ status'[r] = "pending"
      /\ number[r] = 0 /\ number'[r] = 1 /\ calls[r] = 0 /\ r \notin doubled
      /\ \A v \in Workers : ~ InHand(v, r)
      /\ \A q \in Rows : q # r => /\ event'[q] = event[q] /\ status'[q] = status[q]
                                  /\ number'[q] = number[q]
      /\ Hold(w, r, 1, "resolve")
  BY CreateEffect DEF Hands
<1>1. 1 \in 1 .. MaxRetries
  BY DeliveryAssumption
<1>2. /\ held'[w].row = r /\ held'[w].number = 1 /\ held'[w].step = "resolve"
      /\ \A v \in Workers : v # w => held'[v] = held[v]
  BY <1>1, HoldEffect
<1>3. \A v \in Workers, q \in Rows : q # r => (InHand(v, q)' => InHand(v, q))
  BY <1>2 DEF InHand
<1>4. \A v \in Workers : v # w => ~ InHand(v, r)'
  BY <1>2 DEF InHand
<1>5. HandsFit'
  <2>1. \A v \in Workers : /\ phase'[v] \in {"idle", "list"} => Free(v)'
                           /\ phase'[v] # "retry" => due'[v] = {}
                           /\ phase'[v] \in {"dispatch", "list", "retry"} => v \in Ticks
    BY <1>2 DEF Hands, HandsFit, Free
  <2>2. \A q \in Rows : event'[q] = 0 =>
          /\ status'[q] = "none" /\ number'[q] = 0 /\ calls'[q] = 0 /\ q \notin doubled'
          /\ \A v \in Workers : ~ InHand(v, q)'
    BY <1>3 DEF Hands, HandsFit
  <2>3. \A q \in Rows : status'[q] \in {"pending", "retrying"} => number'[q] \in 1 .. MaxRetries
    BY <1>1 DEF Hands, HandsFit
  <2> QED BY <2>1, <2>2, <2>3 DEF HandsFit
<1>6. NumbersAreTaken'
  <2>1. \A q \in Rows : q # r /\ event'[q] = e => number'[q] # 1
    BY NoRowIsNone DEF Taken
  <2> QED BY <2>1 DEF Hands, NumbersAreTaken
<1>7. HandsAreApart'
  <2> SUFFICES ASSUME NEW q \in Rows \ doubled
               PROVE  /\ \A u, v \in Workers : InHand(u, q)' /\ InHand(v, q)' => u = v
                      /\ \A v \in Workers :
                           /\ held'[v].row = q =>
                                (\A p \in due'[v] : p[1] # q) /\ Shows(v, q)'
                           /\ \A p \in due'[v] : p[1] = q =>
                                status'[q] = "retrying" /\ p[2] = number'[q]
    BY DEF HandsAreApart, Shows
  <2>0. /\ \A u, v \in Workers : InHand(u, q) /\ InHand(v, q) => u = v
        /\ \A v \in Workers :
             /\ held[v].row = q => (\A p \in due[v] : p[1] # q) /\ Shows(v, q)
             /\ \A p \in due[v] : p[1] = q => status[q] = "retrying" /\ p[2] = number[q]
    BY DEF Hands, HandsAreApart, Shows
  <2>1. CASE q # r
    <3>1. \A u, v \in Workers : InHand(u, q)' /\ InHand(v, q)' => u = v
      BY <1>3, <2>0, <2>1
    <3>2. \A v \in Workers : held'[v].row = q => v # w /\ held'[v] = held[v]
      BY <1>2, <2>1
    <3> QED BY <2>0, <2>1, <3>1, <3>2 DEF Shows
  <2>2. CASE q = r
    <3>1. \A u, v \in Workers : InHand(u, q)' /\ InHand(v, q)' => u = v
      BY <1>4, <2>2
    <3>2. \A v \in Workers : \A p \in due'[v] : p[1] # r
      BY DEF InHand
    <3>3. \A v \in Workers : held'[v].row = r => v = w
      BY <1>4 DEF InHand
    <3>4. Shows(w, r)'
      BY <1>2 DEF Shows
    <3> QED BY <2>2, <3>1, <3>2, <3>3, <3>4
  <2> QED BY <2>1, <2>2
<1> QED BY <1>5, <1>6, <1>7 DEF Hands

\* Steps by which hands only let go.
LEMMA LetGo ==
  ASSUME TypeOK, Hands, UNCHANGED << event, status, number, calls, doubled >>,
         \A v \in Workers : /\ held'[v] \in {held[v], NoRow}
                            /\ due'[v] \in {due[v], {}}
                            /\ phase'[v] \in {"idle", "list"} => Free(v)'
                            /\ phase'[v] # "retry" => due'[v] = {}
                            /\ phase'[v] \in {"dispatch", "list", "retry"} => v \in Ticks
  PROVE  Hands'
<1>1. \A v \in Workers, q \in Rows : InHand(v, q)' => InHand(v, q)
  BY NoRowIsNone DEF InHand
<1>2. HandsFit'
  BY <1>1 DEF Hands, HandsFit
<1>3. NumbersAreTaken'
  BY DEF Hands, NumbersAreTaken
<1>4. HandsAreApart'
  <2> SUFFICES ASSUME NEW q \in Rows \ doubled
               PROVE  /\ \A u, v \in Workers : InHand(u, q)' /\ InHand(v, q)' => u = v
                      /\ \A v \in Workers :
                           /\ held'[v].row = q =>
                                (\A p \in due'[v] : p[1] # q) /\ Shows(v, q)'
                           /\ \A p \in due'[v] : p[1] = q =>
                                status'[q] = "retrying" /\ p[2] = number'[q]
    BY DEF HandsAreApart, Shows
  <2>0. /\ \A u, v \in Workers : InHand(u, q) /\ InHand(v, q) => u = v
        /\ \A v \in Workers :
             /\ held[v].row = q => (\A p \in due[v] : p[1] # q) /\ Shows(v, q)
             /\ \A p \in due[v] : p[1] = q => status[q] = "retrying" /\ p[2] = number[q]
    BY DEF Hands, HandsAreApart, Shows
  <2>1. \A v \in Workers : held'[v].row = q => held'[v] = held[v]
    BY NoRowIsNone
  <2> QED BY <1>1, <2>0, <2>1 DEF Shows
<1> QED BY <1>2, <1>3, <1>4 DEF Hands

\* A row is listed once; whoever else has it in hand, it is remembered as doubled.
LEMMA ListHands ==
  ASSUME TypeOK, Hands, NEW t \in Ticks, List(t)
  PROVE  Hands'
<1> DEFINE rows == { r \in Rows : status[r] = "retrying" }
<1>1. /\ t \in Workers /\ phase[t] = "list" /\ phase'[t] \in {"idle", "retry"}
      /\ \A w \in Workers : w # t => phase'[w] = phase[w]
      /\ UNCHANGED << event, status, number, held, calls >>
      /\ \/ due' = due /\ doubled' = doubled /\ phase'[t] = "idle"
         \/ /\ due' = [due EXCEPT ![t] = { << r, number[r] >> : r \in rows }]
            /\ doubled' = doubled \cup { r \in rows : \E w \in Workers \ {t} : InHand(w, r) }
            /\ phase'[t] = "retry"
  BY ListEffect DEF Workers, Hands
<1>2. Free(t) /\ held[t] = NoRow /\ due[t] = {}
  BY <1>1, HeldTypes DEF Hands, HandsFit
<1>3. CASE due' = due /\ doubled' = doubled /\ phase'[t] = "idle"
  <2>1. \A v \in Workers : Free(v)' = Free(v)
    BY <1>1 DEF Free
  <2> QED BY <1>1, <1>2, <1>3, <2>1, LetGo DEF Hands, HandsFit
<1>4. CASE /\ due' = [due EXCEPT ![t] = { << r, number[r] >> : r \in rows }]
           /\ doubled' = doubled \cup { r \in rows : \E w \in Workers \ {t} : InHand(w, r) }
           /\ phase'[t] = "retry"
  <2>1. /\ \A v \in Workers : v # t => due'[v] = due[v]
        /\ due'[t] = { << r, number[r] >> : r \in rows }
    BY <1>1, <1>4 DEF TypeOK
  <2>2. \A v \in Workers, q \in Rows : v # t => (InHand(v, q)' <=> InHand(v, q))
    BY <1>1, <2>1 DEF InHand
  <2>3. \A q \in Rows : InHand(t, q)' <=> q \in rows
    <3> TAKE q \in Rows
    <3>1. held'[t].row # q
      BY <1>1, <1>2, NoRowIsNone
    <3>2. (\E p \in due'[t] : p[1] = q) <=> q \in rows
      <4>1. \A r \in rows : << r, number[r] >>[1] = r
        OBVIOUS
      <4>2. q \in rows => << q, number[q] >> \in due'[t]
        BY <2>1
      <4>3. ASSUME NEW p \in due'[t], p[1] = q PROVE q \in rows
        <5>1. p \in { << r, number[r] >> : r \in rows }
          BY <2>1
        <5>2. PICK r \in rows : p = << r, number[r] >>
          BY <5>1
        <5>3. p[1] = r
          BY <5>2
        <5> QED BY <4>3, <5>3
      <4> QED BY <4>1, <4>2, <4>3
    <3> QED BY <3>1, <3>2 DEF InHand
  <2>4. \A q \in Rows : event[q] = 0 => q \notin rows
    BY DEF Hands, HandsFit
  <2>5. HandsFit'
    <3>1. \A v \in Workers : /\ phase'[v] \in {"idle", "list"} => Free(v)'
                             /\ phase'[v] # "retry" => due'[v] = {}
                             /\ phase'[v] \in {"dispatch", "list", "retry"} => v \in Ticks
      BY <1>1, <1>4, <2>1 DEF Hands, HandsFit, Free
    <3>2. \A q \in Rows : event'[q] = 0 =>
            /\ status'[q] = "none" /\ number'[q] = 0 /\ calls'[q] = 0 /\ q \notin doubled'
            /\ \A v \in Workers : ~ InHand(v, q)'
      BY <1>1, <1>4, <2>2, <2>3, <2>4 DEF Hands, HandsFit
    <3> QED BY <1>1, <3>1, <3>2 DEF Hands, HandsFit
  <2>6. HandsAreApart'
    <3> SUFFICES ASSUME NEW q \in Rows \ doubled'
                 PROVE  /\ \A u, v \in Workers : InHand(u, q)' /\ InHand(v, q)' => u = v
                        /\ \A v \in Workers :
                             /\ held'[v].row = q =>
                                  (\A p \in due'[v] : p[1] # q) /\ Shows(v, q)'
                             /\ \A p \in due'[v] : p[1] = q =>
                                  status'[q] = "retrying" /\ p[2] = number'[q]
      BY DEF HandsAreApart, Shows
    <3>0. /\ \A u, v \in Workers : InHand(u, q) /\ InHand(v, q) => u = v
          /\ \A v \in Workers :
               /\ held[v].row = q => (\A p \in due[v] : p[1] # q) /\ Shows(v, q)
               /\ \A p \in due[v] : p[1] = q => status[q] = "retrying" /\ p[2] = number[q]
      BY <1>4 DEF Hands, HandsAreApart, Shows
    <3>1. q \in rows => \A v \in Workers : v # t => ~ InHand(v, q)
      BY <1>4
    <3>2. \A u, v \in Workers : InHand(u, q)' /\ InHand(v, q)' => u = v
      BY <2>2, <2>3, <3>0, <3>1
    <3>3. \A v \in Workers : held'[v].row = q =>
            /\ v # t /\ held[v].row = q /\ Shows(v, q)'
            /\ \A p \in due'[v] : p[1] # q
      BY <1>1, <1>2, <2>1, <3>0, NoRowIsNone DEF Shows
    <3>4. \A v \in Workers : \A p \in due'[v] : p[1] = q =>
            status'[q] = "retrying" /\ p[2] = number'[q]
      BY <1>1, <2>1, <3>0
    <3> QED BY <3>2, <3>3, <3>4
  <2> QED BY <1>1, <2>5, <2>6 DEF Hands, NumbersAreTaken
<1> QED BY <1>1, <1>3, <1>4

LEMMA RetryHands ==
  ASSUME TypeOK, Hands, NEW t \in Ticks, Retry(t)
  PROVE  Hands'
<1>1. /\ t \in Workers /\ phase[t] = "retry" /\ held[t] = NoRow /\ TypeOK'
      /\ \A w \in Workers : w # t => phase'[w] = phase[w] /\ held'[w] = held[w]
      /\ UNCHANGED << event, status, number, calls, doubled >>
      /\ \/ \E p \in due[t] : /\ held'[t].row = p[1] /\ held'[t].number = p[2]
                              /\ held'[t].step = "resolve" /\ p[1] \in Rows
                              /\ due' = [due EXCEPT ![t] = @ \ {p}] /\ phase' = phase
         \/ due[t] = {} /\ phase'[t] = "idle" /\ UNCHANGED << held, due >>
  BY RetryEffect DEF Workers
<1>2. CASE due[t] = {} /\ phase'[t] = "idle" /\ UNCHANGED << held, due >>
  <2>1. \A v \in Workers : Free(v)' = Free(v)
    BY <1>2 DEF Free
  <2>2. Free(t)
    BY <1>1, NoRowIsNone DEF Free
  <2> QED BY <1>1, <1>2, <2>1, <2>2, LetGo DEF Hands, HandsFit
<1>3. ASSUME NEW p \in due[t], held'[t].row = p[1], held'[t].number = p[2],
             held'[t].step = "resolve", p[1] \in Rows,
             due' = [due EXCEPT ![t] = @ \ {p}], phase' = phase
      PROVE  Hands'
  <2>1. due'[t] = due[t] \ {p} /\ \A v \in Workers : v # t => due'[v] = due[v]
    BY <1>1, <1>3 DEF TypeOK
  <2>2. \A v \in Workers, q \in Rows : InHand(v, q)' => InHand(v, q)
    BY <1>1, <1>3, <2>1 DEF InHand
  <2>3. HandsFit'
    <3>1. \A v \in Workers : /\ phase'[v] \in {"idle", "list"} => Free(v)'
                             /\ phase'[v] # "retry" => due'[v] = {}
                             /\ phase'[v] \in {"dispatch", "list", "retry"} => v \in Ticks
      BY <1>1, <1>3, <2>1 DEF Hands, HandsFit, Free
    <3> QED BY <1>1, <2>2, <3>1 DEF Hands, HandsFit
  <2>4. HandsAreApart'
    <3> SUFFICES ASSUME NEW q \in Rows \ doubled
                 PROVE  /\ \A u, v \in Workers : InHand(u, q)' /\ InHand(v, q)' => u = v
                        /\ \A v \in Workers :
                             /\ held'[v].row = q =>
                                  (\A x \in due'[v] : x[1] # q) /\ Shows(v, q)'
                             /\ \A x \in due'[v] : x[1] = q =>
                                  status'[q] = "retrying" /\ x[2] = number'[q]
      BY <1>1 DEF HandsAreApart, Shows
    <3>0. /\ \A u, v \in Workers : InHand(u, q) /\ InHand(v, q) => u = v
          /\ \A v \in Workers :
               /\ held[v].row = q => (\A x \in due[v] : x[1] # q) /\ Shows(v, q)
               /\ \A x \in due[v] : x[1] = q => status[q] = "retrying" /\ x[2] = number[q]
      BY DEF Hands, HandsAreApart, Shows
    <3>1. \A v \in Workers : v # t /\ held'[v].row = q =>
            (\A x \in due'[v] : x[1] # q) /\ Shows(v, q)'
      BY <1>1, <2>1, <3>0 DEF Shows
    <3>2. held'[t].row = q => (\A x \in due'[t] : x[1] # q) /\ Shows(t, q)'
      <4> SUFFICES ASSUME p[1] = q PROVE (\A x \in due'[t] : x[1] # q) /\ Shows(t, q)'
        BY <1>3
      <4>1. status[q] = "retrying" /\ p[2] = number[q]
        BY <3>0, <1>1
      <4>2. \A x \in due[t] : x[1] = q => x = p
        <5>1. \A x \in due[t] : x = << x[1], x[2] >>
          BY <1>1 DEF TypeOK
        <5> QED BY <1>1, <3>0, <4>1, <5>1
      <4> QED BY <1>1, <1>3, <2>1, <4>1, <4>2 DEF Shows
    <3> QED BY <1>1, <2>1, <2>2, <3>0, <3>1, <3>2
  <2> QED BY <1>1, <2>3, <2>4 DEF Hands, NumbersAreTaken
<1> QED BY <1>1, <1>2, <1>3

-----------------------------------------------------------------------------
(* Calls and numbers.                                                      *)

Calls == NumbersAreCalls /\ CallsAreNumbered /\ CallsAreCounted

Ghosts == /\ doubled \subseteq doubled' /\ torn \subseteq torn'
          /\ refused \subseteq refused' /\ unsent \subseteq unsent'

LEMMA Numbers ==
  ASSUME TypeOK
  PROVE  /\ MaxRetries \in Nat /\ \A r \in Rows : calls[r] \in Nat /\ number[r] \in Nat
         /\ \A w \in Workers : held[w].row # 0 => held[w].number \in 1 .. MaxRetries
         /\ \A w \in Workers : \A p \in due[w] : p[1] \in Rows /\ p[2] \in 1 .. MaxRetries
<1>1. MaxRetries \in Nat
  BY DeliveryAssumption
<1>2. \A r \in Rows : calls[r] \in Nat /\ number[r] \in Nat
  BY <1>1 DEF TypeOK, TableOK
<1>3. \A w \in Workers : held[w].row # 0 => held[w].number \in 1 .. MaxRetries
  BY HeldTypes DEF Deliveries
<1>4. \A w \in Workers : \A p \in due[w] : p[1] \in Rows /\ p[2] \in 1 .. MaxRetries
  BY DEF TypeOK
<1> QED BY <1>1, <1>2, <1>3, <1>4

\* Steps that neither call nor write; an answer is let go only when it is torn.
LEMMA SameCalls ==
  ASSUME TypeOK, Calls, Ghosts, UNCHANGED << status, number, calls >>,
         \A v \in Workers :
           /\ held'[v].row # 0 => held'[v].row = held[v].row /\ held'[v].number = held[v].number
           /\ Answered(v)' => held'[v] = held[v]
           /\ Answered(v) => held'[v] = held[v] \/ held[v].row \in torn' \cup refused'
           /\ due'[v] \subseteq due[v]
  PROVE  Calls'
<1>1. NumbersAreCalls'
  BY DEF Calls, NumbersAreCalls, Answered
<1>2. CallsAreNumbered'
  <2> SUFFICES ASSUME NEW r \in Rows \ (doubled' \cup torn' \cup refused')
               PROVE  /\ calls[r] <= MaxRetries
                      /\ status[r] \in {"pending", "retrying"} =>
                           IF \E w \in Workers : held'[w].row = r /\ Answered(w)'
                             THEN calls[r] <= number[r] ELSE calls[r] < number[r]
    BY DEF CallsAreNumbered
  <2>1. r \in Rows \ (doubled \cup torn \cup refused)
    BY DEF Ghosts
  <2>2. (\E w \in Workers : held[w].row = r /\ Answered(w))
          <=> (\E w \in Workers : held'[w].row = r /\ Answered(w)')
    BY DEF Answered
  <2> QED BY <2>1, <2>2 DEF Calls, CallsAreNumbered
<1>3. CallsAreCounted'
  BY DEF Calls, CallsAreCounted, Ghosts
<1> QED BY <1>1, <1>2, <1>3 DEF Calls

\* A row that was given up for want of an endpoint was not called.
LEMMA ResolveCalls ==
  ASSUME TypeOK, Hands, Calls, NEW w \in Workers, Resolve(w)
  PROVE  Calls'
<1> DEFINE r == held[w].row
<1>1. /\ TypeOK' /\ r \in Rows /\ held[w].step = "resolve" /\ calls' = calls /\ due' = due
      /\ \A v \in Workers : v # w => held'[v] = held[v]
      /\ \A q \in Rows : q # r => status'[q] = status[q] /\ number'[q] = number[q]
      /\ \/ /\ held'[w].row = r /\ held'[w].number = held[w].number
            /\ held'[w].step = "post" /\ status' = status /\ number' = number
         \/ /\ held'[w] = NoRow
            /\ \/ status' = status /\ number' = number
               \/ Update(r, "failed", number[r]) /\ r \in unsent'
  BY ResolveEffect
<1>2. Ghosts
  BY ResolveEffect DEF Ghosts
<1>3. CASE status' = status /\ number' = number
  BY <1>1, <1>2, <1>3, NoRowIsNone, SameCalls DEF Answered
<1>4. CASE held'[w] = NoRow /\ Update(r, "failed", number[r]) /\ r \in unsent'
  <2>1. number[r] \in 0 .. MaxRetries + 1
    BY <1>1 DEF TypeOK, TableOK
  <2>2. number'[r] = number[r] /\ status'[r] \in {status[r], "failed"}
    BY <1>1, <1>4, <2>1, UpdateEffect
  <2>3. NumbersAreCalls'
    BY <1>1, <1>4, <2>2, NoRowIsNone DEF Calls, NumbersAreCalls, Answered
  <2>4. CallsAreCounted'
    <3> SUFFICES ASSUME NEW q \in Rows
                 PROVE  /\ status'[q] = "failed" => q \in unsent' \/ calls[q] >= MaxRetries
                        /\ calls[q] > MaxRetries => q \in doubled' \cup torn' \cup refused'
      BY <1>1 DEF CallsAreCounted
    <3> QED BY <1>1, <1>2, <1>4 DEF Calls, CallsAreCounted, Ghosts
  <2>5. CallsAreNumbered'
    <3> SUFFICES ASSUME NEW q \in Rows \ (doubled' \cup torn' \cup refused')
                 PROVE  /\ calls[q] <= MaxRetries
                        /\ status'[q] \in {"pending", "retrying"} =>
                             IF \E v \in Workers : held'[v].row = q /\ Answered(v)'
                               THEN calls[q] <= number'[q] ELSE calls[q] < number'[q]
      BY <1>1 DEF CallsAreNumbered
    <3>1. q \in Rows \ (doubled \cup torn \cup refused)
      BY <1>2 DEF Ghosts
    <3>2. (\E v \in Workers : held'[v].row = q /\ Answered(v)')
            <=> (\E v \in Workers : held[v].row = q /\ Answered(v))
      BY <1>1, <1>4, NoRowIsNone DEF Answered
    <3>3. status'[q] \in {status[q], "failed"} /\ number'[q] = number[q]
      BY <1>1, <2>2
    <3> QED BY <3>1, <3>2, <3>3 DEF Calls, CallsAreNumbered
  <2> QED BY <2>3, <2>4, <2>5 DEF Calls
<1> QED BY <1>1, <1>3, <1>4

LEMMA CountCalls ==
  ASSUME TypeOK, Calls, NEW w \in Workers, Count(w) \/ AutoDisable(w)
  PROVE  Calls'
<1>1. /\ held[w].step \in {"count", "disable"}
      /\ UNCHANGED << status, number, calls, due, doubled, torn, refused, unsent >>
      /\ \A v \in Workers : v # w => held'[v] = held[v]
      /\ \/ held'[w] = NoRow
         \/ /\ held'[w].row = held[w].row /\ held'[w].number = held[w].number
            /\ held'[w].step = "disable"
  BY CountEffect
<1> QED BY <1>1, NoRowIsNone, SameCalls DEF Answered, Ghosts

\* A call is made with the number it has.
LEMMA PostCalls ==
  ASSUME TypeOK, Hands, Calls, NEW w \in Workers, Post(w)
  PROVE  Calls'
<1> DEFINE r == held[w].row
<1>1. /\ r \in Rows /\ TypeOK' /\ UNCHANGED << status, number, due, doubled, torn, refused, unsent >>
      /\ held[w].step = "post" /\ \A v \in Workers : v # w => held'[v] = held[v]
      /\ \A q \in Rows : q # r => calls'[q] = calls[q]
      /\ calls'[r] = IF calls[r] > MaxRetries THEN calls[r] ELSE calls[r] + 1
      /\ held'[w].row = r /\ held'[w].number = held[w].number /\ held'[w].step \in {"ok", "bad"}
  BY PostEffect
<1>2. \A q \in Rows : calls[q] \in Nat /\ calls'[q] \in Nat /\ calls[q] <= calls'[q]
  BY <1>1, Numbers
<1>3. r # 0 /\ held[w].number \in 1 .. MaxRetries /\ MaxRetries \in Nat
  BY <1>1, NoRowIsNone, Numbers
<1>4. NumbersAreCalls'
  <2>1. \A q \in Rows : number'[q] <= calls'[q] + 1
    BY <1>1, <1>2, Numbers DEF Calls, NumbersAreCalls
  <2>2. \A v \in Workers : \A p \in due'[v] : p[2] <= calls'[p[1]] + 1
    <3> TAKE v \in Workers
    <3> TAKE p \in due'[v]
    <3>1. p \in due[v] /\ p[1] \in Rows /\ p[2] \in 1 .. MaxRetries
      BY <1>1, Numbers
    <3>2. p[2] <= calls[p[1]] + 1
      BY <3>1 DEF Calls, NumbersAreCalls
    <3> QED BY <1>2, <1>3, <3>1, <3>2
  <2>3. held'[w].number <= calls'[r]
    <3>1. held[w].number <= calls[r] + 1
      BY <1>3 DEF Calls, NumbersAreCalls
    <3> QED BY <1>1, <1>2, <1>3, <3>1
  <2>4. ASSUME NEW v \in Workers, held'[v].row # 0
        PROVE  /\ held'[v].number <= calls'[held'[v].row] + 1
               /\ Answered(v)' => held'[v].number <= calls'[held'[v].row]
    <3>1. CASE v = w
      BY <1>1, <1>2, <1>3, <2>3, <3>1
    <3>2. CASE v # w
      <4>1. /\ held'[v] = held[v] /\ held[v].row \in Rows /\ held[v].number \in Nat
            /\ Answered(v)' = Answered(v)
        BY <1>1, <2>4, <3>2, HeldTypes, Numbers DEF Answered
      <4>2. /\ held[v].number <= calls[held[v].row] + 1
            /\ Answered(v) => held[v].number <= calls[held[v].row]
        BY <2>4, <4>1 DEF Calls, NumbersAreCalls
      <4> QED BY <1>2, <4>1, <4>2
    <3> QED BY <3>1, <3>2
  <2> QED BY <2>1, <2>2, <2>4 DEF NumbersAreCalls
<1>5. CallsAreNumbered'
  <2> SUFFICES ASSUME NEW q \in Rows \ (doubled \cup torn \cup refused)
               PROVE  /\ calls'[q] <= MaxRetries
                      /\ status[q] \in {"pending", "retrying"} =>
                           IF \E v \in Workers : held'[v].row = q /\ Answered(v)'
                             THEN calls'[q] <= number[q] ELSE calls'[q] < number[q]
    BY <1>1 DEF CallsAreNumbered
  <2>0. /\ calls[q] <= MaxRetries
        /\ status[q] \in {"pending", "retrying"} =>
             IF \E v \in Workers : held[v].row = q /\ Answered(v)
               THEN calls[q] <= number[q] ELSE calls[q] < number[q]
    BY DEF Calls, CallsAreNumbered
  <2>1. CASE q = r
    <3>1. status[r] \in {"pending", "retrying"} /\ held[w].number = number[r]
      BY <1>1, <2>1, ApartShows DEF Shows
    <3>2. \A v \in Workers : v # w => held[v].row # r
      BY <1>1, <2>1 DEF Hands, HandsAreApart, InHand
    <3>3. calls[r] < number[r]
      BY <1>1, <2>0, <2>1, <3>1, <3>2 DEF Answered
    <3>4. Answered(w)'
      BY <1>1 DEF Answered
    <3> QED BY <1>1, <1>2, <1>3, <2>1, <3>1, <3>3, <3>4, Numbers
  <2>2. CASE q # r
    <3>1. (\E v \in Workers : held'[v].row = q /\ Answered(v)')
            <=> (\E v \in Workers : held[v].row = q /\ Answered(v))
      BY <1>1, <2>2 DEF Answered
    <3> QED BY <1>1, <2>0, <2>2, <3>1
  <2> QED BY <2>1, <2>2
<1>6. CallsAreCounted'
  <2> SUFFICES ASSUME NEW q \in Rows
               PROVE  /\ status[q] = "failed" => q \in unsent \/ calls'[q] >= MaxRetries
                      /\ calls'[q] > MaxRetries => q \in doubled \cup torn \cup refused
    BY <1>1 DEF CallsAreCounted
  <2>1. status[q] = "failed" => q \in unsent \/ calls[q] >= MaxRetries
    BY DEF Calls, CallsAreCounted
  <2>2. ~ (q \in doubled \cup torn \cup refused) => calls'[q] <= MaxRetries
    BY <1>1, <1>5 DEF CallsAreNumbered
  <2> QED BY <1>2, <1>3, <2>1, <2>2
<1> QED BY <1>4, <1>5, <1>6 DEF Calls

\* An outcome is written with the number of the calls behind it.
LEMMA RecordCalls ==
  ASSUME TypeOK, Hands, Calls, NEW w \in Workers, Record(w)
  PROVE  Calls'
<1> DEFINE r == held[w].row
           n == held[w].number
<1>1. /\ r \in Rows /\ TypeOK' /\ Answered(w) /\ UNCHANGED << due, calls, doubled, unsent >>
      /\ \A v \in Workers : v # w => held'[v] = held[v]
      /\ \A q \in Rows : q # r => status'[q] = status[q] /\ number'[q] = number[q]
      /\ \/ /\ held'[w] = NoRow /\ r \in torn' \cup refused'
            /\ status' = status /\ number' = number
         \/ held'[w] = NoRow /\ status'[r] = "success" /\ number'[r] = n
         \/ /\ held'[w] = NoRow /\ n < MaxRetries
            /\ status'[r] = "retrying" /\ number'[r] = n + 1
         \/ /\ held'[w].row = r /\ held'[w].number = n /\ held'[w].step = "count"
            /\ n >= MaxRetries /\ status'[r] = "failed" /\ number'[r] = n + 1
  BY RecordEffect
<1>2. Ghosts
  BY <1>1, RecordEffect DEF Ghosts
<1>3. /\ r # 0 /\ n \in 1 .. MaxRetries /\ MaxRetries \in Nat /\ calls[r] \in Nat
      /\ n <= calls[r]
  BY <1>1, NoRowIsNone, Numbers DEF Calls, NumbersAreCalls
<1>4. CASE status' = status /\ number' = number /\ held'[w] = NoRow /\ r \in torn' \cup refused'
  BY <1>1, <1>2, <1>4, NoRowIsNone, SameCalls DEF Answered
<1>5. CASE \/ held'[w] = NoRow /\ status'[r] = "success" /\ number'[r] = n
           \/ /\ held'[w] = NoRow /\ n < MaxRetries
              /\ status'[r] = "retrying" /\ number'[r] = n + 1
           \/ /\ held'[w].row = r /\ held'[w].number = n /\ held'[w].step = "count"
              /\ n >= MaxRetries /\ status'[r] = "failed" /\ number'[r] = n + 1
  <2>1. NumbersAreCalls'
    <3>1. number'[r] <= calls[r] + 1
      BY <1>3, <1>5
    <3>2. \A v \in Workers : held'[v].row # 0 =>
            /\ held'[v].number <= calls[held'[v].row] + 1
            /\ Answered(v)' => held'[v].number <= calls[held'[v].row]
      BY <1>1, <1>3, <1>5, NoRowIsNone DEF Calls, NumbersAreCalls, Answered
    <3> QED BY <1>1, <3>1, <3>2 DEF Calls, NumbersAreCalls
  <2>2. CallsAreCounted'
    <3> SUFFICES ASSUME NEW q \in Rows
                 PROVE  /\ status'[q] = "failed" => q \in unsent \/ calls[q] >= MaxRetries
                        /\ calls[q] > MaxRetries => q \in doubled' \cup torn' \cup refused'
      BY <1>1 DEF CallsAreCounted
    <3>1. calls[q] > MaxRetries => q \in doubled' \cup torn' \cup refused'
      BY <1>2 DEF Ghosts, Calls, CallsAreCounted
    <3>2. CASE q # r
      BY <1>1, <3>1, <3>2 DEF Calls, CallsAreCounted
    <3>3. CASE q = r
      BY <1>3, <1>5, <3>1, <3>3
    <3> QED BY <3>2, <3>3
  <2>3. CallsAreNumbered'
    <3> SUFFICES ASSUME NEW q \in Rows \ (doubled' \cup torn' \cup refused')
                 PROVE  /\ calls[q] <= MaxRetries
                        /\ status'[q] \in {"pending", "retrying"} =>
                             IF \E v \in Workers : held'[v].row = q /\ Answered(v)'
                               THEN calls[q] <= number'[q] ELSE calls[q] < number'[q]
      BY <1>1 DEF CallsAreNumbered
    <3>1. q \in Rows \ (doubled \cup torn \cup refused)
      BY <1>2 DEF Ghosts
    <3>2. /\ calls[q] <= MaxRetries
          /\ status[q] \in {"pending", "retrying"} =>
               IF \E v \in Workers : held[v].row = q /\ Answered(v)
                 THEN calls[q] <= number[q] ELSE calls[q] < number[q]
      BY <3>1 DEF Calls, CallsAreNumbered
    <3>3. CASE q # r
      <4>1. (\E v \in Workers : held'[v].row = q /\ Answered(v)')
              <=> (\E v \in Workers : held[v].row = q /\ Answered(v))
        BY <1>1, <1>5, <3>3, NoRowIsNone DEF Answered
      <4> QED BY <1>1, <3>2, <3>3, <4>1
    <3>4. CASE q = r
      <4>1. status[r] \in {"pending", "retrying"} /\ n = number[r]
        BY <1>1, <3>1, <3>4, ApartShows DEF Shows, Answered
      <4>2. calls[r] <= number[r]
        BY <1>1, <3>2, <3>4, <4>1
      <4>3. \A v \in Workers : held'[v].row = r => ~ Answered(v)'
        <5>1. \A v \in Workers : v # w => held[v].row # r
          BY <1>1, <3>1, <3>4 DEF Hands, HandsAreApart, InHand
        <5> QED BY <1>1, <1>3, <1>5, <5>1, NoRowIsNone DEF Answered
      <4>4. status'[r] \in {"pending", "retrying"} => number'[r] = n + 1
        BY <1>5
      <4> QED BY <1>1, <1>3, <3>2, <3>4, <4>1, <4>2, <4>3, <4>4
    <3> QED BY <3>3, <3>4
  <2> QED BY <2>1, <2>2, <2>3 DEF Calls
<1> QED BY <1>1, <1>4, <1>5

LEMMA CreateCalls ==
  ASSUME TypeOK, Hands, Calls, NEW w \in Workers, NEW e \in Events, Create(w, e), Free(w),
         UNCHANGED << due, calls, doubled, torn, refused, unsent >>
  PROVE  Calls'
<1> PICK r \in Rows :
      /\ event[r] = 0 /\ status'[r] = "pending" /\ number'[r] = 1 /\ calls[r] = 0
      /\ \A v \in Workers : ~ InHand(v, r)
      /\ \A q \in Rows : q # r => status'[q] = status[q] /\ number'[q] = number[q]
      /\ Hold(w, r, 1, "resolve")
  BY CreateEffect DEF Hands
<1>1. 1 \in 1 .. MaxRetries /\ held[w] = NoRow
  BY DeliveryAssumption, HeldTypes
<1>2. /\ held'[w].row = r /\ held'[w].number = 1 /\ held'[w].step = "resolve"
      /\ \A v \in Workers : v # w => held'[v] = held[v]
  BY <1>1, HoldEffect
<1>3. NumbersAreCalls'
  BY <1>2 DEF Calls, NumbersAreCalls, Answered
<1>4. CallsAreCounted'
  BY DEF Calls, CallsAreCounted
<1>5. CallsAreNumbered'
  <2> SUFFICES ASSUME NEW q \in Rows \ (doubled \cup torn \cup refused)
               PROVE  /\ calls[q] <= MaxRetries
                      /\ status'[q] \in {"pending", "retrying"} =>
                           IF \E v \in Workers : held'[v].row = q /\ Answered(v)'
                             THEN calls[q] <= number'[q] ELSE calls[q] < number'[q]
    BY DEF CallsAreNumbered
  <2>1. CASE q # r
    <3>1. (\E v \in Workers : held'[v].row = q /\ Answered(v)')
            <=> (\E v \in Workers : held[v].row = q /\ Answered(v))
      BY <1>1, <1>2, <2>1, NoRowIsNone DEF Answered
    <3> QED BY <2>1, <3>1 DEF Calls, CallsAreNumbered
  <2>2. CASE q = r
    BY <1>1, <2>2, DeliveryAssumption
  <2> QED BY <2>1, <2>2
<1> QED BY <1>3, <1>4, <1>5 DEF Calls

LEMMA ListCalls ==
  ASSUME TypeOK, Hands, Calls, NEW t \in Ticks, List(t)
  PROVE  Calls'
<1> DEFINE rows == { r \in Rows : status[r] = "retrying" }
<1>1. /\ t \in Workers /\ UNCHANGED << status, number, held, calls, torn, refused, unsent >>
      /\ doubled \subseteq doubled'
      /\ due' \in {due, [due EXCEPT ![t] = { << r, number[r] >> : r \in rows }]}
  BY ListEffect DEF Workers, Hands
<1>2. \A v \in Workers : \A p \in due'[v] : p \in due[v] \/ \E r \in rows : p = << r, number[r] >>
  BY <1>1 DEF TypeOK
<1>3. NumbersAreCalls'
  <2>1. ASSUME NEW v \in Workers, NEW p \in due'[v] PROVE p[2] <= calls[p[1]] + 1
    <3>1. CASE p \in due[v]
      BY <3>1 DEF Calls, NumbersAreCalls
    <3>2. ASSUME NEW r \in rows, p = << r, number[r] >> PROVE p[2] <= calls[p[1]] + 1
      BY <3>2 DEF Calls, NumbersAreCalls
    <3> QED BY <1>2, <3>1, <3>2
  <2> QED BY <1>1, <2>1 DEF Calls, NumbersAreCalls, Answered
<1>4. CallsAreNumbered' /\ CallsAreCounted'
  BY <1>1 DEF Calls, CallsAreNumbered, CallsAreCounted, Answered
<1> QED BY <1>3, <1>4 DEF Calls

LEMMA RetryCalls ==
  ASSUME TypeOK, Calls, NEW t \in Ticks, Retry(t)
  PROVE  Calls'
<1>1. /\ t \in Workers /\ held[t] = NoRow
      /\ \A w \in Workers : w # t => held'[w] = held[w]
      /\ UNCHANGED << status, number, calls, doubled, torn, refused, unsent >>
      /\ \/ \E p \in due[t] : /\ held'[t].row = p[1] /\ held'[t].number = p[2]
                              /\ held'[t].step = "resolve" /\ p[1] \in Rows
                              /\ due' = [due EXCEPT ![t] = @ \ {p}]
         \/ UNCHANGED << held, due >>
  BY RetryEffect DEF Workers
<1>2. CASE UNCHANGED << held, due >>
  BY <1>1, <1>2, SameCalls DEF Answered, Ghosts
<1>3. ASSUME NEW p \in due[t], held'[t].row = p[1], held'[t].number = p[2],
             held'[t].step = "resolve", p[1] \in Rows,
             due' = [due EXCEPT ![t] = @ \ {p}]
      PROVE  Calls'
  <2>1. \A v \in Workers : due'[v] \subseteq due[v]
    BY <1>1, <1>3 DEF TypeOK
  <2>2. p[2] <= calls[p[1]] + 1
    BY <1>1 DEF Calls, NumbersAreCalls
  <2>3. NumbersAreCalls'
    BY <1>1, <1>3, <2>1, <2>2 DEF Calls, NumbersAreCalls, Answered
  <2>4. \A q \in Rows : (\E v \in Workers : held'[v].row = q /\ Answered(v)')
                          <=> (\E v \in Workers : held[v].row = q /\ Answered(v))
    BY <1>1, <1>3, NoRowIsNone DEF Answered
  <2>5. CallsAreNumbered'
    BY <1>1, <2>4 DEF Calls, CallsAreNumbered
  <2>6. CallsAreCounted'
    BY <1>1 DEF Calls, CallsAreCounted
  <2> QED BY <2>3, <2>5, <2>6 DEF Calls
<1> QED BY <1>1, <1>2, <1>3

LEMMA DiesCalls ==
  ASSUME TypeOK, Calls, NEW w \in Workers, Dies(w)
  PROVE  Calls'
<1>1. /\ UNCHANGED << status, number, calls, doubled, refused, unsent >>
      /\ held'[w] = NoRow /\ due'[w] = {}
      /\ \A v \in Workers : v # w => held'[v] = held[v] /\ due'[v] = due[v]
      /\ torn \subseteq torn' /\ (held[w].row # 0 => held[w].row \in torn')
  BY DiesEffect
<1>2. Answered(w) => held[w].row # 0
  BY HeldTypes DEF Answered, Free
<1> QED BY <1>1, <1>2, NoRowIsNone, SameCalls DEF Answered, Ghosts

-----------------------------------------------------------------------------
(* No event is left out.                                                   *)

Lane == NothingLeftOut /\ EventsGetTheirRow

\* What was seen stays seen.
StaySeen == /\ missed \subseteq missed'
            /\ \A r \in Rows : event[r] # 0 => event'[r] = event[r]

LEMMA SeenStays ==
  ASSUME StaySeen, NEW e \in Events, Seen(e)
  PROVE  Seen(e)'
BY DeliveryAssumption DEF StaySeen, Seen

\* A step that reads no further leaves nothing out.
LEMMA SameLane ==
  ASSUME TypeOK, Lane, StaySeen, log' = log,
         cursor' \in {cursor} \cup { last[t] : t \in Ticks },
         \A t \in Ticks : batch'[t] \in {batch[t], {}} /\ last'[t] \in {last[t], 0}
  PROVE  Lane'
<1>1. log \subseteq Events /\ \A e \in log : ~ (e <= 0)
  BY DeliveryAssumption DEF TypeOK
<1>2. \A e \in log : Seen(e) => Seen(e)'
  BY <1>1, SeenStays
<1>3. NothingLeftOut'
  BY <1>1, <1>2 DEF Lane, NothingLeftOut
<1>4. \A e \in log : e <= cursor' => Seen(e)
  BY DEF Lane, EventsGetTheirRow, NothingLeftOut, Seen
<1>5. EventsGetTheirRow'
  BY <1>2, <1>4 DEF EventsGetTheirRow, Seen
<1> QED BY <1>3, <1>5 DEF Lane

LEMMA PublishLane == ASSUME TypeOK, Lane, NEW e \in Events, Publish(e) PROVE Lane'
<1>1. /\ log' = log \cup {e} /\ missed \subseteq missed' /\ UNCHANGED << cursor, event, batch, last >>
      /\ e \notin missed' => /\ ~ (e <= cursor)
                             /\ \A t \in Ticks : /\ ~ (e <= last[t])
                                                 /\ \A x \in batch[t] : ~ (e <= x)
  BY DEF Publish, table, local
<1>2. \A f \in log : Seen(f) => Seen(f)'
  BY <1>1 DEF Seen
<1>3. e \in missed' => Seen(e)'
  BY DEF Seen
<1>4. NothingLeftOut'
  BY <1>1, <1>2, <1>3 DEF Lane, NothingLeftOut
<1>5. EventsGetTheirRow'
  BY <1>1 DEF Lane, EventsGetTheirRow
<1> QED BY <1>4, <1>5 DEF Lane

LEMMA BeginLane == ASSUME TypeOK, Lane, NEW t \in Ticks, Begin(t) PROVE Lane'
<1>1. /\ UNCHANGED << log, cursor, event, last, missed >> /\ t \in Workers
      /\ batch' \in {batch, [batch EXCEPT ![t] = { e \in log : e > cursor }]}
  BY DEF Begin, table, ghosts, Workers
<1>2. \A e : Seen(e)' = Seen(e)
  BY <1>1 DEF Seen
<1>3. \A e \in log : e <= cursor \/ e > cursor
  BY DeliveryAssumption DEF TypeOK
<1>4. NothingLeftOut'
  <2> SUFFICES ASSUME NEW k \in Ticks, NEW e \in log, NEW x \in batch'[k], e <= x
               PROVE  e \in batch'[k] \/ Seen(e)
    BY <1>1, <1>2 DEF Lane, NothingLeftOut
  <2>1. CASE batch'[k] = batch[k]
    BY <2>1 DEF Lane, NothingLeftOut
  <2>2. CASE batch'[k] = { f \in log : f > cursor }
    BY <1>3, <2>2 DEF Lane, EventsGetTheirRow, Seen
  <2> QED BY <1>1, <2>1, <2>2 DEF TypeOK, Workers
<1> QED BY <1>1, <1>4 DEF Lane, EventsGetTheirRow

LEMMA DispatchLane ==
  ASSUME TypeOK, Hands, Lane, NEW t \in Ticks, Dispatch(t)
  PROVE  Lane'
<1> PICK e \in batch[t] :
      /\ \A f \in batch[t] : e <= f
      /\ batch' = [batch EXCEPT ![t] = @ \ {e}]
      /\ last' \in {last, [last EXCEPT ![t] = e]} /\ missed \subseteq missed'
      /\ UNCHANGED << log, cursor >>
      /\ \/ Create(t, e)
         \/ UNCHANGED << event, status, number, held >> /\ (e \in missed' \/ Taken(e, 1, 0))
  BY DispatchEffect DEF Hands
<1>1. /\ t \in Workers /\ e \in Events /\ log \subseteq Events /\ batch[t] \subseteq Events
      /\ Events \subseteq Nat /\ 0 \notin Rows
  BY DeliveryAssumption DEF Workers, TypeOK
<1>2. StaySeen /\ Seen(e)'
  <2>1. CASE Create(t, e)
    <3> PICK r \in Rows : /\ event[r] = 0 /\ event'[r] = e
                          /\ \A q \in Rows : q # r => event'[q] = event[q]
      BY <1>1, <2>1, CreateEffect DEF Hands
    <3> QED BY DEF StaySeen, Seen
  <2>2. CASE UNCHANGED event /\ (e \in missed' \/ Taken(e, 1, 0))
    BY <2>2 DEF StaySeen, Seen, Taken
  <2> QED BY <2>1, <2>2
<1>3. \A f \in log : Seen(f) => Seen(f)'
  BY <1>1, <1>2, SeenStays
<1>4. /\ batch'[t] = batch[t] \ {e} /\ last'[t] \in {last[t], e}
      /\ \A k \in Ticks : k # t => batch'[k] = batch[k] /\ last'[k] = last[k]
  BY <1>1 DEF TypeOK, Workers
<1>5. \A f \in log : f <= e => Seen(f)'
  <2> SUFFICES ASSUME NEW f \in log, f <= e PROVE Seen(f)'
    OBVIOUS
  <2>1. f \in batch[t] \/ Seen(f)
    BY DEF Lane, NothingLeftOut
  <2>2. f \in batch[t] => f = e
    <3>1. f \in batch[t] => e <= f /\ f \in Nat /\ e \in Nat
      BY <1>1
    <3> QED BY <3>1
  <2> QED BY <1>2, <1>3, <2>1, <2>2
<1>6. NothingLeftOut'
  <2>1. ASSUME NEW k \in Ticks, NEW f \in log, NEW x \in batch'[k], f <= x
        PROVE  f \in batch'[k] \/ Seen(f)'
    <3>1. x \in batch[k] /\ (f \in batch[k] \/ Seen(f))
      BY <1>4, <2>1 DEF Lane, NothingLeftOut
    <3> QED BY <1>2, <1>3, <1>4, <3>1
  <2>2. ASSUME NEW k \in Ticks, NEW f \in log, f <= last'[k] PROVE Seen(f)'
    BY <1>3, <1>4, <1>5, <2>2 DEF Lane, NothingLeftOut
  <2> QED BY <2>1, <2>2 DEF NothingLeftOut
<1>7. EventsGetTheirRow'
  BY <1>3 DEF Lane, EventsGetTheirRow, Seen
<1> QED BY <1>6, <1>7 DEF Lane

-----------------------------------------------------------------------------
(* The theorems.                                                           *)

LEMMA InitInv == Init => IInv
<1> SUFFICES ASSUME Init PROVE IInv
  OBVIOUS
<1>1. \A w \in Workers : held[w] = NoRow /\ held[w].row = 0 /\ held[w].step = "none" /\ due[w] = {}
  BY NoRowIsNone DEF Init
<1>2. \A r \in Rows : /\ status[r] = "none" /\ event[r] = 0 /\ number[r] = 0 /\ calls[r] = 0
                      /\ earlier[r] = {}
  BY DEF Init
<1>3. TableOK
  <2>1. Settled = {}
    BY <1>2 DEF Settled
  <2> QED BY <1>2, <2>1, DeliveryAssumption DEF Init, TableOK
<1>4. replays \in Nat /\ odds \in Nat /\ coming \subseteq Events
  BY DeliveryAssumption DEF Init
<1>5. TypeOK
  BY <1>3, <1>4, DeliveryAssumption DEF Init, TypeOK
<1>6. HandsFit
  BY <1>1, <1>2, NoRowIsNone DEF Init, HandsFit, Free, InHand
<1>7. NumbersAreTaken /\ HandsAreApart
  BY <1>1, <1>2, NoRowIsNone DEF NumbersAreTaken, HandsAreApart, InHand
<1>8. NothingLeftOut /\ EventsGetTheirRow
  BY DEF Init, NothingLeftOut, EventsGetTheirRow
<1>9. NumbersAreCalls /\ CallsAreNumbered /\ CallsAreCounted
  BY <1>1, <1>2, DeliveryAssumption DEF NumbersAreCalls, CallsAreNumbered, CallsAreCounted, Answered
<1> QED BY <1>5, <1>6, <1>7, <1>8, <1>9 DEF IInv

LEMMA StepTypes == ASSUME TypeOK, HandsFit, [Next]_vars PROVE TypeOK'
<1>1. ASSUME NEW e \in Events, Publish(e) PROVE TypeOK'
  BY <1>1, PublishTypes
<1>2. ASSUME NEW t \in Ticks, Begin(t) PROVE TypeOK'
  BY <1>2, BeginTypes
<1>3. ASSUME NEW w \in Workers, Deliver(w) PROVE TypeOK'
  BY <1>3, ResolveEffect, PostEffect, RecordEffect, CountEffect DEF Deliver
<1>4. ASSUME NEW t \in Ticks, Dispatch(t) \/ Advance(t) \/ List(t) \/ Retry(t) PROVE TypeOK'
  BY <1>4, DispatchEffect, AdvanceTypes, ListEffect, RetryEffect
<1>5. ASSUME NEW u \in Users, Answer(u) PROVE TypeOK'
  BY <1>5, AnswerTypes
<1>6. ASSUME NEW w \in Workers, Dies(w) PROVE TypeOK'
  BY <1>6, DiesEffect
<1>7. ASSUME NEW u \in Users, NEW r \in Rows, Replay(u, r) PROVE TypeOK'
  BY <1>7, ReplayTypes
<1>8. CASE Switch
  BY <1>8, SwitchTypes
<1>9. CASE UNCHANGED vars
  <2>1. TableOK'
    BY <1>9, TableStays DEF vars
  <2> QED BY <1>9, <2>1 DEF vars, local, ghosts, budget, TypeOK
<1> QED BY <1>1, <1>2, <1>3, <1>4, <1>5, <1>6, <1>7, <1>8, <1>9 DEF Next, Tick, Work

\* Steps that take no row in hand.
LEMMA QuietHands ==
  ASSUME TypeOK, Hands,
         \/ \E e \in Events : Publish(e)
         \/ \E t \in Ticks : Begin(t) \/ Advance(t)
         \/ \E u \in Users : Answer(u)
         \/ \E w \in Workers : Dies(w)
         \/ Switch \/ UNCHANGED vars
  PROVE  Hands'
<1>1. \A w \in Workers : /\ phase[w] \in {"idle", "list"} => Free(w)
                         /\ phase[w] # "retry" => due[w] = {}
                         /\ phase[w] \in {"dispatch", "list", "retry"} => w \in Ticks
  BY DEF Hands, HandsFit
<1>2. ASSUME UNCHANGED << table, phase, due, held, calls, doubled >> PROVE Hands'
  BY <1>1, <1>2, LetGo DEF table, Free
<1>3. ASSUME NEW e \in Events, Publish(e) PROVE Hands'
  BY <1>2, <1>3 DEF Publish, local
<1>4. ASSUME NEW t \in Ticks, Begin(t) PROVE Hands'
  <2>1. /\ t \in Workers /\ UNCHANGED << event, status, number, held, due, calls, doubled >>
        /\ phase[t] = "idle" /\ phase'[t] \in {"dispatch", "list"}
        /\ \A v \in Workers : v # t => phase'[v] = phase[v]
    BY <1>4 DEF Begin, Goto, table, ghosts, Workers, TypeOK
  <2> QED BY <1>1, <2>1, LetGo DEF Free
<1>5. ASSUME NEW t \in Ticks, Advance(t) PROVE Hands'
  <2>1. /\ t \in Workers /\ UNCHANGED << event, status, number, held, due, calls, doubled >>
        /\ phase[t] = "dispatch" /\ phase'[t] = "list" /\ Free(t)
        /\ \A v \in Workers : v # t => phase'[v] = phase[v]
    BY <1>5 DEF Advance, Goto, table, ghosts, Workers, TypeOK
  <2> QED BY <1>1, <2>1, LetGo DEF Free
<1>6. ASSUME NEW u \in Users, Answer(u) PROVE Hands'
  <2>1. /\ u \in Workers /\ UNCHANGED << event, status, number, held, due, calls, doubled >>
        /\ phase[u] = "replay" /\ phase'[u] = "idle" /\ Free(u)
        /\ \A v \in Workers : v # u => phase'[v] = phase[v]
    BY <1>6, AnswerTypes DEF Answer, table, ghosts, Workers
  <2> QED BY <1>1, <2>1, LetGo DEF Free
<1>7. ASSUME NEW w \in Workers, Dies(w) PROVE Hands'
  <2>1. /\ UNCHANGED << event, status, number, calls, doubled >>
        /\ held'[w] = NoRow /\ phase'[w] = "idle" /\ due'[w] = {}
        /\ \A v \in Workers : v # w => /\ held'[v] = held[v] /\ phase'[v] = phase[v]
                                       /\ due'[v] = due[v]
    BY <1>7, DiesEffect
  <2> QED BY <1>1, <2>1, LetGo, NoRowIsNone DEF Free
<1>8. CASE Switch
  BY <1>2, <1>8 DEF Switch, local, ghosts
<1>9. CASE UNCHANGED vars
  BY <1>2, <1>9 DEF vars, local, ghosts
<1> QED BY <1>3, <1>4, <1>5, <1>6, <1>7, <1>8, <1>9

LEMMA DispatchHands ==
  ASSUME TypeOK, TypeOK', Hands, NEW t \in Ticks, Dispatch(t)
  PROVE  Hands'
<1>1. /\ t \in Workers /\ phase[t] = "dispatch" /\ Free(t) /\ due[t] = {}
      /\ UNCHANGED << phase, due, calls, doubled >>
  BY DEF Dispatch, Workers, Hands, HandsFit
<1>2. PICK e \in batch[t] : DispatchNext(t, e) \/ DispatchFails(t, e)
  BY DEF Dispatch
<1>3. e \in Events
  BY <1>1 DEF TypeOK
<1>4. CASE Create(t, e) /\ ~ Taken(e, 1, 0)
  BY <1>1, <1>3, <1>4, CreateHands
<1>5. CASE UNCHANGED << table, held >>
  BY <1>1, <1>5, LetGo DEF table, Hands, HandsFit, Free
<1> QED BY <1>2, <1>4, <1>5 DEF DispatchNext, DispatchFails

LEMMA ReplayHands ==
  ASSUME TypeOK, TypeOK', Hands, NEW u \in Users, NEW r \in Rows, Replay(u, r)
  PROVE  Hands'
<1>1. event[r] \in Events /\ Create(u, event[r]) /\ u \in Workers
  BY ReplayTypes DEF Hands, Workers
<1>2. /\ phase[u] = "idle" /\ ~ Taken(event[r], 1, 0) /\ UNCHANGED << due, calls, doubled >>
      /\ phase'[u] = "replay" /\ \A v \in Workers : v # u => phase'[v] = phase[v]
  BY <1>1 DEF Replay, Goto, ghosts, TypeOK
<1>3. Free(u) /\ due[u] = {}
  BY <1>1, <1>2 DEF Hands, HandsFit
<1> QED BY <1>1, <1>2, <1>3, CreateHands

LEMMA StepHands == ASSUME TypeOK, TypeOK', Hands, [Next]_vars PROVE Hands'
<1>1. ASSUME NEW w \in Workers, Deliver(w) PROVE Hands'
  BY <1>1, ResolveHands, PostHands, RecordHands, CountHands DEF Deliver
<1>2. ASSUME NEW t \in Ticks, Dispatch(t) PROVE Hands'
  BY <1>2, DispatchHands
<1>3. ASSUME NEW t \in Ticks, List(t) PROVE Hands'
  BY <1>3, ListHands
<1>4. ASSUME NEW t \in Ticks, Retry(t) PROVE Hands'
  BY <1>4, RetryHands
<1>5. ASSUME NEW u \in Users, NEW r \in Rows, Replay(u, r) PROVE Hands'
  BY <1>5, ReplayHands
<1> QED BY <1>1, <1>2, <1>3, <1>4, <1>5, QuietHands DEF Next, Tick, Work

\* Steps that make no call and write no row.
LEMMA QuietCalls ==
  ASSUME TypeOK, Calls,
         \/ \E e \in Events : Publish(e)
         \/ \E t \in Ticks : Begin(t) \/ Advance(t)
         \/ \E u \in Users : Answer(u)
         \/ Switch \/ UNCHANGED vars
  PROVE  Calls'
<1>1. UNCHANGED << table, due, held, calls, doubled, torn, refused, unsent >>
  BY DEF Publish, Begin, Advance, Answer, Switch, vars, local, ghosts
<1> QED BY <1>1, SameCalls DEF table, Answered, Ghosts

LEMMA DispatchCalls ==
  ASSUME TypeOK, Hands, Calls, NEW t \in Ticks, Dispatch(t)
  PROVE  Calls'
<1> PICK e \in batch[t] :
      /\ UNCHANGED << due, calls, doubled, torn, refused, unsent >>
      /\ Create(t, e) \/ UNCHANGED << event, status, number, held >>
  BY DispatchEffect DEF Hands
<1>1. t \in Workers /\ e \in Events /\ Free(t)
  BY DEF Dispatch, Workers, TypeOK
<1>2. CASE Create(t, e)
  BY <1>1, <1>2, CreateCalls
<1>3. CASE UNCHANGED << event, status, number, held >>
  BY <1>3, SameCalls DEF Answered, Ghosts
<1> QED BY <1>2, <1>3

LEMMA ReplayCalls ==
  ASSUME TypeOK, Hands, Calls, NEW u \in Users, NEW r \in Rows, Replay(u, r)
  PROVE  Calls'
<1>1. event[r] \in Events /\ Create(u, event[r]) /\ u \in Workers
  BY ReplayTypes DEF Hands, Workers
<1>2. Free(u) /\ UNCHANGED << due, calls, doubled, torn, refused, unsent >>
  BY <1>1 DEF Replay, Hands, HandsFit, ghosts
<1> QED BY <1>1, <1>2, CreateCalls

LEMMA StepCalls == ASSUME TypeOK, Hands, Calls, [Next]_vars PROVE Calls'
<1>1. ASSUME NEW w \in Workers, Deliver(w) PROVE Calls'
  BY <1>1, ResolveCalls, PostCalls, RecordCalls, CountCalls DEF Deliver
<1>2. ASSUME NEW t \in Ticks, Dispatch(t) \/ List(t) \/ Retry(t) PROVE Calls'
  BY <1>2, DispatchCalls, ListCalls, RetryCalls
<1>3. ASSUME NEW w \in Workers, Dies(w) PROVE Calls'
  BY <1>3, DiesCalls
<1>4. ASSUME NEW u \in Users, NEW r \in Rows, Replay(u, r) PROVE Calls'
  BY <1>4, ReplayCalls
<1> QED BY <1>1, <1>2, <1>3, <1>4, QuietCalls DEF Next, Tick, Work

\* Steps that read no further.
LEMMA QuietLane ==
  ASSUME TypeOK, Hands, Lane,
         \/ \E w \in Workers : Deliver(w) \/ Dies(w)
         \/ \E t \in Ticks : Advance(t) \/ List(t) \/ Retry(t)
         \/ \E u \in Users : Answer(u) \/ \E r \in Rows : Replay(u, r)
         \/ Switch \/ UNCHANGED vars
  PROVE  Lane'
<1>1. ASSUME UNCHANGED << log, cursor, batch, last, event, missed >> PROVE Lane'
  BY <1>1, SameLane DEF StaySeen
<1>2. ASSUME NEW w \in Workers, Deliver(w) PROVE Lane'
  BY <1>1, <1>2, ResolveEffect, PostEffect, RecordEffect, CountEffect DEF Deliver
<1>3. ASSUME NEW w \in Workers, Dies(w) PROVE Lane'
  <2>1. /\ UNCHANGED << log, cursor, event, missed >> /\ batch'[w] = {} /\ last'[w] = 0
        /\ \A v \in Workers : v # w => batch'[v] = batch[v] /\ last'[v] = last[v]
    BY <1>3, DiesEffect
  <2> QED BY <2>1, SameLane DEF StaySeen, Workers
<1>4. ASSUME NEW t \in Ticks, Advance(t) PROVE Lane'
  <2>1. /\ UNCHANGED << log, event, missed, batch >> /\ last' = [last EXCEPT ![t] = 0]
        /\ cursor' \in {cursor} \cup { last[k] : k \in Ticks }
    BY <1>4 DEF Advance, table, ghosts
  <2>2. \A k \in Ticks : last'[k] \in {last[k], 0}
    BY <2>1 DEF TypeOK, Workers
  <2> QED BY <2>1, <2>2, SameLane DEF StaySeen
<1>5. ASSUME NEW t \in Ticks, List(t) \/ Retry(t) PROVE Lane'
  BY <1>1, <1>5 DEF List, Retry, table, ghosts
<1>6. ASSUME NEW u \in Users, Answer(u) PROVE Lane'
  BY <1>1, <1>6 DEF Answer, table, ghosts
<1>7. ASSUME NEW u \in Users, NEW r \in Rows, Replay(u, r) PROVE Lane'
  <2>1. event[r] \in Events /\ Create(u, event[r]) /\ u \in Workers
    BY <1>7, ReplayTypes DEF Hands, Workers
  <2> PICK q \in Rows : event[q] = 0 /\ \A p \in Rows : p # q => event'[p] = event[p]
    BY <2>1, CreateEffect DEF Hands
  <2>2. UNCHANGED << log, cursor, batch, last, missed >>
    BY <1>7 DEF Replay, ghosts
  <2> QED BY <2>2, SameLane DEF StaySeen
<1>8. CASE Switch
  BY <1>1, <1>8 DEF Switch, local, table, ghosts
<1>9. CASE UNCHANGED vars
  BY <1>1, <1>9 DEF vars, local, table, ghosts
<1> QED BY <1>2, <1>3, <1>4, <1>5, <1>6, <1>7, <1>8, <1>9

LEMMA StepLane == ASSUME TypeOK, Hands, Lane, [Next]_vars PROVE Lane'
<1>1. ASSUME NEW e \in Events, Publish(e) PROVE Lane'
  BY <1>1, PublishLane
<1>2. ASSUME NEW t \in Ticks, Begin(t) \/ Dispatch(t) PROVE Lane'
  BY <1>2, BeginLane, DispatchLane
<1> QED BY <1>1, <1>2, QuietLane DEF Next, Tick, Work

LEMMA StepInv == ASSUME IInv, [Next]_vars PROVE IInv'
<1>1. TypeOK /\ Hands /\ Lane /\ Calls
  BY DEF IInv, Hands, Lane, Calls
<1>2. TypeOK'
  BY <1>1, StepTypes DEF Hands
<1>3. Hands' /\ Lane' /\ Calls'
  BY <1>1, <1>2, StepHands, StepLane, StepCalls
<1> QED BY <1>2, <1>3 DEF IInv, Hands, Lane, Calls

\* The workers' hands, the table and the cursor stay related as IInv says, in
\* every behaviour of the delivery worker.
THEOREM Invariance == Spec => []IInv
<1>1. Init => IInv
  BY InitInv
<1>2. IInv /\ [Next]_vars => IInv'
  BY StepInv
<1> QED BY <1>1, <1>2, PTL DEF Spec

\* dispatchNewEvents: no event is passed over without a row or a name.
THEOREM NoneLeftOut == Spec => []EventsGetTheirRow
<1>1. IInv => EventsGetTheirRow
  BY DEF IInv
<1> QED BY <1>1, Invariance, PTL

\* deliverAttempt, nextRetryAt: a delivery that failed was tried MaxRetries times,
\* and no more often while nothing went wrong for it.
THEOREM Counting == Spec => []CallsAreCounted
<1>1. IInv => CallsAreCounted
  BY DEF IInv
<1> QED BY <1>1, Invariance, PTL

\* updateDeliveryAttempt: a success is overwritten only where two workers had the row.
THEOREM Success == Spec => SuccessStays
<1>1. ASSUME IInv, [Next]_vars
      PROVE  [\A r \in Rows : status[r] = "success" => status'[r] = "success" \/ r \in doubled']_vars
  <2> SUFFICES ASSUME Next, NEW r \in Rows, status[r] = "success", r \notin doubled'
               PROVE  status'[r] = "success"
    BY <1>1
  <2>1. TypeOK /\ Hands /\ TypeOK'
    BY <1>1, StepInv DEF IInv, Hands
  <2>2. ASSUME NEW w \in Workers, Deliver(w) PROVE status'[r] = "success"
    <3> DEFINE q == held[w].row
    <3>1. q \in Rows /\ doubled' = doubled /\ \A p \in Rows : p # q => status'[p] = status[p]
      BY <2>1, <2>2, ResolveEffect, PostEffect, RecordEffect, CountEffect DEF Deliver
    <3>2. CASE q = r
      <4>1. Shows(w, r)
        BY <2>1, <3>1, <3>2, ApartShows
      <4> QED BY <4>1 DEF Shows
    <3> QED BY <3>1, <3>2
  <2>3. ASSUME NEW w \in Workers, NEW e \in Events, Create(w, e) PROVE status'[r] = "success"
    <3> PICK q \in Rows : /\ status[q] = "none"
                          /\ \A p \in Rows : p # q => status'[p] = status[p]
      BY <2>1, <2>3, CreateEffect DEF Hands
    <3> QED OBVIOUS
  <2>4. ASSUME NEW t \in Ticks, Dispatch(t) PROVE status'[r] = "success"
    <3> PICK e \in batch[t] : Create(t, e) \/ UNCHANGED status
      BY <2>1, <2>4, DispatchEffect DEF Hands
    <3>1. t \in Workers /\ e \in Events
      BY <2>1 DEF Workers, TypeOK
    <3> QED BY <2>3, <3>1
  <2>5. ASSUME NEW u \in Users, NEW q \in Rows, Replay(u, q) PROVE status'[r] = "success"
    <3>1. u \in Workers /\ event[q] \in Events /\ Create(u, event[q])
      BY <2>1, <2>5, ReplayTypes DEF Hands, Workers
    <3> QED BY <2>3, <3>1
  <2>6. ASSUME UNCHANGED table PROVE status'[r] = "success"
    BY <2>6 DEF table
  <2>7. \A e \in Events : Publish(e) => UNCHANGED table
    BY DEF Publish
  <2>8. \A t \in Ticks : Begin(t) \/ Advance(t) \/ List(t) \/ Retry(t) => UNCHANGED table
    BY DEF Begin, Advance, List, Retry
  <2>9. \A w \in Workers : Dies(w) \/ Answer(w) => UNCHANGED table
    BY DEF Dies, Answer
  <2>10. Switch => UNCHANGED table
    BY DEF Switch
  <2> QED BY <2>2, <2>4, <2>5, <2>6, <2>7, <2>8, <2>9, <2>10 DEF Next, Tick, Work
<1> QED BY <1>1, Invariance, PTL DEF Spec, SuccessStays
==============================================================================
