----------------------------- MODULE MintLockProofs -----------------------------
(***************************************************************************)
(* For any mints, revokes and health checks, and any number of faults: the *)
(* sections take turns, a spent parent is presented only after a slip, and *)
(* a deleted one does not come back.                                       *)
(***************************************************************************)
EXTENDS MintLock, SequenceTheorems, TLAPS

-----------------------------------------------------------------------------
(* The queue.                                                              *)

Queues == { q \in Seq(Takers) : IsInjective(q) }

LEMMA Joins ==
  ASSUME NEW q \in Queues, NEW p \in Takers, ~ Contains(q, p)
  PROVE  /\ Append(q, p) \in Queues /\ Contains(Append(q, p), p) /\ Append(q, p) # << >>
         /\ \A r \in Takers : Contains(q, r) => Contains(Append(q, p), r)
<1>1. q \in Seq(Takers) /\ Len(q) \in Nat
  BY DEF Queues
<1>2. /\ Append(q, p) \in Seq(Takers) /\ Len(Append(q, p)) = Len(q) + 1
      /\ \A i \in 1 .. Len(q) : Append(q, p)[i] = q[i]
      /\ Append(q, p)[Len(q) + 1] = p
  BY <1>1, AppendProperties
<1>3. IsInjective(Append(q, p))
  BY <1>1, <1>2 DEF Queues, IsInjective, Contains
<1>4. Contains(Append(q, p), p) /\ \A r \in Takers : Contains(q, r) => Contains(Append(q, p), r)
  BY <1>1, <1>2 DEF Contains
<1> QED BY <1>1, <1>2, <1>3, <1>4 DEF Queues

LEMMA IsServed ==
  ASSUME NEW q \in Queues, q # << >>
  PROVE  /\ Head(q) \in Takers /\ Tail(q) \in Queues
         /\ \A r \in Takers : Contains(q, r) => r = Head(q) \/ Contains(Tail(q), r)
<1>1. q \in Seq(Takers) /\ Len(q) \in Nat \ {0}
  BY EmptySeq DEF Queues
<1>2. /\ Head(q) \in Takers /\ Head(q) = q[1] /\ Tail(q) \in Seq(Takers)
      /\ Len(Tail(q)) = Len(q) - 1 /\ \A i \in 1 .. Len(Tail(q)) : Tail(q)[i] = q[i + 1]
  BY <1>1, HeadTailProperties
<1>3. IsInjective(Tail(q))
  BY <1>1, <1>2 DEF Queues, IsInjective
<1>4. ASSUME NEW r \in Takers, Contains(q, r), r # Head(q) PROVE Contains(Tail(q), r)
  <2> PICK i \in 1 .. Len(q) : q[i] = r
    BY <1>4 DEF Contains
  <2>1. i - 1 \in 1 .. Len(Tail(q)) /\ (i - 1) + 1 = i
    BY <1>1, <1>2, <1>4
  <2> QED BY <1>2, <2>1 DEF Contains
<1> QED BY <1>2, <1>3, <1>4 DEF Queues

LEMMA GivesUp ==
  ASSUME NEW q \in Queues, NEW i \in 1 .. Len(q)
  PROVE  /\ RemoveAt(q, i) \in Queues
         /\ \A r \in Takers : Contains(q, r) => r = q[i] \/ Contains(RemoveAt(q, i), r)
<1> DEFINE a == SubSeq(q, 1, i - 1)
           b == SubSeq(q, i + 1, Len(q))
           n == Len(q)
<1>1. q \in Seq(Takers) /\ n \in Nat /\ i \in Nat /\ 1 <= i /\ i <= n
  BY DEF Queues
<1>2. a \in Seq(Takers) /\ Len(a) = i - 1 /\ \A j \in 1 .. i - 1 : a[j] = q[j]
  BY <1>1, SubSeqProperties
<1>3. b \in Seq(Takers) /\ Len(b) = n - i /\ \A j \in 1 .. n - i : b[j] = q[j + i]
  BY <1>1, SubSeqProperties
<1>4. /\ RemoveAt(q, i) \in Seq(Takers) /\ Len(RemoveAt(q, i)) = n - 1
      /\ \A j \in 1 .. n - 1 : RemoveAt(q, i)[j] = IF j < i THEN q[j] ELSE q[j + 1]
  <2>1. a \o b \in Seq(Takers) /\ Len(a \o b) = Len(a) + Len(b)
        /\ \A j \in 1 .. Len(a) + Len(b) :
             (a \o b)[j] = IF j <= Len(a) THEN a[j] ELSE b[j - Len(a)]
    BY <1>2, <1>3, ConcatProperties
  <2>2. RemoveAt(q, i) = a \o b
    BY DEF RemoveAt
  <2> HIDE DEF a, b, n
  <2> QED BY <1>1, <1>2, <1>3, <2>1, <2>2
<1> HIDE DEF a, b
<1>5. IsInjective(RemoveAt(q, i))
  <2>1. \A j, k \in 1 .. n : q[j] = q[k] => j = k
    BY <1>1 DEF Queues, IsInjective
  <2>2. \A j, k \in 1 .. n - 1 : RemoveAt(q, i)[j] = RemoveAt(q, i)[k] => j = k
    BY <1>1, <1>4, <2>1
  <2>3. DOMAIN RemoveAt(q, i) = 1 .. n - 1
    BY <1>4, LenProperties
  <2> QED BY <2>2, <2>3 DEF IsInjective
<1>6. ASSUME NEW r \in Takers, Contains(q, r), r # q[i] PROVE Contains(RemoveAt(q, i), r)
  <2> PICK j \in 1 .. n : q[j] = r
    BY <1>6 DEF Contains
  <2>1. CASE j < i
    <3>1. j \in 1 .. n - 1 /\ RemoveAt(q, i)[j] = r
      BY <1>1, <1>4, <2>1
    <3> QED BY <1>4, <3>1 DEF Contains
  <2>2. CASE ~ (j < i)
    <3>1. j - 1 \in 1 .. n - 1 /\ RemoveAt(q, i)[j - 1] = q[j]
      BY <1>1, <1>4, <1>6, <2>2
    <3> QED BY <1>4, <3>1 DEF Contains
  <2> QED BY <2>1, <2>2
<1> QED BY <1>4, <1>5, <1>6 DEF Queues

-----------------------------------------------------------------------------
(* Types, part by part.                                                    *)

Places == {"absent", "idle", "acquire", "parked", "leave"} \cup Section

QueueOK ==
  /\ holder \in Takers \cup {None} /\ lapsed \in BOOLEAN /\ armed \in BOOLEAN
  /\ holder = None => lapsed = FALSE /\ queue = << >>
  /\ queue \in Queues
  /\ \A p \in Takers : pc[p] = "parked" => Contains(queue, p)

FlagsOK ==
  /\ status \in {"active", "suspended", "revoked"} /\ granted \in BOOLEAN
  /\ slipped \in BOOLEAN /\ crossed \in BOOLEAN /\ lost \in BOOLEAN
  /\ reused \in BOOLEAN /\ swept \in BOOLEAN
  /\ faults \in 0 .. FaultBound

CopiesOK == seen \in [Procs -> Copies] /\ custody \in Copies

TypesOK ==
  /\ QueueOK /\ FlagsOK /\ CopiesOK
  /\ pc \in [Procs -> Places] /\ token \subseteq Takers

LEMMA TypeParts == TypeOK <=> TypesOK
<1>1. TypeOK => TypesOK
  BY DEF TypeOK, TypesOK, QueueOK, FlagsOK, CopiesOK, Queues, Places
<1>2. TypesOK => TypeOK
  BY DEF TypeOK, TypesOK, QueueOK, FlagsOK, CopiesOK, Queues, Places
<1> QED BY <1>1, <1>2

LEMMA Distinct ==
  /\ None \notin Takers /\ Takers \subseteq Procs /\ Checks \subseteq Procs
  /\ Takers \cap Checks = {} /\ \A p \in Procs : p \in Takers \/ p \in Checks
  /\ \A p \in Procs : Entry(p) \in {"read", "zeroize"} /\ Entry(p) \in Section \cap Places
BY MintLockAssumption DEF Takers, Procs, Entry, Section, Places

\* pc moves, and a crossing is remembered.
LEMMA PlaceEffect ==
  ASSUME TypesOK, NEW new \in [Procs -> Places], Place(new)
  PROVE  /\ pc' = new /\ crossed' \in BOOLEAN /\ (crossed = TRUE => crossed' = TRUE)
         /\ crossed' = FALSE => \A c \in Inside(new) \cap Checks : Inside(new) = {c}
<1>1. pc' = new
  BY DEF Place
<1>2. crossed' = (crossed \/ \E c \in Inside(new) \cap Checks : Inside(new) # {c})
  BY DEF Place
<1>3. CASE crossed \/ \E c \in Inside(new) \cap Checks : Inside(new) # {c}
  BY <1>1, <1>2, <1>3, Zenon
<1>4. CASE ~ (crossed \/ \E c \in Inside(new) \cap Checks : Inside(new) # {c})
  BY <1>1, <1>2, <1>4, Zenon
<1> QED BY <1>3, <1>4

LEMMA GoesEffect ==
  ASSUME TypesOK, NEW p \in Procs, NEW to \in Places, Goes(p, to)
  PROVE  /\ pc' \in [Procs -> Places] /\ pc'[p] = to
         /\ \A q \in Procs : q # p => pc'[q] = pc[q]
         /\ crossed' \in BOOLEAN /\ (crossed = TRUE => crossed' = TRUE)
         /\ crossed' = FALSE => \A c \in Inside(pc') \cap Checks : Inside(pc') = {c}
<1> DEFINE new == [pc EXCEPT ![p] = to]
<1>1. new \in [Procs -> Places] /\ Place(new)
  BY DEF Goes, TypesOK
<1>2. /\ pc' = new /\ crossed' \in BOOLEAN /\ (crossed = TRUE => crossed' = TRUE)
      /\ crossed' = FALSE => \A c \in Inside(new) \cap Checks : Inside(new) = {c}
  <2> HIDE DEF new
  <2> QED BY <1>1, PlaceEffect
<1> QED BY <1>1, <1>2 DEF TypesOK

\* The lock goes to the first waiter, whether it lives or not, or is free.
LEMMA GrantEffect ==
  ASSUME TypesOK, NEW done \in [Procs -> Places], NEW known \in SUBSET Takers,
         \A p \in Procs : done[p] = pc[p] \/ done[p] = "idle",
         GrantNext(done, known), armed' \in BOOLEAN
  PROVE  /\ pc' \in [Procs -> Places] /\ token' \subseteq Takers /\ known \subseteq token'
         /\ crossed' \in BOOLEAN /\ (crossed = TRUE => crossed' = TRUE)
         /\ crossed' = FALSE => \A c \in Inside(pc') \cap Checks : Inside(pc') = {c}
         /\ lapsed' = FALSE /\ QueueOK'
         /\ \A p \in Procs : \/ pc'[p] = done[p]
                             \/ /\ pc'[p] = Entry(p) /\ pc[p] = "parked"
                                /\ p \in Takers /\ p = holder' /\ p \in token'
<1>1. queue \in Queues /\ \A p \in Takers : pc[p] = "parked" => Contains(queue, p)
  BY DEF TypesOK, QueueOK
<1>2. CASE queue = << >>
  <2>1. /\ holder' = None /\ token' = known /\ Place(done) /\ queue' = queue /\ lapsed' = FALSE
    BY <1>2 DEF GrantNext
  <2>2. /\ pc' = done /\ crossed' \in BOOLEAN /\ (crossed = TRUE => crossed' = TRUE)
        /\ crossed' = FALSE => \A c \in Inside(done) \cap Checks : Inside(done) = {c}
    BY <2>1, PlaceEffect
  <2>3. \A p \in Takers : pc'[p] = "parked" => Contains(queue, p)
    BY <1>1, <2>2, Distinct
  <2> QED BY <1>1, <1>2, <2>1, <2>2, <2>3 DEF QueueOK
<1>3. CASE queue # << >>
  <2> DEFINE q == Head(queue)
             new == [done EXCEPT ![q] = Entry(q)]
  <2>1. /\ q \in Takers /\ q \in Procs /\ Tail(queue) \in Queues /\ q # None
        /\ \A r \in Takers : Contains(queue, r) => r = q \/ Contains(Tail(queue), r)
    BY <1>1, <1>3, IsServed, Distinct
  <2>2. /\ lapsed' = FALSE /\ holder' = q /\ queue' = Tail(queue)
        /\ IF pc[q] = "parked"
             THEN token' = known \cup {q} /\ Place(new)
             ELSE token' = known /\ Place(done)
    BY <1>3 DEF GrantNext
  <2>3. CASE pc[q] = "parked"
    <3>1. new \in [Procs -> Places] /\ Place(new)
      BY <2>1, <2>2, <2>3, Distinct
    <3>2. /\ new[q] = Entry(q) /\ Entry(q) # "parked"
          /\ \A p \in Procs : p # q => new[p] = done[p]
      BY <2>1, Distinct
    <3> HIDE DEF q, new
    <3>3. /\ pc' = new /\ crossed' \in BOOLEAN /\ (crossed = TRUE => crossed' = TRUE)
          /\ crossed' = FALSE => \A c \in Inside(new) \cap Checks : Inside(new) = {c}
      BY <3>1, PlaceEffect
    <3>4. \A p \in Takers : pc'[p] = "parked" => Contains(queue', p)
      BY <1>1, <2>1, <2>2, <3>2, <3>3, Distinct
    <3> QED BY <2>1, <2>2, <2>3, <3>1, <3>2, <3>3, <3>4 DEF QueueOK
  <2>4. CASE pc[q] # "parked"
    <3> HIDE DEF q, new
    <3>1. /\ pc' = done /\ crossed' \in BOOLEAN /\ (crossed = TRUE => crossed' = TRUE)
          /\ crossed' = FALSE => \A c \in Inside(done) \cap Checks : Inside(done) = {c}
      BY <2>2, <2>4, PlaceEffect
    <3>2. \A p \in Takers : pc'[p] = "parked" => Contains(queue', p)
      BY <1>1, <2>1, <2>2, <2>4, <3>1, Distinct
    <3> QED BY <2>1, <2>2, <2>4, <3>1, <3>2 DEF QueueOK
  <2> QED BY <2>3, <2>4
<1> QED BY <1>2, <1>3

-----------------------------------------------------------------------------
(* Turns and copies.                                                       *)

Held ==
  slipped = FALSE =>
    \A p \in Takers : pc[p] \in Section => p = holder /\ p \in token /\ lapsed = FALSE

One == slipped = FALSE /\ crossed = FALSE => \A p, q \in Inside(pc) : p = q

Fresh ==
  slipped = FALSE /\ crossed = FALSE /\ lost = FALSE =>
    /\ \A p \in Procs : pc[p] \in {"spend", "store"} => seen[p] = "fresh"
    /\ custody = "stale" => \E p \in Procs : pc[p] = "store"

InFlight ==
  swept = TRUE /\ slipped = FALSE /\ crossed = FALSE =>
    custody = "none" /\ \A p \in Procs : pc[p] \notin {"spend", "store"}

Reuse == reused = TRUE => slipped = TRUE \/ crossed = TRUE \/ lost = TRUE

Good == Held /\ One /\ Fresh /\ InFlight /\ Reuse

LEMMA GoodParts == IInv <=> TypesOK /\ Good
<1> USE Distinct
<1>1. ASSUME IInv PROVE TypesOK /\ Good
  <2>1. TypesOK
    BY <1>1, TypeParts DEF IInv
  <2>2. /\ slipped \in BOOLEAN /\ crossed \in BOOLEAN /\ lost \in BOOLEAN /\ reused \in BOOLEAN
        /\ swept \in BOOLEAN /\ lapsed \in BOOLEAN
    BY <2>1 DEF TypesOK, FlagsOK, QueueOK
  <2>3. Held
    BY <1>1, <2>2 DEF IInv, TurnsAreHeld, Held, Inside
  <2>4. One
    BY <1>1, <2>2 DEF IInv, OneInside, Clean, One
  <2>5. Fresh
    BY <1>1, <2>2 DEF IInv, CopiesAreFresh, Clean, Fresh
  <2>6. InFlight
    BY <1>1, <2>2 DEF IInv, NoneInFlight, ZeroizedStays, Clean, InFlight
  <2>7. Reuse
    BY <1>1, <2>2 DEF IInv, ReuseNeedsASlip, Reuse
  <2> QED BY <2>1, <2>3, <2>4, <2>5, <2>6, <2>7 DEF Good
<1>2. ASSUME TypesOK, Good PROVE IInv
  <2>1. TypeOK
    BY <1>2, TypeParts
  <2>2. /\ slipped \in BOOLEAN /\ crossed \in BOOLEAN /\ lost \in BOOLEAN /\ reused \in BOOLEAN
        /\ swept \in BOOLEAN /\ lapsed \in BOOLEAN
    BY <1>2 DEF TypesOK, FlagsOK, QueueOK
  <2>3. TurnsAreHeld /\ TurnsAreExclusive
    BY <1>2, <2>2 DEF Good, TurnsAreHeld, TurnsAreExclusive, Held, Inside
  <2>4. OneInside
    BY <1>2, <2>2 DEF Good, OneInside, Clean, One
  <2>5. CopiesAreFresh
    BY <1>2, <2>2 DEF Good, CopiesAreFresh, Clean, Fresh
  <2>6. NoneInFlight /\ ZeroizedStays
    BY <1>2, <2>2 DEF Good, NoneInFlight, ZeroizedStays, Clean, InFlight
  <2>7. ReuseNeedsASlip
    BY <1>2, <2>2 DEF Good, ReuseNeedsASlip, Reuse
  <2> QED BY <2>1, <2>3, <2>4, <2>5, <2>6, <2>7 DEF IInv
<1> QED BY <1>1, <1>2

\* A step at which no section begins, and those that go on keep their grant.
LEMMA KeepsTurn ==
  ASSUME Held, UNCHANGED << holder, lapsed >>, slipped = TRUE => slipped' = TRUE,
         slipped \in BOOLEAN,
         \A p \in Takers : pc'[p] \in Section => pc[p] \in Section /\ (p \in token => p \in token')
  PROVE  Held'
BY DEF Held

\* Two sections at once have crossed or slipped.
LEMMA TurnsAreOne ==
  ASSUME Held', crossed' = FALSE => \A c \in Inside(pc') \cap Checks : Inside(pc') = {c}
  PROVE  One'
BY Distinct DEF Held, One, Inside

\* A step that leaves the copies alone.
LEMMA SameCopies ==
  ASSUME TypesOK, TypesOK', Good, Held', UNCHANGED << custody, swept, reused >>,
         slipped = TRUE => slipped' = TRUE,
         crossed = TRUE => crossed' = TRUE, lost = TRUE => lost' = TRUE,
         \/ UNCHANGED << pc, crossed >>
         \/ crossed' = FALSE => \A c \in Inside(pc') \cap Checks : Inside(pc') = {c},
         \A q \in Procs : pc'[q] \in {"spend", "store"} => pc'[q] = pc[q] /\ seen'[q] = seen[q],
         \A q \in Procs : pc[q] = "store" => pc'[q] = "store" \/ lost' = TRUE
  PROVE  Good'
<1>1. /\ slipped' = FALSE => slipped = FALSE
      /\ crossed' = FALSE => crossed = FALSE
      /\ lost' = FALSE => lost = FALSE
  BY DEF TypesOK, FlagsOK
<1>2. One'
  <2>1. CASE UNCHANGED << pc, crossed >>
    BY <1>1, <2>1 DEF Good, One, Inside
  <2> QED BY <2>1, TurnsAreOne
<1>3. Fresh'
  BY <1>1 DEF Good, Fresh
<1>4. InFlight' /\ Reuse'
  BY <1>1 DEF Good, InFlight, Reuse
<1> QED BY <1>2, <1>3, <1>4 DEF Good

-----------------------------------------------------------------------------
(* The lock.                                                               *)

LEMMA Faults == ASSUME TypesOK, Fault PROVE faults' \in 0 .. FaultBound
BY MintLockAssumption DEF Fault, TypesOK, FlagsOK

\* The waiters' calls throw: those that go on have slipped.
LEMMA ThrowEffect ==
  ASSUME TypesOK, NEW done \in [Procs -> Places], WaitersThrow(done)
  PROVE  /\ queue' = << >> /\ queue' \in Queues /\ pc' \in [Procs -> Places]
         /\ \A r \in Procs : pc'[r] = IF done[r] = "parked" THEN Entry(r) ELSE done[r]
         /\ \A r \in Procs : pc'[r] # "parked"
         /\ crossed' \in BOOLEAN /\ (crossed = TRUE => crossed' = TRUE)
         /\ crossed' = FALSE => \A c \in Inside(pc') \cap Checks : Inside(pc') = {c}
         /\ slipped' \in BOOLEAN /\ (slipped = TRUE => slipped' = TRUE)
         /\ slipped' = TRUE \/ \A r \in Procs : done[r] # "parked"
<1> DEFINE new == [r \in Procs |-> IF done[r] = "parked" THEN Entry(r) ELSE done[r]]
<1>1. /\ queue' = << >> /\ Place(new)
      /\ slipped' = (slipped \/ \E r \in Procs : done[r] = "parked")
  BY DEF WaitersThrow
<1>2. /\ new \in [Procs -> Places]
      /\ \A r \in Procs : new[r] = IF done[r] = "parked" THEN Entry(r) ELSE done[r]
      /\ \A r \in Procs : new[r] # "parked"
  BY Distinct DEF TypesOK
<1> HIDE DEF new
<1>3. /\ pc' = new /\ crossed' \in BOOLEAN /\ (crossed = TRUE => crossed' = TRUE)
      /\ crossed' = FALSE => \A c \in Inside(new) \cap Checks : Inside(new) = {c}
  BY <1>1, <1>2, PlaceEffect
<1>4. /\ slipped' \in BOOLEAN /\ (slipped = TRUE => slipped' = TRUE)
      /\ slipped' = TRUE \/ \A r \in Procs : done[r] # "parked"
  <2>1. CASE slipped \/ \E r \in Procs : done[r] = "parked"
    BY <1>1, <2>1, Zenon
  <2>2. CASE ~ (slipped \/ \E r \in Procs : done[r] = "parked")
    BY <1>1, <2>2, Zenon
  <2> QED BY <2>1, <2>2
<1>5. << >> \in Queues
  BY DEF Queues, IsInjective
<1> QED BY <1>1, <1>2, <1>3, <1>4, <1>5

\* A new lease whose persist is cut short, while no section has the turn.
LEMMA CutStep ==
  ASSUME TypesOK, Good, NEW q \in Takers, NEW known \in SUBSET Takers,
         NEW done \in [Procs -> Places], Cut(q, done, known),
         \A r \in Procs : done[r] = pc[r] \/ done[r] \in {"idle", "parked"},
         \A r \in Procs : pc[r] = "store" => done[r] = "store",
         \A r \in Takers : pc[r] \in Section => slipped = TRUE,
         seen' \in [Procs -> Copies],
         \A r \in Procs : done[r] \in Section => seen'[r] = seen[r],
         UNCHANGED << conn, lost, reused, swept >>
  PROVE  TypesOK' /\ Good'
<1>1. /\ faults' \in 0 .. FaultBound /\ holder' = q /\ lapsed' = FALSE
      /\ armed' \in BOOLEAN /\ token' = known /\ WaitersThrow(done)
  BY Faults DEF Cut, TypesOK, QueueOK
<1>2. /\ queue' = << >> /\ queue' \in Queues /\ pc' \in [Procs -> Places]
      /\ \A r \in Procs : pc'[r] = IF done[r] = "parked" THEN Entry(r) ELSE done[r]
      /\ \A r \in Procs : pc'[r] # "parked"
      /\ crossed' \in BOOLEAN /\ (crossed = TRUE => crossed' = TRUE)
      /\ crossed' = FALSE => \A c \in Inside(pc') \cap Checks : Inside(pc') = {c}
      /\ slipped' \in BOOLEAN /\ (slipped = TRUE => slipped' = TRUE)
      /\ slipped' = TRUE \/ \A r \in Procs : done[r] # "parked"
  BY <1>1, ThrowEffect
<1>3. QueueOK'
  BY <1>1, <1>2, Distinct DEF QueueOK
<1>4. TypesOK'
  BY <1>1, <1>2, <1>3 DEF TypesOK, FlagsOK, CopiesOK, conn
<1>5. Held'
  BY <1>1, <1>2, Distinct DEF Held, Section, TypesOK, FlagsOK
<1> QED BY <1>1, <1>2, <1>4, <1>5, Distinct, SameCopies DEF conn, Section

LEMMA AcquireStep ==
  ASSUME TypesOK, Good, NEW p \in Takers, ~ Contains(queue, p), Acquire(p),
         pc[p] \in {"idle", "acquire"},
         UNCHANGED << seen, conn, slipped, lost, reused, swept, faults >>
  PROVE  TypesOK' /\ Good'
<1>0. p \in Procs /\ p # None /\ Entry(p) \in Section \cap Places /\ "parked" \in Places
      /\ Entry(p) \in {"read", "zeroize"} /\ p \notin Checks
  BY Distinct DEF Places
<1>1. CASE Free
  <2>1. /\ holder' = p /\ lapsed' = FALSE /\ armed' = TRUE /\ token' = token \cup {p} /\ queue' = queue
        /\ Goes(p, Entry(p))
    BY <1>1 DEF Acquire
  <2>2. /\ pc' \in [Procs -> Places] /\ pc'[p] = Entry(p)
        /\ \A q \in Procs : q # p => pc'[q] = pc[q]
        /\ crossed' \in BOOLEAN /\ (crossed = TRUE => crossed' = TRUE)
        /\ crossed' = FALSE => \A c \in Inside(pc') \cap Checks : Inside(pc') = {c}
    BY <1>0, <2>1, GoesEffect
  <2>3. TypesOK'
    BY <1>0, <2>1, <2>2, Distinct DEF TypesOK, QueueOK, FlagsOK, CopiesOK, conn
  <2>4. \A q \in Takers : pc[q] \in Section => slipped = TRUE
    BY <1>1, Distinct DEF Free, Good, Held, TypesOK, FlagsOK, QueueOK
  <2>5. Held'
    BY <2>1, <2>2, <2>4, Distinct DEF Held
  <2> QED BY <1>0, <2>1, <2>2, <2>3, <2>5, SameCopies DEF conn
<1>2. CASE ~ Free
  <2>1. /\ queue' = Append(queue, p) /\ UNCHANGED << holder, lapsed, armed, token >> /\ Goes(p, "parked")
    BY <1>2 DEF Acquire
  <2>2. /\ pc' \in [Procs -> Places] /\ pc'[p] = "parked"
        /\ \A q \in Procs : q # p => pc'[q] = pc[q]
        /\ crossed' \in BOOLEAN /\ (crossed = TRUE => crossed' = TRUE)
        /\ crossed' = FALSE => \A c \in Inside(pc') \cap Checks : Inside(pc') = {c}
    BY <1>0, <2>1, GoesEffect
  <2>3. /\ queue' \in Queues /\ Contains(queue', p) /\ holder # None
        /\ \A r \in Takers : Contains(queue, r) => Contains(queue', r)
    BY <1>2, <2>1, Joins DEF Free, TypesOK, QueueOK
  <2>4. TypesOK'
    BY <2>1, <2>2, <2>3, Distinct DEF TypesOK, QueueOK, FlagsOK, CopiesOK, conn
  <2>5. Held'
    BY <2>1, <2>2, KeepsTurn, Distinct DEF Good, TypesOK, FlagsOK, Section
  <2> QED BY <1>0, <2>1, <2>2, <2>4, <2>5, SameCopies DEF conn
<1> QED BY <1>1, <1>2

LEMMA AskStep ==
  ASSUME TypesOK, Good, NEW p \in Takers, Ask(p), pc[p] \in {"idle", "acquire"}
  PROVE  TypesOK' /\ Good'
<1> DEFINE done == [pc EXCEPT ![p] = "parked"]
<1>1. ~ Contains(queue, p) /\ UNCHANGED << seen, conn, lost, reused, swept >>
  BY DEF Ask
<1>2. CASE Acquire(p) /\ UNCHANGED << slipped, faults >>
  BY <1>1, <1>2, AcquireStep
<1>3. CASE Free /\ Cut(p, done, token)
  <2>1. /\ done \in [Procs -> Places] /\ token \in SUBSET Takers
        /\ \A r \in Procs : done[r] = IF r = p THEN "parked" ELSE pc[r]
    BY Distinct DEF TypesOK, Places
  <2>2. \A r \in Takers : pc[r] \in Section => slipped = TRUE
    BY <1>3, Distinct DEF Free, Good, Held, TypesOK, FlagsOK, QueueOK
  <2>3. seen' = seen /\ seen' \in [Procs -> Copies]
    BY <1>1 DEF TypesOK, CopiesOK
  <2> HIDE DEF done
  <2> QED BY <1>1, <1>3, <2>1, <2>2, <2>3, CutStep
<1> QED BY <1>1, <1>2, <1>3 DEF Ask

LEMMA LapseStep == ASSUME TypesOK, Good, Lapse PROVE TypesOK' /\ Good'
<1>1. /\ holder # None /\ lapsed' = TRUE
      /\ UNCHANGED << holder, armed, queue, pc, seen, token, custody, status, granted, crossed,
                      lost, reused, swept >>
      /\ IF holder \in token /\ pc[holder] \in Section
           THEN faults < FaultBound /\ faults' = faults + 1 /\ slipped' = TRUE
           ELSE UNCHANGED << slipped, faults >>
  BY DEF Lapse, Fault, request, conn
<1>2. TypesOK'
  <2>1. faults' \in 0 .. FaultBound /\ slipped' \in BOOLEAN
    <3>1. CASE faults < FaultBound /\ faults' = faults + 1 /\ slipped' = TRUE
      BY <3>1, MintLockAssumption DEF TypesOK, FlagsOK
    <3>2. CASE UNCHANGED << slipped, faults >>
      BY <3>2 DEF TypesOK, FlagsOK
    <3> QED BY <1>1, <3>1, <3>2
  <2>2. QueueOK'
    BY <1>1 DEF TypesOK, QueueOK
  <2> QED BY <1>1, <2>1, <2>2 DEF TypesOK, FlagsOK, CopiesOK
<1>3. slipped = TRUE => slipped' = TRUE
  BY <1>1
<1>4. Held'
  BY <1>1 DEF Good, Held, TypesOK, FlagsOK
<1> QED BY <1>1, <1>2, <1>3, <1>4, SameCopies

LEMMA AlarmStep == ASSUME TypesOK, Good, Alarm PROVE TypesOK' /\ Good'
<1>1. holder # None /\ lapsed = TRUE /\ UNCHANGED << seen, conn, lost, reused, swept >>
  BY DEF Alarm, TypesOK, QueueOK
<1>2. CASE GrantNext(pc, token) /\ armed' = (holder' # None) /\ UNCHANGED << slipped, faults >>
  <2>0. armed' \in BOOLEAN
    BY <1>2, Zenon
  <2>1. /\ pc' \in [Procs -> Places] /\ token' \subseteq Takers /\ token \subseteq token'
        /\ crossed' \in BOOLEAN /\ (crossed = TRUE => crossed' = TRUE)
        /\ crossed' = FALSE => \A c \in Inside(pc') \cap Checks : Inside(pc') = {c}
        /\ lapsed' = FALSE /\ QueueOK'
        /\ \A p \in Procs : \/ pc'[p] = pc[p]
                            \/ /\ pc'[p] = Entry(p) /\ pc[p] = "parked"
                               /\ p \in Takers /\ p = holder' /\ p \in token'
    BY <1>2, <2>0, GrantEffect DEF TypesOK
  <2>2. TypesOK'
    BY <1>1, <1>2, <2>1 DEF TypesOK, FlagsOK, CopiesOK, conn
  <2>3. Held'
    BY <1>1, <1>2, <2>1, Distinct DEF Good, Held
  <2> QED BY <1>1, <1>2, <2>1, <2>2, <2>3, Distinct, SameCopies DEF conn
<1>3. CASE queue # << >> /\ Cut(Head(queue), pc, token)
  <2>1. Head(queue) \in Takers /\ token \in SUBSET Takers /\ pc \in [Procs -> Places]
    BY <1>3, IsServed DEF TypesOK, QueueOK
  <2>2. \A r \in Takers : pc[r] \in Section => slipped = TRUE
    BY <1>1 DEF Good, Held, TypesOK, FlagsOK
  <2>3. seen' = seen /\ seen' \in [Procs -> Copies]
    BY <1>1 DEF TypesOK, CopiesOK
  <2> QED BY <1>1, <1>3, <2>1, <2>2, <2>3, CutStep
<1> QED BY <1>1, <1>2, <1>3 DEF Alarm

LEMMA LeaveStep == ASSUME TypesOK, Good, NEW p \in Procs, Leave(p) PROVE TypesOK' /\ Good'
<1> DEFINE done == [pc EXCEPT ![p] = "idle"]
<1>1. /\ pc[p] = "leave" /\ seen' = [seen EXCEPT ![p] = "none"]
      /\ UNCHANGED << conn, lost, reused, swept >>
  BY DEF Leave
<1>2. /\ done \in [Procs -> Places] /\ done[p] = "idle" /\ \A q \in Procs : q # p => done[q] = pc[q]
      /\ token \ {p} \in SUBSET Takers /\ CopiesOK'
      /\ \A q \in Procs : q # p => seen'[q] = seen[q]
  BY <1>1 DEF TypesOK, CopiesOK, Places, Copies, conn
<1>3. CASE holder = p /\ p \in token
  <2>0. \A q \in Takers : pc[q] \in Section => slipped = TRUE
    BY <1>1, <1>3 DEF Good, Held, TypesOK, FlagsOK, Section
  <2>1. CASE /\ GrantNext(done, token \ {p}) /\ armed' = (armed \/ holder' # None)
             /\ UNCHANGED << slipped, faults >>
    <3>0. armed' \in BOOLEAN
      BY <2>1, Zenon
    <3> HIDE DEF done
    <3>1. /\ pc' \in [Procs -> Places] /\ token' \subseteq Takers /\ token \ {p} \subseteq token'
          /\ crossed' \in BOOLEAN /\ (crossed = TRUE => crossed' = TRUE)
          /\ crossed' = FALSE => \A c \in Inside(pc') \cap Checks : Inside(pc') = {c}
          /\ lapsed' = FALSE /\ QueueOK'
          /\ \A q \in Procs : \/ pc'[q] = done[q]
                              \/ /\ pc'[q] = Entry(q) /\ pc[q] = "parked"
                                 /\ q \in Takers /\ q = holder' /\ q \in token'
      BY <1>2, <2>1, <3>0, GrantEffect
    <3>2. TypesOK'
      BY <1>1, <1>2, <2>1, <3>1 DEF TypesOK, FlagsOK, conn
    <3>3. pc'[p] = "idle"
      BY <1>1, <1>2, <3>1
    <3>4. Held'
      BY <1>1, <1>2, <2>0, <2>1, <3>1, <3>3, Distinct DEF Held, Section
    <3> QED BY <1>1, <1>2, <2>1, <3>1, <3>2, <3>3, <3>4, Distinct, SameCopies DEF conn
  <2>2. CASE queue # << >> /\ Cut(Head(queue), done, token \ {p})
    <3> HIDE DEF done
    <3>1. Head(queue) \in Takers /\ seen' \in [Procs -> Copies]
      BY <1>2, <2>2, IsServed DEF TypesOK, QueueOK, CopiesOK
    <3>2. /\ \A r \in Procs : done[r] = pc[r] \/ done[r] \in {"idle", "parked"}
          /\ \A r \in Procs : pc[r] = "store" => done[r] = "store"
          /\ \A r \in Procs : done[r] \in Section => seen'[r] = seen[r]
      BY <1>1, <1>2 DEF Section
    <3> QED BY <1>1, <1>2, <2>0, <2>2, <3>1, <3>2, CutStep
  <2> QED BY <1>3, <2>1, <2>2 DEF Leave
<1>4. CASE ~ (holder = p /\ p \in token)
  <2>1. /\ Goes(p, "idle") /\ token' = token \ {p}
        /\ UNCHANGED << holder, lapsed, armed, queue, slipped, faults >>
    BY <1>4 DEF Leave, lock
  <2>2. /\ pc' \in [Procs -> Places] /\ pc'[p] = "idle"
        /\ \A q \in Procs : q # p => pc'[q] = pc[q]
        /\ crossed' \in BOOLEAN /\ (crossed = TRUE => crossed' = TRUE)
        /\ crossed' = FALSE => \A c \in Inside(pc') \cap Checks : Inside(pc') = {c}
    BY <2>1, GoesEffect DEF Places
  <2>3. TypesOK'
    BY <1>1, <1>2, <2>1, <2>2, Distinct DEF TypesOK, QueueOK, FlagsOK, conn
  <2>4. Held'
    BY <1>1, <2>1, <2>2, KeepsTurn, Distinct DEF Good, TypesOK, FlagsOK, Section
  <2> QED BY <1>1, <1>2, <2>1, <2>2, <2>3, <2>4, SameCopies DEF conn, TypesOK, CopiesOK
<1> QED BY <1>3, <1>4

LEMMA IdleAlarmStep == ASSUME TypesOK, Good, IdleAlarm PROVE TypesOK' /\ Good'
<1>1. /\ armed' = FALSE
      /\ UNCHANGED << holder, lapsed, queue, pc, seen, token, custody, status, granted, slipped,
                      crossed, lost, reused, swept, faults >>
  BY DEF IdleAlarm, request, conn, ghosts
<1>2. TypesOK'
  BY <1>1 DEF TypesOK, QueueOK, FlagsOK, CopiesOK
<1>3. Held'
  BY <1>1 DEF Good, Held
<1> QED BY <1>1, <1>2, <1>3, SameCopies

LEMMA RestartStep == ASSUME TypesOK, Good, Restart PROVE TypesOK' /\ Good'
<1>1. /\ faults' \in 0 .. FaultBound /\ WaitersThrow(pc)
      /\ UNCHANGED << holder, lapsed, armed, seen, token, conn, lost, reused, swept >>
  BY Faults DEF Restart
<1>2. /\ queue' = << >> /\ queue' \in Queues /\ pc' \in [Procs -> Places]
      /\ \A r \in Procs : pc'[r] = IF pc[r] = "parked" THEN Entry(r) ELSE pc[r]
      /\ \A r \in Procs : pc'[r] # "parked"
      /\ crossed' \in BOOLEAN /\ (crossed = TRUE => crossed' = TRUE)
      /\ crossed' = FALSE => \A c \in Inside(pc') \cap Checks : Inside(pc') = {c}
      /\ slipped' \in BOOLEAN /\ (slipped = TRUE => slipped' = TRUE)
      /\ slipped' = TRUE \/ \A r \in Procs : pc[r] # "parked"
  BY <1>1, ThrowEffect DEF TypesOK
<1>3. QueueOK'
  BY <1>1, <1>2, Distinct DEF TypesOK, QueueOK
<1>4. TypesOK'
  BY <1>1, <1>2, <1>3 DEF TypesOK, FlagsOK, CopiesOK, conn
<1>5. Held'
  BY <1>1, <1>2, Distinct DEF Good, Held, TypesOK, FlagsOK
<1> QED BY <1>1, <1>2, <1>4, <1>5, Distinct, SameCopies DEF conn

-----------------------------------------------------------------------------
(* Requests.                                                               *)

LEMMA UnreachableStep ==
  ASSUME TypesOK, Good, NEW p \in Takers, Unreachable(p)
  PROVE  TypesOK' /\ Good'
<1>1. /\ pc[p] \in {"idle", "acquire", "parked"} /\ slipped' = TRUE /\ faults' \in 0 .. FaultBound
      /\ \/ UNCHANGED << holder, lapsed, armed >>
         \/ /\ Free /\ pc[p] # "parked"
            /\ holder' = p /\ lapsed' = FALSE /\ armed' = TRUE
      /\ Goes(p, Entry(p)) /\ UNCHANGED << queue, seen, token, conn, lost, reused, swept >>
  BY Faults DEF Unreachable
<1>2. p \in Procs /\ p # None /\ Entry(p) \in Places /\ Entry(p) \in {"read", "zeroize"}
  BY Distinct
<1>3. /\ pc' \in [Procs -> Places] /\ pc'[p] = Entry(p)
      /\ \A q \in Procs : q # p => pc'[q] = pc[q]
      /\ crossed' \in BOOLEAN /\ (crossed = TRUE => crossed' = TRUE)
      /\ crossed' = FALSE => \A c \in Inside(pc') \cap Checks : Inside(pc') = {c}
  BY <1>1, <1>2, GoesEffect
<1>4. TypesOK'
  <2>1. QueueOK'
    BY <1>1, <1>2, <1>3, Distinct DEF TypesOK, QueueOK
  <2> QED BY <1>1, <1>3, <2>1 DEF TypesOK, FlagsOK, CopiesOK, conn
<1>5. Held'
  BY <1>1 DEF Held
<1> QED BY <1>1, <1>2, <1>3, <1>4, <1>5, SameCopies DEF conn

LEMMA WaitEndsStep ==
  ASSUME TypesOK, Good, NEW p \in Takers, WaitEnds(p)
  PROVE  TypesOK' /\ Good'
<1>1. PICK i \in 1 .. Len(queue) : queue[i] = p /\ queue' = RemoveAt(queue, i)
  BY DEF WaitEnds
<1>2. /\ IF pc[p] # "parked"
           THEN UNCHANGED << pc, crossed, slipped >>
           ELSE /\ Goes(p, IF p \in Revokes THEN "zeroize" ELSE "idle")
                /\ slipped' = (slipped \/ p \in Revokes)
      /\ UNCHANGED << holder, lapsed, armed, seen, token, conn, lost, reused, swept, faults >>
  BY DEF WaitEnds
<1>3. /\ queue' \in Queues /\ queue # << >> /\ holder # None
      /\ \A r \in Takers : Contains(queue, r) => r = p \/ Contains(queue', r)
  <2>1. queue \in Queues
    BY DEF TypesOK, QueueOK
  <2>2. queue # << >>
    BY <1>1
  <2> QED BY <1>1, <2>1, <2>2, GivesUp DEF TypesOK, QueueOK
<1>4. CASE pc[p] # "parked"
  <2>1. UNCHANGED << pc, crossed, slipped >>
    BY <1>2, <1>4
  <2>2. TypesOK'
    <3>1. QueueOK'
      BY <1>2, <1>3, <1>4, <2>1 DEF TypesOK, QueueOK
    <3> QED BY <1>2, <2>1, <3>1 DEF TypesOK, FlagsOK, CopiesOK, conn
  <2>3. Held'
    BY <1>2, <2>1 DEF Good, Held
  <2> QED BY <1>2, <2>1, <2>2, <2>3, SameCopies DEF conn
<1>5. CASE pc[p] = "parked"
  <2> DEFINE to == IF p \in Revokes THEN "zeroize" ELSE "idle"
  <2>1. Goes(p, to) /\ slipped' = (slipped \/ p \in Revokes)
    BY <1>2, <1>5
  <2>2. p \in Procs /\ to \in Places /\ to \in {"zeroize", "idle"}
    BY Distinct DEF Places, Section
  <2>3. (slipped = TRUE => slipped' = TRUE) /\ slipped' \in BOOLEAN /\ (slipped' = TRUE \/ to = "idle")
    <3>1. CASE slipped \/ p \in Revokes
      BY <2>1, <3>1, Zenon
    <3>2. CASE ~ (slipped \/ p \in Revokes)
      BY <2>1, <3>2, Zenon
    <3> QED BY <3>1, <3>2
  <2> HIDE DEF to
  <2>4. /\ pc' \in [Procs -> Places] /\ pc'[p] = to
        /\ \A q \in Procs : q # p => pc'[q] = pc[q]
        /\ crossed' \in BOOLEAN /\ (crossed = TRUE => crossed' = TRUE)
        /\ crossed' = FALSE => \A c \in Inside(pc') \cap Checks : Inside(pc') = {c}
    BY <2>1, <2>2, GoesEffect
  <2>5. TypesOK'
    <3>1. QueueOK'
      BY <1>2, <1>3, <2>2, <2>4, Distinct DEF TypesOK, QueueOK
    <3> QED BY <1>2, <2>3, <2>4, <3>1 DEF TypesOK, FlagsOK, CopiesOK, conn
  <2>6. Held'
    BY <1>2, <2>2, <2>3, <2>4, Distinct DEF Good, Held, Section, TypesOK, FlagsOK
  <2> QED BY <1>2, <1>5, <2>2, <2>3, <2>4, <2>5, <2>6, SameCopies DEF conn
<1> QED BY <1>4, <1>5

\* A place moves outside the sections, or into one without a lock.
LEMMA OtherSteps ==
  ASSUME TypesOK, Good, NEW p \in Procs, NEW to \in {"idle", "acquire", "read"}, Goes(p, to),
         to = "read" => p \in Checks,
         UNCHANGED << lock, custody, slipped, reused, swept >>,
         pc[p] = "store" => lost' = TRUE, lost = TRUE => lost' = TRUE, lost' \in BOOLEAN,
         seen' \in {seen, [seen EXCEPT ![p] = "none"]}, token' \in {token, token \ {p}},
         status' \in {"active", "suspended", "revoked"}, granted' = granted,
         faults' \in 0 .. FaultBound
  PROVE  TypesOK' /\ Good'
<1>1. to \in Places
  BY DEF Places, Section
<1>2. /\ pc' \in [Procs -> Places] /\ pc'[p] = to
      /\ \A q \in Procs : q # p => pc'[q] = pc[q]
      /\ crossed' \in BOOLEAN /\ (crossed = TRUE => crossed' = TRUE)
      /\ crossed' = FALSE => \A c \in Inside(pc') \cap Checks : Inside(pc') = {c}
  BY <1>1, GoesEffect
<1>3. UNCHANGED << holder, lapsed, armed, queue >>
  BY DEF lock
<1>4. CopiesOK' /\ \A q \in Procs : q # p => seen'[q] = seen[q]
  BY DEF TypesOK, CopiesOK, Copies
<1>5. TypesOK'
  <2>1. QueueOK'
    BY <1>2, <1>3, Distinct DEF TypesOK, QueueOK
  <2> QED BY <1>2, <1>4, <2>1 DEF TypesOK, FlagsOK
<1>6. Held'
  BY <1>2, <1>3, Distinct DEF Good, Held, Section
<1> QED BY <1>2, <1>4, <1>5, <1>6, SameCopies

-----------------------------------------------------------------------------
(* Sections.                                                               *)

\* A section goes from place to place with its turn.
LEMMA SectionGoes ==
  ASSUME TypesOK, Good, NEW p \in Procs, pc[p] \in Section,
         NEW to \in {"spend", "store", "leave"}, Goes(p, to),
         UNCHANGED << lock, token, slipped >>
  PROVE  /\ pc' \in [Procs -> Places] /\ pc'[p] = to
         /\ \A q \in Procs : q # p => pc'[q] = pc[q]
         /\ crossed' \in BOOLEAN /\ QueueOK' /\ Held' /\ One'
         /\ crossed' = FALSE => crossed = FALSE
         /\ slipped = FALSE /\ crossed = FALSE =>
              \A q \in Procs : q # p => pc[q] \notin Section /\ pc'[q] \notin Section
<1>1. to \in Places
  BY DEF Places, Section
<1>2. /\ pc' \in [Procs -> Places] /\ pc'[p] = to
      /\ \A q \in Procs : q # p => pc'[q] = pc[q]
      /\ crossed' \in BOOLEAN /\ (crossed = TRUE => crossed' = TRUE)
      /\ crossed' = FALSE => \A c \in Inside(pc') \cap Checks : Inside(pc') = {c}
  BY <1>1, GoesEffect
<1>3. UNCHANGED << holder, lapsed, armed, queue >>
  BY DEF lock
<1>4. QueueOK'
  BY <1>2, <1>3, Distinct DEF TypesOK, QueueOK
<1>5. Held'
  <2>1. \A q \in Takers : pc'[q] \in Section => pc[q] \in Section
    BY <1>2, Distinct
  <2>2. Held /\ slipped \in BOOLEAN /\ token' = token /\ slipped' = slipped
    BY DEF Good, TypesOK, FlagsOK
  <2> QED BY <1>3, <2>1, <2>2, KeepsTurn
<1>6. One'
  BY <1>2, <1>5, TurnsAreOne
<1>7. slipped = FALSE /\ crossed = FALSE => \A q \in Procs : q # p => pc[q] \notin Section
  BY DEF Good, One, Inside
<1> QED BY <1>2, <1>4, <1>5, <1>6, <1>7 DEF TypesOK, FlagsOK

LEMMA ReadStep == ASSUME TypesOK, Good, NEW p \in Procs, ReadParent(p) PROVE TypesOK' /\ Good'
<1> DEFINE to == IF custody = "none" THEN "leave" ELSE "spend"
<1>1. /\ pc[p] = "read" /\ pc[p] \in Section /\ seen' = [seen EXCEPT ![p] = custody] /\ Goes(p, to)
      /\ UNCHANGED << lock, token, custody, status, granted, slipped, lost, reused, swept, faults >>
      /\ to \in {"spend", "store", "leave"}
  BY DEF ReadParent, Section, conn
<1> HIDE DEF to
<1>2. /\ pc' \in [Procs -> Places] /\ pc'[p] = to
      /\ \A q \in Procs : q # p => pc'[q] = pc[q]
      /\ crossed' \in BOOLEAN /\ QueueOK' /\ Held' /\ One'
      /\ crossed' = FALSE => crossed = FALSE
      /\ slipped = FALSE /\ crossed = FALSE =>
           \A q \in Procs : q # p => pc[q] \notin Section /\ pc'[q] \notin Section
  BY <1>1, SectionGoes
<1>3. /\ seen' \in [Procs -> Copies] /\ seen'[p] = custody /\ custody \in Copies
      /\ to = IF custody = "none" THEN "leave" ELSE "spend"
  BY <1>1 DEF TypesOK, CopiesOK, to
<1>4. TypesOK'
  BY <1>1, <1>2, <1>3 DEF TypesOK, FlagsOK, CopiesOK
<1>5. Fresh'
  <2> SUFFICES ASSUME slipped = FALSE, crossed = FALSE, lost = FALSE
               PROVE  /\ \A q \in Procs : pc'[q] \in {"spend", "store"} => seen'[q] = "fresh"
                      /\ custody = "stale" => \E q \in Procs : pc'[q] = "store"
    BY <1>1, <1>2 DEF Fresh
  <2>1. \A q \in Procs : q # p => pc[q] \notin Section /\ pc'[q] \notin Section
    BY <1>2
  <2>2. custody # "stale"
    BY <1>1, <2>1 DEF Good, Fresh, Section
  <2> QED BY <1>2, <1>3, <2>1, <2>2 DEF Copies, Section
<1>6. InFlight' /\ Reuse'
  BY <1>1, <1>2, <1>3 DEF Good, InFlight, Reuse, Section
<1> QED BY <1>2, <1>4, <1>5, <1>6 DEF Good

LEMMA SpendStep == ASSUME TypesOK, Good, NEW p \in Procs, Spend(p) PROVE TypesOK' /\ Good'
<1>1. /\ pc[p] = "spend" /\ pc[p] \in Section
      /\ UNCHANGED << lock, token, granted, slipped, lost, swept, faults >>
  BY DEF Spend, Section
<1>2. ASSUME NEW to \in {"spend", "store", "leave"}, Goes(p, to)
      PROVE  /\ pc' \in [Procs -> Places] /\ pc'[p] = to
             /\ \A q \in Procs : q # p => pc'[q] = pc[q]
             /\ crossed' \in BOOLEAN /\ QueueOK' /\ Held' /\ One'
             /\ crossed' = FALSE => crossed = FALSE
             /\ slipped = FALSE /\ crossed = FALSE =>
                  \A q \in Procs : q # p => pc[q] \notin Section /\ pc'[q] \notin Section
  BY <1>1, <1>2, SectionGoes
<1>3. CASE granted /\ seen[p] = "fresh"
  <2>1. /\ seen' = [q \in Procs |-> IF q # p /\ seen[q] = "fresh" THEN "stale" ELSE seen[q]]
        /\ custody' = IF custody = "fresh" THEN "stale" ELSE custody
        /\ Goes(p, "store") /\ UNCHANGED << status, reused >>
    BY <1>3 DEF Spend
  <2>2. /\ pc' \in [Procs -> Places] /\ pc'[p] = "store"
        /\ crossed' \in BOOLEAN /\ QueueOK' /\ Held' /\ One'
        /\ crossed' = FALSE => crossed = FALSE
        /\ slipped = FALSE /\ crossed = FALSE =>
             \A q \in Procs : q # p => pc'[q] \notin Section
    BY <1>2, <2>1
  <2>3. CopiesOK' /\ seen'[p] = "fresh"
    BY <1>3, <2>1 DEF TypesOK, CopiesOK, Copies
  <2>4. TypesOK'
    BY <1>1, <2>1, <2>2, <2>3 DEF TypesOK, FlagsOK
  <2>5. Fresh'
    BY <1>1, <2>2, <2>3 DEF Fresh, Section
  <2>6. InFlight' /\ Reuse'
    BY <1>1, <2>1, <2>2 DEF Good, InFlight, Reuse, TypesOK, FlagsOK
  <2> QED BY <2>2, <2>4, <2>5, <2>6 DEF Good
<1>4. CASE ~ (granted /\ seen[p] = "fresh")
  <2>1. /\ reused' = (reused \/ seen[p] = "stale")
        /\ status' \in {"suspended", status} /\ Goes(p, "leave") /\ UNCHANGED << seen, custody >>
    BY <1>4 DEF Spend
  <2>2. /\ pc' \in [Procs -> Places] /\ pc'[p] = "leave"
        /\ \A q \in Procs : q # p => pc'[q] = pc[q]
        /\ crossed' \in BOOLEAN /\ QueueOK' /\ Held' /\ One'
        /\ crossed' = FALSE => crossed = FALSE
    BY <1>2, <2>1
  <2>3. /\ reused' \in BOOLEAN /\ reused' = TRUE => reused = TRUE \/ seen[p] = "stale"
    <3>1. CASE reused \/ seen[p] = "stale"
      BY <2>1, <3>1, Zenon DEF TypesOK, FlagsOK
    <3>2. CASE ~ (reused \/ seen[p] = "stale")
      BY <2>1, <3>2, Zenon
    <3> QED BY <3>1, <3>2 DEF TypesOK, FlagsOK
  <2>4. TypesOK'
    <3>1. reused' \in BOOLEAN
      BY <2>1, Zenon
    <3> QED BY <1>1, <2>1, <2>2, <3>1 DEF TypesOK, FlagsOK, CopiesOK
  <2>5. Fresh'
    BY <1>1, <2>1, <2>2 DEF Good, Fresh
  <2>6. InFlight'
    BY <1>1, <2>1, <2>2 DEF Good, InFlight
  <2>7. Reuse'
    BY <1>1, <2>2, <2>3 DEF Good, Reuse, Fresh, TypesOK, FlagsOK
  <2> QED BY <2>2, <2>4, <2>5, <2>6, <2>7 DEF Good
<1> QED BY <1>3, <1>4

LEMMA StoreStep == ASSUME TypesOK, Good, NEW p \in Procs, Store(p) PROVE TypesOK' /\ Good'
<1>1. /\ pc[p] = "store" /\ pc[p] \in Section /\ Goes(p, "leave")
      /\ \/ custody' = seen[p] /\ UNCHANGED << lost, faults >>
         \/ faults' \in 0 .. FaultBound /\ lost' = TRUE /\ UNCHANGED custody
      /\ UNCHANGED << lock, seen, token, status, granted, slipped, reused, swept >>
  BY Faults DEF Store, Section
<1>2. /\ pc' \in [Procs -> Places] /\ pc'[p] = "leave"
      /\ \A q \in Procs : q # p => pc'[q] = pc[q]
      /\ crossed' \in BOOLEAN /\ QueueOK' /\ Held' /\ One'
      /\ crossed' = FALSE => crossed = FALSE
  BY <1>1, SectionGoes
<1>3. TypesOK'
  BY <1>1, <1>2 DEF TypesOK, FlagsOK, CopiesOK
<1>4. Fresh'
  BY <1>1, <1>2 DEF Good, Fresh
<1>5. InFlight' /\ Reuse'
  BY <1>1, <1>2 DEF Good, InFlight, Reuse, TypesOK, FlagsOK
<1> QED BY <1>2, <1>3, <1>4, <1>5 DEF Good

LEMMA ZeroizeStep == ASSUME TypesOK, Good, NEW p \in Procs, Zeroize(p) PROVE TypesOK' /\ Good'
<1>1. /\ pc[p] = "zeroize" /\ pc[p] \in Section /\ Goes(p, "leave") /\ custody' = "none"
      /\ swept' = TRUE
      /\ UNCHANGED << lock, seen, token, status, granted, slipped, lost, reused, faults >>
  BY DEF Zeroize, Section
<1>2. /\ pc' \in [Procs -> Places] /\ pc'[p] = "leave"
      /\ \A q \in Procs : q # p => pc'[q] = pc[q]
      /\ crossed' \in BOOLEAN /\ QueueOK' /\ Held' /\ One'
      /\ crossed' = FALSE => crossed = FALSE
      /\ slipped = FALSE /\ crossed = FALSE =>
           \A q \in Procs : q # p => pc[q] \notin Section /\ pc'[q] \notin Section
  BY <1>1, SectionGoes
<1>3. TypesOK'
  BY <1>1, <1>2 DEF TypesOK, FlagsOK, CopiesOK, Copies
<1>4. Fresh'
  BY <1>1, <1>2 DEF Good, Fresh
<1>5. InFlight' /\ Reuse'
  BY <1>1, <1>2 DEF Good, InFlight, Reuse, Section
<1> QED BY <1>2, <1>3, <1>4, <1>5 DEF Good

-----------------------------------------------------------------------------
(* The theorems.                                                           *)

LEMMA InitInv == Init => IInv
<1> SUFFICES ASSUME Init PROVE TypesOK /\ Good
  BY GoodParts
<1>1. << >> \in Queues
  BY DEF Queues, IsInjective
<1>2. QueueOK
  BY <1>1, Distinct DEF Init, QueueOK
<1>3. FlagsOK /\ CopiesOK
  <2>1. faults \in 0 .. FaultBound
    <3>1. PICK crowd \in Crowds : faults = FaultBound - crowd.faults
      BY DEF Init
    <3>2. crowd.faults \in 0 .. FaultBound
      BY MintLockAssumption
    <3> QED BY <3>1, <3>2, MintLockAssumption
  <2> QED BY <2>1 DEF Init, FlagsOK, CopiesOK, Copies
<1>4. TypesOK
  BY <1>2, <1>3 DEF Init, TypesOK, Places
<1>5. Good
  BY Distinct DEF Init, Good, Held, One, Fresh, InFlight, Reuse, Inside, Section
<1> QED BY <1>4, <1>5

LEMMA StepGood == ASSUME TypesOK, Good, [Next]_vars PROVE TypesOK' /\ Good'
<1> USE Distinct
<1>1. ASSUME NEW p \in Mints, StartMint(p) PROVE TypesOK' /\ Good'
  BY <1>1, AskStep DEF StartMint, Takers
<1>2. ASSUME NEW p \in Revokes, AskRevoke(p) PROVE TypesOK' /\ Good'
  BY <1>2, AskStep DEF AskRevoke, Takers
<1>3. ASSUME NEW p \in Revokes, StartRevoke(p) PROVE TypesOK' /\ Good'
  <2>1. p \in Procs /\ pc[p] = "idle" /\ Goes(p, "acquire") /\ status' = "revoked"
        /\ UNCHANGED << lock, seen, token, custody, granted, slipped, lost, reused, swept, faults >>
    BY <1>3 DEF StartRevoke, Takers
  <2> QED BY <2>1, OtherSteps DEF TypesOK, FlagsOK
<1>4. ASSUME NEW p \in Checks, StartCheck(p) PROVE TypesOK' /\ Good'
  <2>1. p \in Procs /\ pc[p] = "idle" /\ Goes(p, "read")
        /\ UNCHANGED << lock, seen, token, conn, slipped, lost, reused, swept, faults >>
    BY <1>4 DEF StartCheck
  <2> QED BY <2>1, OtherSteps DEF TypesOK, FlagsOK, conn
<1>5. ASSUME NEW p \in Procs, Dies(p) PROVE TypesOK' /\ Good'
  <2>1. /\ faults' \in 0 .. FaultBound /\ Goes(p, "idle") /\ lost' = (lost \/ pc[p] = "store")
        /\ seen' = [seen EXCEPT ![p] = "none"] /\ token' = token \ {p}
        /\ UNCHANGED << lock, conn, slipped, reused, swept >>
    BY <1>5, Faults DEF Dies
  <2>2. lost' \in BOOLEAN /\ (lost = TRUE => lost' = TRUE) /\ (pc[p] = "store" => lost' = TRUE)
    <3>1. CASE lost \/ pc[p] = "store"
      BY <2>1, <3>1, Zenon
    <3>2. CASE ~ (lost \/ pc[p] = "store")
      BY <2>1, <3>2, Zenon
    <3> QED BY <3>1, <3>2
  <2> QED BY <2>1, <2>2, OtherSteps DEF TypesOK, FlagsOK, conn
<1>6. ASSUME NEW p \in Takers, Unreachable(p) \/ WaitEnds(p) PROVE TypesOK' /\ Good'
  BY <1>6, UnreachableStep, WaitEndsStep
<1>7. ASSUME NEW p \in Procs, Works(p) PROVE TypesOK' /\ Good'
  BY <1>7, ReadStep, SpendStep, StoreStep, ZeroizeStep, LeaveStep DEF Works
<1>8. ASSUME UNCHANGED << lock, request, custody, status, ghosts >>,
             granted' \in BOOLEAN, faults' \in 0 .. FaultBound
      PROVE  TypesOK' /\ Good'
  <2>1. TypesOK'
    BY <1>8 DEF lock, request, ghosts, TypesOK, QueueOK, FlagsOK, CopiesOK
  <2>2. Held'
    BY <1>8 DEF lock, request, ghosts, Good, Held
  <2> QED BY <1>8, <2>1, <2>2, SameCopies DEF lock, request, ghosts
<1>9. CASE Withdraw
  <2>1. faults' \in 0 .. FaultBound /\ granted' \in BOOLEAN
        /\ UNCHANGED << lock, request, custody, status, ghosts >>
    BY <1>9, Faults DEF Withdraw
  <2> QED BY <1>8, <2>1
<1>10. CASE UNCHANGED vars
  BY <1>8, <1>10 DEF vars, conn, TypesOK, FlagsOK
<1> QED BY <1>1, <1>2, <1>3, <1>4, <1>5, <1>6, <1>7, <1>9, <1>10, LapseStep, AlarmStep,
        IdleAlarmStep, RestartStep
     DEF Next

\* The lock, the turns of the sections and the copies of the parent stay related
\* as IInv says.
THEOREM Invariance == Spec => []IInv
<1>1. Init => IInv
  BY InitInv
<1>2. IInv /\ [Next]_vars => IInv'
  <2>1. ASSUME IInv, [Next]_vars PROVE (TypesOK /\ Good)'
    BY <2>1, GoodParts, StepGood
  <2> QED BY <2>1, GoodParts, PTL
<1> QED BY <1>1, <1>2, PTL DEF Spec

\* MintLockCore: sections whose turn did not slip exclude each other.
THEOREM Turns == Spec => []TurnsAreExclusive
<1>1. IInv => TurnsAreExclusive
  BY DEF IInv
<1> QED BY <1>1, Invariance, PTL

\* The mint section: a spent parent is presented only after a slip, beside a
\* health check, or when a rotated one was lost.
THEOREM NoReuse == Spec => []ReuseNeedsASlip
<1>1. IInv => ReuseNeedsASlip
  BY DEF IInv
<1> QED BY <1>1, Invariance, PTL

\* custodySweep: what it deleted no mint stores again.
THEOREM StaysDeleted == Spec => []ZeroizedStays
<1>1. IInv => ZeroizedStays
  BY DEF IInv
<1> QED BY <1>1, Invariance, PTL
==============================================================================
