-------------------------- MODULE ShardStoreProofs --------------------------
(***************************************************************************)
(* Theorems about ShardStore, for every plan, batch size, snapshot         *)
(* interval and old log, and however long the stream grows, when the       *)
(* writes of an append become durable together.                            *)
(*                                                                         *)
(* The fold of a stream is a recursion over its events.  Facts about it    *)
(* are proved by induction over a set of numbers (SetInduction), which     *)
(* the least-element principle of WellFoundedInduction gives.              *)
(***************************************************************************)
EXTENDS ShardStore, SequenceTheorems, FiniteSetTheorems, WellFoundedInduction, TLAPS

-----------------------------------------------------------------------------
(* Induction over numbers.                                                 *)

LEMMA SetInduction ==
  ASSUME NEW S, 0 \in S, \A n \in Nat : n \in S => n + 1 \in S
  PROVE  \A n \in Nat : n \in S
<1> DEFINE R == OpToRel(<, Nat)
           T == Nat \ S
<1> SUFFICES ASSUME T # {} PROVE FALSE
  OBVIOUS
<1>1. IsWellFoundedOn(R, Nat)
  BY NatLessThanWellFounded
<1>2. \A x, y \in Nat : << y, x >> \in R <=> y < x
  BY DEF OpToRel
<1> HIDE DEF R
<1>3. PICK x \in T : \A y \in T : ~ (<< y, x >> \in R)
  <2>1. T \subseteq Nat
    OBVIOUS
  <2> HIDE DEF T
  <2> QED BY <1>1, <2>1, WFMin
<1>4. x # 0 /\ x - 1 \in Nat
  OBVIOUS
<1>5. x - 1 \notin T
  <2>1. x \in Nat /\ x - 1 < x
    BY <1>3
  <2>2. << x - 1, x >> \in R
    BY <1>2, <1>4, <2>1
  <2> QED BY <1>3, <2>2
<1>6. x - 1 \in S
  BY <1>4, <1>5
<1> QED BY <1>3, <1>4, <1>6

LEMMA Upto ==
  ASSUME NEW n \in Nat
  PROVE  /\ (1 .. (n + 1)) \ {n + 1} = 1 .. n
         /\ 1 .. (n + 1) # {}
         /\ \A m \in Nat : n <= m => 1 .. n \in SUBSET (1 .. m)
<1>1. \A x : x \in 1 .. n => x \in (1 .. (n + 1)) \ {n + 1}
  OBVIOUS
<1>2. \A x : x \in (1 .. (n + 1)) \ {n + 1} => x \in 1 .. n
  OBVIOUS
<1>3. ASSUME NEW m \in Nat, n <= m PROVE 1 .. n \in SUBSET (1 .. m)
  BY <1>3
<1>4. n + 1 \in 1 .. (n + 1)
  OBVIOUS
<1> QED BY <1>1, <1>2, <1>3, <1>4

LEMMA MaxIs ==
  ASSUME NEW n \in Nat, NEW s \in SUBSET (1 .. n), n \in s
  PROVE  Max(s) = n
<1>1. \A x \in s : (\A y \in s : x >= y) <=> x = n
  OBVIOUS
<1>2. \E x \in s : \A y \in s : x >= y
  BY <1>1
<1>3. Max(s) \in s /\ \A y \in s : Max(s) >= y
  BY <1>2, Zenon DEF Max
<1> QED BY <1>1, <1>3

-----------------------------------------------------------------------------
(* The two folds of the module, of events and of writes.                   *)

Step(fold, x, e) == IF fold = "reduce" THEN Apply(x, e) ELSE Written(x, e)

\* The recursion behind FoldLeft, over the subsets of a sequence's indices.
Unfolds(fold, base, seq, k, g) ==
  g = [s \in SUBSET (1 .. k) |->
         IF s = {} THEN base ELSE Step(fold, g[s \ {Max(s)}], seq[Max(s)])]

\* The recursion has a solution.
LEMMA FoldExists ==
  ASSUME NEW fold, NEW base, NEW seq
  PROVE  \A k \in Nat : \E g : Unfolds(fold, base, seq, k, g)
<1> DEFINE S == {k \in Nat : \E g : Unfolds(fold, base, seq, k, g)}
<1>1. 0 \in S
  <2> DEFINE G == [s \in SUBSET (1 .. 0) |-> base]
  <2>1. \A s \in SUBSET (1 .. 0) : s = {}
    OBVIOUS
  <2>2. Unfolds(fold, base, seq, 0, G)
    BY <2>1 DEF Unfolds
  <2> QED BY <2>2
<1>2. ASSUME NEW k \in Nat, k \in S PROVE k + 1 \in S
  <2>1. PICK g : Unfolds(fold, base, seq, k, g)
    BY <1>2
  <2> DEFINE G == [s \in SUBSET (1 .. (k + 1)) |->
                     IF k + 1 \in s THEN Step(fold, g[s \ {k + 1}], seq[k + 1]) ELSE g[s]]
  <2>2. \A s \in SUBSET (1 .. k) : G[s] = g[s] /\ s \in SUBSET (1 .. (k + 1))
    OBVIOUS
  <2>3. ASSUME NEW s \in SUBSET (1 .. (k + 1))
        PROVE G[s] = IF s = {} THEN base ELSE Step(fold, G[s \ {Max(s)}], seq[Max(s)])
    <3>1. CASE k + 1 \in s
      <4>1. Max(s) = k + 1
        BY <3>1, MaxIs
      <4>2. s \ {k + 1} \in SUBSET (1 .. k)
        OBVIOUS
      <4>3. G[s \ {k + 1}] = g[s \ {k + 1}]
        BY <2>2, <4>2
      <4> QED BY <3>1, <4>1, <4>3
    <3>2. CASE k + 1 \notin s
      <4>1. s \in SUBSET (1 .. k)
        BY <3>2
      <4>2. s \ {Max(s)} \in SUBSET (1 .. k)
        BY <4>1
      <4>3. g[s] = IF s = {} THEN base ELSE Step(fold, g[s \ {Max(s)}], seq[Max(s)])
        BY <2>1, <4>1 DEF Unfolds
      <4> HIDE DEF G
      <4> QED BY <2>2, <4>1, <4>2, <4>3
    <3> QED BY <3>1, <3>2
  <2>4. DOMAIN G = SUBSET (1 .. (k + 1)) /\ G = [s \in DOMAIN G |-> G[s]]
    OBVIOUS
  <2> HIDE DEF G
  <2>5. Unfolds(fold, base, seq, k + 1, G)
    BY <2>3, <2>4 DEF Unfolds
  <2> QED BY <2>5
<1> HIDE DEF S
<1>3. \A k \in Nat : k \in S
  BY <1>1, <1>2, SetInduction
<1> QED BY <1>3 DEF S

\* h goes from the base one element at a time.
Follows(fold, base, seq, n, h) ==
  h[0] = base /\ \A k \in 1 .. n : h[k] = Step(fold, h[k - 1], seq[k])

\* A solution takes the elements in order: whatever h goes step by step from
\* the base ends with its value.
LEMMA FoldValue ==
  ASSUME NEW fold, NEW base, NEW seq, NEW n \in Nat, NEW g,
         Unfolds(fold, base, seq, n, g), NEW h, Follows(fold, base, seq, n, h)
  PROVE  g[1 .. n] = h[n]
<1> DEFINE S == {k \in Nat : k <= n => g[1 .. k] = h[k]}
<1>1. 0 \in S
  <2>1. 1 .. 0 = {} /\ {} \in SUBSET (1 .. n)
    OBVIOUS
  <2> QED BY <2>1 DEF Unfolds, Follows
<1>2. ASSUME NEW k \in Nat, k \in S PROVE k + 1 \in S
  <2> SUFFICES ASSUME k + 1 <= n PROVE g[1 .. (k + 1)] = h[k + 1]
    OBVIOUS
  <2>1. (1 .. (k + 1)) \in SUBSET (1 .. n) /\ 1 .. (k + 1) # {}
    <3>1. k + 1 \in Nat
      OBVIOUS
    <3> QED BY <3>1, Upto
  <2>2. Max(1 .. (k + 1)) = k + 1
    BY MaxIs
  <2>3. (1 .. (k + 1)) \ {k + 1} = 1 .. k
    BY Upto
  <2>4. g[1 .. (k + 1)] = Step(fold, g[1 .. k], seq[k + 1])
    <3>1. \A s \in SUBSET (1 .. n) : s # {} =>
            g[s] = Step(fold, g[s \ {Max(s)}], seq[Max(s)])
      BY DEF Unfolds
    <3> QED BY <2>1, <2>2, <2>3, <3>1, Zenon
  <2>5. g[1 .. k] = h[k]
    BY <1>2
  <2>6. h[k + 1] = Step(fold, h[k], seq[k + 1])
    <3>1. k + 1 \in 1 .. n /\ (k + 1) - 1 = k
      OBVIOUS
    <3> QED BY <3>1 DEF Follows
  <2> QED BY <2>4, <2>5, <2>6
<1> HIDE DEF S
<1>3. n \in S
  BY <1>1, <1>2, SetInduction
<1> QED BY <1>3 DEF S

\* Such an h exists.
LEMMA FoldPath ==
  ASSUME NEW fold, NEW base, NEW seq, NEW n \in Nat, NEW g,
         Unfolds(fold, base, seq, n, g)
  PROVE  \E h : Follows(fold, base, seq, n, h)
<1> DEFINE h == [k \in 0 .. n |-> g[1 .. k]]
<1>1. \A s \in SUBSET (1 .. n) :
        g[s] = IF s = {} THEN base ELSE Step(fold, g[s \ {Max(s)}], seq[Max(s)])
  BY DEF Unfolds
<1>2. h[0] = base
  <2>1. 1 .. 0 = {} /\ {} \in SUBSET (1 .. n) /\ 0 \in 0 .. n
    OBVIOUS
  <2> QED BY <1>1, <2>1
<1>3. ASSUME NEW k \in 1 .. n PROVE h[k] = Step(fold, h[k - 1], seq[k])
  <2>1. k - 1 \in Nat /\ (k - 1) + 1 = k /\ k \in 0 .. n /\ k - 1 \in 0 .. n
    OBVIOUS
  <2>2. 1 .. k \in SUBSET (1 .. n) /\ 1 .. k # {} /\ (1 .. k) \ {k} = 1 .. (k - 1)
    BY <2>1, Upto
  <2>3. Max(1 .. k) = k
    BY MaxIs
  <2>4. g[1 .. k] = Step(fold, g[1 .. (k - 1)], seq[k])
    BY <1>1, <2>2, <2>3, Zenon
  <2> QED BY <2>1, <2>4
<1> HIDE DEF h
<1> QED BY <1>2, <1>3 DEF Follows

LEMMA ReduceUnfolds ==
  ASSUME NEW st, NEW events, NEW n \in Nat, DOMAIN events = 1 .. n
  PROVE  \E g : Unfolds("reduce", st, events, n, g) /\ ReduceFrom(st, events) = g[1 .. n]
<1> DEFINE P(g) == g = [s \in SUBSET (1 .. n) |->
             IF s = {} THEN st ELSE Apply(g[s \ {Max(s)}], events[Max(s)])]
<1>1. \A x, e : Step("reduce", x, e) = Apply(x, e)
  BY DEF Step
<1>2. \A g : Unfolds("reduce", st, events, n, g) <=> P(g)
  BY <1>1 DEF Unfolds
<1>3. \E g : P(g)
  BY <1>2, FoldExists, Zenon
<1>4. P(CHOOSE g : P(g))
  BY <1>3, Zenon
<1>5. ReduceFrom(st, events) = (CHOOSE g : P(g))[1 .. n]
  BY DEF ReduceFrom, FoldLeft, MapThenFoldSet
<1> HIDE DEF P
<1> QED BY <1>2, <1>4, <1>5, Zenon

LEMMA WriteUnfolds ==
  ASSUME NEW d, NEW writes, NEW n \in Nat, DOMAIN writes = 1 .. n
  PROVE  \E g : Unfolds("write", d, writes, n, g) /\ AllWritten(d, writes) = g[1 .. n]
<1> DEFINE P(g) == g = [s \in SUBSET (1 .. n) |->
             IF s = {} THEN d ELSE Written(g[s \ {Max(s)}], writes[Max(s)])]
<1>1. \A x, w : Step("write", x, w) = Written(x, w)
  BY DEF Step
<1>2. \A g : Unfolds("write", d, writes, n, g) <=> P(g)
  BY <1>1 DEF Unfolds
<1>3. \E g : P(g)
  BY <1>2, FoldExists, Zenon
<1>4. P(CHOOSE g : P(g))
  BY <1>3, Zenon
<1>5. AllWritten(d, writes) = (CHOOSE g : P(g))[1 .. n]
  BY DEF AllWritten, FoldLeft, MapThenFoldSet
<1> HIDE DEF P
<1> QED BY <1>2, <1>4, <1>5, Zenon

-----------------------------------------------------------------------------
(* What the two folds return.                                              *)

\* h is the way a fold of the events, or of the writes, takes.
Reduces(st, events, n, h) ==
  /\ n \in Nat /\ DOMAIN events = 1 .. n
  /\ h[0] = st /\ \A k \in 1 .. n : h[k] = Apply(h[k - 1], events[k])

Writes(d, writes, n, h) ==
  /\ n \in Nat /\ DOMAIN writes = 1 .. n
  /\ h[0] = d /\ \A k \in 1 .. n : h[k] = Written(h[k - 1], writes[k])

LEMMA ReduceFollows ==
  ASSUME NEW st, NEW events, NEW n \in Nat, NEW h, DOMAIN events = 1 .. n
  PROVE  Reduces(st, events, n, h) <=> Follows("reduce", st, events, n, h)
BY DEF Reduces, Follows, Step

LEMMA WriteFollows ==
  ASSUME NEW d, NEW writes, NEW n \in Nat, NEW h, DOMAIN writes = 1 .. n
  PROVE  Writes(d, writes, n, h) <=> Follows("write", d, writes, n, h)
BY DEF Writes, Follows, Step

LEMMA ReduceValue ==
  ASSUME NEW st, NEW events, NEW n, NEW h, Reduces(st, events, n, h)
  PROVE  ReduceFrom(st, events) = h[n]
<1>1. n \in Nat /\ DOMAIN events = 1 .. n
  BY DEF Reduces
<1>2. PICK g : Unfolds("reduce", st, events, n, g) /\ ReduceFrom(st, events) = g[1 .. n]
  BY <1>1, ReduceUnfolds
<1> QED BY <1>1, <1>2, ReduceFollows, FoldValue

LEMMA ReducePath ==
  ASSUME NEW st, NEW events, NEW n \in Nat, DOMAIN events = 1 .. n
  PROVE  \E h : Reduces(st, events, n, h) /\ ReduceFrom(st, events) = h[n]
<1>1. PICK g : Unfolds("reduce", st, events, n, g)
  BY ReduceUnfolds
<1>2. PICK h : Follows("reduce", st, events, n, h)
  BY <1>1, FoldPath
<1> QED BY <1>2, ReduceFollows, ReduceValue

LEMMA WriteValue ==
  ASSUME NEW d, NEW writes, NEW n, NEW h, Writes(d, writes, n, h)
  PROVE  AllWritten(d, writes) = h[n]
<1>1. n \in Nat /\ DOMAIN writes = 1 .. n
  BY DEF Writes
<1>2. PICK g : Unfolds("write", d, writes, n, g) /\ AllWritten(d, writes) = g[1 .. n]
  BY <1>1, WriteUnfolds
<1> QED BY <1>1, <1>2, WriteFollows, FoldValue

LEMMA WritePath ==
  ASSUME NEW d, NEW writes, NEW n \in Nat, DOMAIN writes = 1 .. n
  PROVE  \E h : Writes(d, writes, n, h) /\ AllWritten(d, writes) = h[n]
<1>1. PICK g : Unfolds("write", d, writes, n, g)
  BY WriteUnfolds
<1>2. PICK h : Follows("write", d, writes, n, h)
  BY <1>1, FoldPath
<1> QED BY <1>2, WriteFollows, WriteValue

-----------------------------------------------------------------------------
(* Folds of no element, of one, and of one sequence after another.         *)

LEMMA ReduceEmpty ==
  ASSUME NEW st PROVE ReduceFrom(st, << >>) = st
<1> DEFINE h == [k \in {0} |-> st]
<1>1. h[0] = st /\ DOMAIN << >> = 1 .. 0
  OBVIOUS
<1> HIDE DEF h
<1>2. Reduces(st, << >>, 0, h)
  BY <1>1 DEF Reduces
<1> QED BY <1>1, <1>2, ReduceValue

LEMMA ReduceOne ==
  ASSUME NEW st, NEW e PROVE ReduceFrom(st, << e >>) = Apply(st, e)
<1> DEFINE h == [k \in 0 .. 1 |-> IF k = 0 THEN st ELSE Apply(st, e)]
<1>1. /\ DOMAIN << e >> = 1 .. 1 /\ h[0] = st /\ h[1] = Apply(st, e)
      /\ << e >>[1] = e /\ \A k \in 1 .. 1 : k = 1 /\ k - 1 = 0
  OBVIOUS
<1> HIDE DEF h
<1>2. Reduces(st, << e >>, 1, h)
  BY <1>1 DEF Reduces
<1> QED BY <1>1, <1>2, ReduceValue

LEMMA WriteOne ==
  ASSUME NEW d, NEW w PROVE AllWritten(d, << w >>) = Written(d, w)
<1> DEFINE h == [k \in 0 .. 1 |-> IF k = 0 THEN d ELSE Written(d, w)]
<1>1. /\ DOMAIN << w >> = 1 .. 1 /\ h[0] = d /\ h[1] = Written(d, w)
      /\ << w >>[1] = w /\ \A k \in 1 .. 1 : k = 1 /\ k - 1 = 0
  OBVIOUS
<1> HIDE DEF h
<1>2. Writes(d, << w >>, 1, h)
  BY <1>1 DEF Writes
<1> QED BY <1>1, <1>2, WriteValue

LEMMA WriteEmpty ==
  ASSUME NEW d PROVE AllWritten(d, << >>) = d
<1> DEFINE h == [k \in {0} |-> d]
<1>1. h[0] = d /\ DOMAIN << >> = 1 .. 0
  OBVIOUS
<1> HIDE DEF h
<1>2. Writes(d, << >>, 0, h)
  BY <1>1 DEF Writes
<1> QED BY <1>1, <1>2, WriteValue

\* Two ways, one after the other.
Joined(m, n, f, g) == [k \in 0 .. (m + n) |-> IF k <= m THEN f[k] ELSE g[k - m]]

LEMMA JoinedEnds ==
  ASSUME NEW m \in Nat, NEW n \in Nat, NEW f, NEW g, g[0] = f[m]
  PROVE  Joined(m, n, f, g)[0] = f[0] /\ Joined(m, n, f, g)[m + n] = g[n]
<1>1. CASE n = 0
  BY <1>1 DEF Joined
<1>2. CASE n # 0
  <2>1. m + n \in 0 .. (m + n) /\ ~(m + n <= m) /\ (m + n) - m = n
    BY <1>2
  <2> QED BY <2>1 DEF Joined
<1> QED BY <1>1, <1>2

LEMMA JoinedFirst ==
  ASSUME NEW m \in Nat, NEW n \in Nat, NEW f, NEW g, NEW k \in 1 .. m
  PROVE  Joined(m, n, f, g)[k] = f[k] /\ Joined(m, n, f, g)[k - 1] = f[k - 1]
BY DEF Joined

LEMMA JoinedThen ==
  ASSUME NEW m \in Nat, NEW n \in Nat, NEW f, NEW g, g[0] = f[m], NEW k \in 1 .. n
  PROVE  Joined(m, n, f, g)[m + k] = g[k] /\ Joined(m, n, f, g)[(m + k) - 1] = g[k - 1]
<1> DEFINE h == Joined(m, n, f, g)
<1>1. \A i \in 0 .. (m + n) : h[i] = IF i <= m THEN f[i] ELSE g[i - m]
  BY DEF Joined
<1> HIDE DEF h
<1>2. h[m + k] = g[k]
  <2>1. m + k \in 0 .. (m + n) /\ ~(m + k <= m) /\ (m + k) - m = k
    OBVIOUS
  <2> QED BY <1>1, <2>1
<1>3. CASE k = 1
  <2>1. (m + k) - 1 = m /\ m \in 0 .. (m + n) /\ m <= m /\ k - 1 = 0
    BY <1>3
  <2>2. h[(m + k) - 1] = f[m]
    BY <1>1, <2>1
  <2> QED BY <1>2, <2>1, <2>2 DEF h
<1>4. CASE k # 1
  <2>1. /\ (m + k) - 1 \in 0 .. (m + n) /\ ~((m + k) - 1 <= m)
        /\ ((m + k) - 1) - m = k - 1
    BY <1>4
  <2>2. h[(m + k) - 1] = g[k - 1]
    BY <1>1, <2>1
  <2> QED BY <1>2, <2>2 DEF h
<1> QED BY <1>3, <1>4

LEMMA ConcatFacts ==
  ASSUME NEW S, NEW s \in Seq(S), NEW t \in Seq(S), NEW m, NEW n, m = Len(s), n = Len(t)
  PROVE  /\ m \in Nat /\ n \in Nat
         /\ DOMAIN s = 1 .. m /\ DOMAIN t = 1 .. n /\ DOMAIN (s \o t) = 1 .. (m + n)
         /\ \A k \in 1 .. m : (s \o t)[k] = s[k]
         /\ \A k \in 1 .. n : (s \o t)[m + k] = t[k]
<1>1. /\ m \in Nat /\ n \in Nat
      /\ DOMAIN s = 1 .. m /\ DOMAIN t = 1 .. n /\ DOMAIN (s \o t) = 1 .. (m + n)
      /\ \A k \in 1 .. (m + n) : (s \o t)[k] = IF k <= m THEN s[k] ELSE t[k - m]
  BY LenProperties, ConcatProperties
<1>2. ASSUME NEW k \in 1 .. m PROVE (s \o t)[k] = s[k]
  BY <1>1
<1>3. ASSUME NEW k \in 1 .. n PROVE (s \o t)[m + k] = t[k]
  <2>1. m + k \in 1 .. (m + n) /\ ~(m + k <= m) /\ (m + k) - m = k
    BY <1>1
  <2> QED BY <1>1, <2>1
<1> QED BY <1>1, <1>2, <1>3

LEMMA Split ==
  ASSUME NEW m \in Nat, NEW n \in Nat, NEW k \in 1 .. (m + n)
  PROVE  k \in 1 .. m \/ \E i \in 1 .. n : k = m + i
<1>1. CASE k > m
  <2>1. k - m \in 1 .. n /\ k = m + (k - m)
    BY <1>1
  <2> QED BY <2>1
<1> QED BY <1>1

LEMMA ReduceConcat ==
  ASSUME NEW st, NEW S, NEW s \in Seq(S), NEW t \in Seq(S)
  PROVE  ReduceFrom(st, s \o t) = ReduceFrom(ReduceFrom(st, s), t)
<1> DEFINE m == Len(s)
           n == Len(t)
<1>1. /\ m \in Nat /\ n \in Nat
      /\ DOMAIN s = 1 .. m /\ DOMAIN t = 1 .. n /\ DOMAIN (s \o t) = 1 .. (m + n)
      /\ \A k \in 1 .. m : (s \o t)[k] = s[k]
      /\ \A k \in 1 .. n : (s \o t)[m + k] = t[k]
  BY ConcatFacts
<1> HIDE DEF m, n
<1>9. m \in Nat /\ n \in Nat /\ DOMAIN s = 1 .. m /\ DOMAIN t = 1 .. n
  BY <1>1
<1>2. PICK f : Reduces(st, s, m, f) /\ ReduceFrom(st, s) = f[m]
  BY <1>9, ReducePath
<1>3. PICK g : Reduces(f[m], t, n, g) /\ ReduceFrom(f[m], t) = g[n]
  BY <1>9, ReducePath
<1> DEFINE h == Joined(m, n, f, g)
<1>4. g[0] = f[m] /\ h[0] = st /\ h[m + n] = g[n]
  <2>1. g[0] = f[m] /\ f[0] = st
    BY <1>2, <1>3 DEF Reduces
  <2> QED BY <1>1, <2>1, JoinedEnds
<1>5. ASSUME NEW k \in 1 .. m PROVE h[k] = Apply(h[k - 1], (s \o t)[k])
  BY <1>1, <1>2, JoinedFirst DEF Reduces
<1>6. ASSUME NEW k \in 1 .. n PROVE h[m + k] = Apply(h[(m + k) - 1], (s \o t)[m + k])
  <2>1. g[k] = Apply(g[k - 1], t[k])
    BY <1>3 DEF Reduces
  <2>2. h[m + k] = g[k] /\ h[(m + k) - 1] = g[k - 1]
    BY <1>4, <1>9, JoinedThen
  <2>3. (s \o t)[m + k] = t[k]
    BY <1>1
  <2> QED BY <2>1, <2>2, <2>3
<1> HIDE DEF h
<1>7. ASSUME NEW k \in 1 .. (m + n) PROVE h[k] = Apply(h[k - 1], (s \o t)[k])
  <2>1. k \in 1 .. m \/ \E i \in 1 .. n : k = m + i
    BY <1>9, Split
  <2>2. CASE k \in 1 .. m
    BY <1>5, <2>2
  <2>3. ASSUME NEW i \in 1 .. n, k = m + i PROVE h[k] = Apply(h[k - 1], (s \o t)[k])
    <3>1. h[m + i] = Apply(h[(m + i) - 1], (s \o t)[m + i])
      BY <1>6
    <3> QED BY <2>3, <3>1
  <2> QED BY <2>1, <2>2, <2>3
<1>8. Reduces(st, s \o t, m + n, h)
  BY <1>1, <1>4, <1>7 DEF Reduces
<1> QED BY <1>2, <1>3, <1>4, <1>8, ReduceValue

LEMMA WriteConcat ==
  ASSUME NEW d, NEW S, NEW s \in Seq(S), NEW t \in Seq(S)
  PROVE  AllWritten(d, s \o t) = AllWritten(AllWritten(d, s), t)
<1> DEFINE m == Len(s)
           n == Len(t)
<1>1. /\ m \in Nat /\ n \in Nat
      /\ DOMAIN s = 1 .. m /\ DOMAIN t = 1 .. n /\ DOMAIN (s \o t) = 1 .. (m + n)
      /\ \A k \in 1 .. m : (s \o t)[k] = s[k]
      /\ \A k \in 1 .. n : (s \o t)[m + k] = t[k]
  BY ConcatFacts
<1> HIDE DEF m, n
<1>9. m \in Nat /\ n \in Nat /\ DOMAIN s = 1 .. m /\ DOMAIN t = 1 .. n
  BY <1>1
<1>2. PICK f : Writes(d, s, m, f) /\ AllWritten(d, s) = f[m]
  BY <1>9, WritePath
<1>3. PICK g : Writes(f[m], t, n, g) /\ AllWritten(f[m], t) = g[n]
  BY <1>9, WritePath
<1> DEFINE h == Joined(m, n, f, g)
<1>4. g[0] = f[m] /\ h[0] = d /\ h[m + n] = g[n]
  <2>1. g[0] = f[m] /\ f[0] = d
    BY <1>2, <1>3 DEF Writes
  <2> QED BY <1>1, <2>1, JoinedEnds
<1>5. ASSUME NEW k \in 1 .. m PROVE h[k] = Written(h[k - 1], (s \o t)[k])
  BY <1>1, <1>2, JoinedFirst DEF Writes
<1>6. ASSUME NEW k \in 1 .. n PROVE h[m + k] = Written(h[(m + k) - 1], (s \o t)[m + k])
  <2>1. g[k] = Written(g[k - 1], t[k])
    BY <1>3 DEF Writes
  <2>2. h[m + k] = g[k] /\ h[(m + k) - 1] = g[k - 1]
    BY <1>4, <1>9, JoinedThen
  <2>3. (s \o t)[m + k] = t[k]
    BY <1>1
  <2> QED BY <2>1, <2>2, <2>3
<1> HIDE DEF h
<1>7. ASSUME NEW k \in 1 .. (m + n) PROVE h[k] = Written(h[k - 1], (s \o t)[k])
  <2>1. k \in 1 .. m \/ \E i \in 1 .. n : k = m + i
    BY <1>9, Split
  <2>2. CASE k \in 1 .. m
    BY <1>5, <2>2
  <2>3. ASSUME NEW i \in 1 .. n, k = m + i PROVE h[k] = Written(h[k - 1], (s \o t)[k])
    <3>1. h[m + i] = Written(h[(m + i) - 1], (s \o t)[m + i])
      BY <1>6
    <3> QED BY <2>3, <3>1
  <2> QED BY <2>1, <2>2, <2>3
<1>8. Writes(d, s \o t, m + n, h)
  BY <1>1, <1>4, <1>7 DEF Writes
<1> QED BY <1>2, <1>3, <1>4, <1>8, WriteValue

-----------------------------------------------------------------------------
(* What a fold is, and where a stream leaves its counter.                  *)

LEMMA MaxOfTwo ==
  ASSUME NEW a \in Nat, NEW b \in Nat
  PROVE  Max({a, b}) = IF a <= b THEN b ELSE a
<1>1. \E x \in {a, b} : \A y \in {a, b} : x >= y
  OBVIOUS
<1>2. Max({a, b}) \in {a, b} /\ \A y \in {a, b} : Max({a, b}) >= y
  BY <1>1, Zenon DEF Max
<1> QED BY <1>2

LEMMA FunctionIsSeq ==
  ASSUME NEW S, NEW n \in Nat, NEW f \in [1 .. n -> S]
  PROVE  f \in Seq(S) /\ Len(f) = n
BY SeqDef, LenProperties

\* Each fold of a job keeps its type.
LEMMA JobTypes ==
  ASSUME NEW jb \in JobState
  PROVE  /\ \A r \in Runners, m \in Nat \ {0} : JobClaimed(jb, r, m, m) \in JobState
         /\ \A h, n : LeaseRenewed(jb, h, n) \in JobState
         /\ \A n : LeaseExpired(jb, n) \in JobState
         /\ \A p \in JobTerminal : JobFinished(jb, p) \in JobState
<1> USE CoreAssumption DEF JobState, JobPhases, Sticky, Released
<1>1. ASSUME NEW r \in Runners, NEW m \in Nat \ {0} PROVE JobClaimed(jb, r, m, m) \in JobState
  BY DEF JobClaimed
<1>2. ASSUME NEW h, NEW n PROVE LeaseRenewed(jb, h, n) \in JobState
  BY DEF LeaseRenewed
<1>3. ASSUME NEW n PROVE LeaseExpired(jb, n) \in JobState
  BY DEF LeaseExpired
<1>4. ASSUME NEW p \in JobTerminal PROVE JobFinished(jb, p) \in JobState
  BY DEF JobFinished
<1> QED BY <1>1, <1>2, <1>3, <1>4

LEMMA CanceledTypes ==
  ASSUME NEW jobs \in [Jobs -> JobState] PROVE RunCanceled(jobs) \in [Jobs -> JobState]
BY CoreAssumption DEF RunCanceled, JobState, JobPhases, JobTerminal, Sticky, Released

\* What every event does to a fold: it takes the event's number.
Goes(st, jobs, n) == [st EXCEPT !.jobs = jobs, !.last = Max({@, n})]

LEMMA GoesIs ==
  ASSUME NEW st \in Folds, NEW jobs \in [Jobs -> JobState], NEW n \in Nat
  PROVE  /\ Goes(st, jobs, n) \in Folds
         /\ Goes(st, jobs, n).jobs = jobs
         /\ Goes(st, jobs, n).created = st.created
         /\ Goes(st, jobs, n).canceled = st.canceled
         /\ Goes(st, jobs, n).last = IF st.last <= n THEN n ELSE st.last
<1>1. st.last \in Nat
  BY DEF Folds
<1>2. Max({st.last, n}) = (IF st.last <= n THEN n ELSE st.last) /\ Max({st.last, n}) \in Nat
  BY <1>1, MaxOfTwo
<1> QED BY <1>2 DEF Goes, Folds

\* An event of a job changes that job alone.
LEMMA ApplyJob ==
  ASSUME NEW st, NEW e
  PROVE  /\ e.what.kind = "JobClaimed" =>
              Apply(st, e) = Goes(st, [st.jobs EXCEPT ![e.what.job] =
                JobClaimed(st.jobs[e.what.job], e.what.runner, e.what.epoch, e.what.epoch)],
                e.seq)
         /\ e.what.kind = "LeaseRenewed" =>
              Apply(st, e) = Goes(st, [st.jobs EXCEPT ![e.what.job] =
                LeaseRenewed(st.jobs[e.what.job], e.what.runner, e.what.epoch)], e.seq)
         /\ e.what.kind = "LeaseExpired" =>
              Apply(st, e) = Goes(st, [st.jobs EXCEPT ![e.what.job] =
                LeaseExpired(st.jobs[e.what.job], e.what.epoch)], e.seq)
         /\ e.what.kind \in JobTerminal =>
              Apply(st, e) = Goes(st, [st.jobs EXCEPT ![e.what.job] =
                JobFinished(st.jobs[e.what.job], e.what.kind)], e.seq)
BY DEF Apply, Goes, JobTerminal, JobSuccess, JobFailure

LEMMA ApplyRun ==
  ASSUME NEW st, NEW e
  PROVE  /\ e.what.kind = "RunCreated" =>
              Apply(st, e) = [Goes(st, st.jobs, e.seq) EXCEPT !.created = TRUE]
         /\ e.what.kind = "RunCanceled" =>
              Apply(st, e) = [Goes(st, RunCanceled(st.jobs), e.seq) EXCEPT !.canceled = TRUE]
         /\ e.what.kind \in {"RunCompleted", "RunFailed"} =>
              Apply(st, e) = Goes(st, st.jobs, e.seq)
BY DEF Apply, Goes, JobTerminal, JobSuccess, JobFailure

LEMMA IntentKinds ==
  ASSUME NEW w \in Intents
  PROVE  /\ w.kind \in {"RunCreated", "RunCanceled", "RunCompleted", "RunFailed", "JobClaimed",
                        "LeaseRenewed", "LeaseExpired"} \cup JobTerminal
         /\ w.kind = "JobClaimed" =>
              w.job \in Jobs /\ w.runner \in Runners /\ w.epoch \in Nat \ {0}
         /\ w.kind \in {"LeaseRenewed", "LeaseExpired"} \cup JobTerminal =>
              w.job \in Jobs /\ w.runner \in Runners \cup {NoRunner} /\ w.epoch \in Nat
BY DEF Intents, JobTerminal, JobSuccess, JobFailure

\* An event takes a fold to a fold, at the event's number when it is later.
LEMMA ApplyType ==
  ASSUME NEW st \in Folds, NEW e \in Events
  PROVE  /\ Apply(st, e) \in Folds
         /\ Apply(st, e).last = IF st.last <= e.seq THEN e.seq ELSE st.last
<1> DEFINE w == e.what
           n == e.seq
           Fine(f) == f \in Folds /\ f.last = IF st.last <= n THEN n ELSE st.last
<1>1. n \in Nat /\ w \in Intents
  BY DEF Events
<1>2. st.jobs \in [Jobs -> JobState]
  BY DEF Folds
<1>3. \A jobs \in [Jobs -> JobState] : Fine(Goes(st, jobs, n))
  BY <1>1, GoesIs
<1>4. ASSUME NEW f, Fine(f)
      PROVE  Fine([f EXCEPT !.created = TRUE]) /\ Fine([f EXCEPT !.canceled = TRUE])
  BY <1>4 DEF Folds
<1>5. \A jb \in JobState : [st.jobs EXCEPT ![w.job] = jb] \in [Jobs -> JobState]
  BY <1>2
<1>6. \A jb \in JobState : Fine(Goes(st, [st.jobs EXCEPT ![w.job] = jb], n))
  BY <1>3, <1>5
<1> HIDE DEF Fine
<1>7. CASE w.kind = "RunCreated"
  <2>1. Apply(st, e) = [Goes(st, st.jobs, n) EXCEPT !.created = TRUE]
    BY <1>7, ApplyRun
  <2>2. Fine(Goes(st, st.jobs, n))
    BY <1>2, <1>3
  <2> QED BY <1>4, <2>1, <2>2 DEF Fine
<1>8. CASE w.kind = "RunCanceled"
  <2>1. Apply(st, e) = [Goes(st, RunCanceled(st.jobs), n) EXCEPT !.canceled = TRUE]
    BY <1>8, ApplyRun
  <2>2. Fine(Goes(st, RunCanceled(st.jobs), n))
    BY <1>2, <1>3, CanceledTypes
  <2> QED BY <1>4, <2>1, <2>2 DEF Fine
<1>9. CASE w.kind \in {"RunCompleted", "RunFailed"}
  BY <1>2, <1>3, <1>9, ApplyRun DEF Fine
<1>10. CASE w.kind = "JobClaimed"
  <2>1. w.job \in Jobs /\ w.runner \in Runners /\ w.epoch \in Nat \ {0}
    BY <1>1, <1>10, IntentKinds
  <2>2. JobClaimed(st.jobs[w.job], w.runner, w.epoch, w.epoch) \in JobState
    BY <1>2, <2>1, JobTypes
  <2> QED BY <1>6, <1>10, <2>2, ApplyJob DEF Fine
<1>11. CASE w.kind \in {"LeaseRenewed", "LeaseExpired"} \cup JobTerminal
  <2>1. w.job \in Jobs /\ w.runner \in Runners \cup {NoRunner} /\ w.epoch \in Nat
    BY <1>1, <1>11, IntentKinds
  <2>2. /\ LeaseRenewed(st.jobs[w.job], w.runner, w.epoch) \in JobState
        /\ LeaseExpired(st.jobs[w.job], w.epoch) \in JobState
        /\ w.kind \in JobTerminal => JobFinished(st.jobs[w.job], w.kind) \in JobState
    BY <1>2, <2>1, JobTypes
  <2> QED BY <1>6, <1>11, <2>2, ApplyJob DEF Fine
<1> QED BY <1>1, <1>7, <1>8, <1>9, <1>10, <1>11, IntentKinds

\* A fold of events is a fold, and ends at the last number of a stream.
LEMMA ReduceType ==
  ASSUME NEW st \in Folds, NEW events \in Seq(Events)
  PROVE  /\ ReduceFrom(st, events) \in Folds
         /\ (\A i \in DOMAIN events : events[i].seq = st.last + i) =>
              ReduceFrom(st, events).last = st.last + Len(events)
<1> DEFINE n == Len(events)
           Ordered == \A i \in DOMAIN events : events[i].seq = st.last + i
<1>1. n \in Nat /\ DOMAIN events = 1 .. n /\ \A k \in 1 .. n : events[k] \in Events
  BY LenProperties
<1>2. st.last \in Nat
  BY DEF Folds
<1> HIDE DEF n, Ordered
<1>3. PICK h : Reduces(st, events, n, h) /\ ReduceFrom(st, events) = h[n]
  BY <1>1, ReducePath
<1>4. h[0] = st /\ \A k \in 1 .. n : h[k] = Apply(h[k - 1], events[k])
  BY <1>3 DEF Reduces
<1> DEFINE S == {k \in Nat : k <= n => h[k] \in Folds /\ (Ordered => h[k].last = st.last + k)}
<1>5. 0 \in S
  BY <1>2, <1>4
<1>6. ASSUME NEW k \in Nat, k \in S PROVE k + 1 \in S
  <2> SUFFICES ASSUME k + 1 <= n
               PROVE  h[k + 1] \in Folds /\ (Ordered => h[k + 1].last = st.last + (k + 1))
    OBVIOUS
  <2>1. h[k] \in Folds /\ (Ordered => h[k].last = st.last + k)
    BY <1>1, <1>6
  <2>2. k + 1 \in 1 .. n /\ (k + 1) - 1 = k
    BY <1>1
  <2>3. h[k + 1] = Apply(h[k], events[k + 1]) /\ events[k + 1] \in Events
    BY <1>1, <1>4, <2>2
  <2>4. /\ h[k + 1] \in Folds
        /\ h[k + 1].last = IF h[k].last <= events[k + 1].seq THEN events[k + 1].seq
                           ELSE h[k].last
    BY <2>1, <2>3, ApplyType
  <2>5. Ordered => events[k + 1].seq = st.last + (k + 1)
    BY <1>1, <2>2 DEF Ordered
  <2> QED BY <1>2, <2>1, <2>4, <2>5
<1> HIDE DEF S
<1>7. n \in S
  BY <1>1, <1>5, <1>6, SetInduction
<1> QED BY <1>1, <1>3, <1>7 DEF S, n, Ordered

LEMMA BlankIsFold == BlankFold \in Folds /\ BlankFold.last = 0
BY CoreAssumption DEF BlankFold, Folds, FreshJob, JobState, JobPhases

\* What the deciders append, under its numbers.
LEMMA NumberedIs ==
  ASSUME NEW first \in Nat \ {0}, NEW intents \in Seq(Intents)
  PROVE  /\ Numbered(first, intents) \in Seq(Events)
         /\ Len(Numbered(first, intents)) = Len(intents)
         /\ DOMAIN Numbered(first, intents) = 1 .. Len(intents)
         /\ \A i \in 1 .. Len(intents) :
              Numbered(first, intents)[i] = [seq |-> first + i - 1, what |-> intents[i]]
<1> DEFINE n == Len(intents)
           f == Numbered(first, intents)
<1>1. n \in Nat /\ DOMAIN intents = 1 .. n /\ \A i \in 1 .. n : intents[i] \in Intents
  BY LenProperties
<1>2. f = [i \in 1 .. n |-> [seq |-> first + i - 1, what |-> intents[i]]]
  BY <1>1 DEF Numbered
<1>3. f \in [1 .. n -> Events]
  <2>1. ASSUME NEW i \in 1 .. n PROVE [seq |-> first + i - 1, what |-> intents[i]] \in Events
    <3>1. first + i - 1 \in Nat \ {0}
      BY <1>1
    <3> QED BY <1>1, <3>1 DEF Events
  <2> QED BY <1>2, <2>1
<1> HIDE DEF n, f
<1>4. f \in Seq(Events) /\ Len(f) = n
  BY <1>1, <1>3, FunctionIsSeq
<1> QED BY <1>2, <1>4 DEF n, f

-----------------------------------------------------------------------------
(* Writing events.                                                         *)

\* A put of events numbered from l + 1 has an entry for each number.
LEMMA EntriesAre ==
  ASSUME NEW chunk \in Seq(Events), NEW l \in Nat,
         \A i \in DOMAIN chunk : chunk[i].seq = l + i
  PROVE  Entries(chunk) = [k \in (l + 1) .. (l + Len(chunk)) |-> chunk[k - l]]
<1> DEFINE n == Len(chunk)
           R == Range(chunk)
<1>1. n \in Nat /\ DOMAIN chunk = 1 .. n
  BY LenProperties
<1> HIDE DEF n
<1>2. \A e : e \in R <=> \E i \in 1 .. n : e = chunk[i]
  BY <1>1 DEF Range
<1> HIDE DEF R
<1>3. \A i \in 1 .. n : chunk[i].seq = l + i
  BY <1>1
<1>4. \A k \in (l + 1) .. (l + n) :
        k - l \in 1 .. n /\ chunk[k - l] \in R /\ chunk[k - l].seq = k
  BY <1>1, <1>2, <1>3
<1>5. \A k : k \in {e.seq : e \in R} <=> k \in (l + 1) .. (l + n)
  <2>1. ASSUME NEW e \in R PROVE e.seq \in (l + 1) .. (l + n)
    <3>1. PICK i \in 1 .. n : e = chunk[i]
      BY <1>2
    <3> QED BY <1>1, <1>3, <3>1
  <2>2. ASSUME NEW k \in (l + 1) .. (l + n) PROVE k \in {e.seq : e \in R}
    BY <1>4
  <2> QED BY <2>1, <2>2
<1>6. ASSUME NEW k \in (l + 1) .. (l + n) PROVE (CHOOSE e \in R : e.seq = k) = chunk[k - l]
  <2>1. \A e \in R : e.seq = k => e = chunk[k - l]
    BY <1>2, <1>3, <1>1
  <2>2. chunk[k - l] \in R /\ chunk[k - l].seq = k
    BY <1>4
  <2> QED BY <2>1, <2>2, Zenon
<1>7. Entries(chunk) = [k \in {e.seq : e \in R} |-> CHOOSE e \in R : e.seq = k]
  BY DEF Entries, R
<1>8. {e.seq : e \in R} = (l + 1) .. (l + n)
  BY <1>5
<1>9. Entries(chunk) = [k \in (l + 1) .. (l + n) |-> CHOOSE e \in R : e.seq = k]
  BY <1>7, <1>8, Zenon
<1> QED BY <1>6, <1>9 DEF n

\* A sequence, then the first n elements of another.
Longer(s, t, n) == [k \in 1 .. (Len(s) + n) |-> IF k <= Len(s) THEN s[k] ELSE t[k - Len(s)]]

LEMMA LongerEnds ==
  ASSUME NEW S, NEW s \in Seq(S), NEW t \in Seq(S)
  PROVE  Longer(s, t, 0) = s /\ Longer(s, t, Len(t)) = s \o t
<1>1. /\ Len(s) \in Nat /\ Len(t) \in Nat /\ s \in [1 .. Len(s) -> S]
      /\ s \o t \in Seq(S) /\ Len(s \o t) = Len(s) + Len(t)
      /\ \A i \in 1 .. Len(s) + Len(t) :
           (s \o t)[i] = IF i <= Len(s) THEN s[i] ELSE t[i - Len(s)]
  BY LenProperties, ConcatProperties
<1>2. s \o t \in [1 .. (Len(s) + Len(t)) -> S]
  BY <1>1, LenProperties
<1>3. Longer(s, t, 0) = s
  BY <1>1 DEF Longer
<1>4. Longer(s, t, Len(t)) = s \o t
  BY <1>1, <1>2 DEF Longer
<1> QED BY <1>3, <1>4

LEMMA LongerBy ==
  ASSUME NEW s \in Seq(Events), NEW t \in Seq(Events),
         \A i \in DOMAIN t : t[i].seq = Len(s) + i,
         NEW a \in Nat, NEW b \in Nat, a <= b, b <= Len(t)
  PROVE  Over(Longer(s, t, a), Entries(SubSeq(t, a + 1, b))) = Longer(s, t, b)
<1> DEFINE l == Len(s)
           n == Len(t)
           c == SubSeq(t, a + 1, b)
<1>1. l \in Nat /\ n \in Nat /\ DOMAIN t = 1 .. n /\ \A i \in 1 .. n : t[i] \in Events
  BY LenProperties
<1>2. \A i \in (a + 1) .. b : t[i] \in Events
  BY <1>1
<1>3. /\ c \in Seq(Events) /\ Len(c) = b - a
      /\ \A i \in 1 .. (b - a) : c[i] = t[a + i]
  <2>1. /\ c \in Seq(Events)
        /\ Len(c) = IF a + 1 <= b THEN b - (a + 1) + 1 ELSE 0
        /\ \A i \in 1 .. (b - (a + 1) + 1) : c[i] = t[(a + 1) + i - 1]
    BY <1>2, SubSeqProperties
  <2> QED BY <2>1
<1> HIDE DEF c, n, l
<1>4. DOMAIN c = 1 .. (b - a)
  BY <1>3, LenProperties
<1>5. \A i \in DOMAIN c : c[i].seq = (l + a) + i
  <2>1. \A i \in 1 .. n : t[i].seq = l + i
    BY <1>1 DEF l
  <2>2. b <= n
    BY DEF n
  <2>3. ASSUME NEW i \in 1 .. (b - a) PROVE c[i].seq = (l + a) + i
    <3>1. a + i \in 1 .. n /\ c[i] = t[a + i]
      BY <1>1, <1>3, <2>2
    <3> QED BY <1>1, <2>1, <3>1
  <2> QED BY <1>4, <2>3
<1>6. Entries(c) = [k \in ((l + a) + 1) .. ((l + a) + (b - a)) |-> c[k - (l + a)]]
  <2>1. l + a \in Nat
    BY <1>1
  <2>2. Entries(c) = [k \in ((l + a) + 1) .. ((l + a) + Len(c)) |-> c[k - (l + a)]]
    BY <1>3, <1>5, <2>1, EntriesAre
  <2> QED BY <1>3, <2>2
<1>7. Entries(c) = [k \in (l + a + 1) .. (l + b) |-> t[k - l]]
  <2>1. \A k \in (l + a + 1) .. (l + b) : c[k - (l + a)] = t[k - l]
    BY <1>1, <1>3
  <2>2. ((l + a) + 1) .. ((l + a) + (b - a)) = (l + a + 1) .. (l + b)
    BY <1>1
  <2> QED BY <1>6, <2>1, <2>2
<1> DEFINE f == Entries(c)
           g == Longer(s, t, a)
<1>8. DOMAIN f = (l + a + 1) .. (l + b) /\ \A k \in (l + a + 1) .. (l + b) : f[k] = t[k - l]
  BY <1>7
<1>9. /\ DOMAIN g = 1 .. (l + a)
      /\ \A k \in 1 .. (l + a) : g[k] = IF k <= l THEN s[k] ELSE t[k - l]
  BY DEF Longer, l
<1> HIDE DEF f, g
<1>10. Over(g, f) = [k \in 1 .. (l + b) |-> IF k <= l THEN s[k] ELSE t[k - l]]
  <2>1. DOMAIN g \cup DOMAIN f = 1 .. (l + b)
    BY <1>1, <1>8, <1>9
  <2>2. \A k \in 1 .. (l + b) :
          (IF k \in DOMAIN f THEN f[k] ELSE g[k]) = IF k <= l THEN s[k] ELSE t[k - l]
    BY <1>1, <1>8, <1>9
  <2>3. Over(g, f) = [k \in DOMAIN g \cup DOMAIN f |-> IF k \in DOMAIN f THEN f[k] ELSE g[k]]
    BY DEF Over
  <2> QED BY <2>1, <2>2, <2>3
<1> QED BY <1>10 DEF f, g, c, l, Longer

LEMMA MinOfTwo ==
  ASSUME NEW a \in Nat, NEW b \in Nat
  PROVE  Min({a, b}) = IF a <= b THEN a ELSE b
<1>1. \E x \in {a, b} : \A y \in {a, b} : x <= y
  OBVIOUS
<1>2. Min({a, b}) \in {a, b} /\ \A y \in {a, b} : Min({a, b}) <= y
  BY <1>1, Zenon DEF Min
<1> QED BY <1>2

\* The batches of n events: the last one ends at n, and each starts before it.
LEMMA BatchCount ==
  ASSUME NEW n \in Nat, NEW k, k = (n + Batch - 1) \div Batch
  PROVE  /\ k \in Nat /\ n <= k * Batch /\ k * Batch < n + Batch
         /\ \A i \in 1 .. k : /\ (i - 1) * Batch \in Nat /\ (i - 1) * Batch < n
                              /\ i * Batch = (i - 1) * Batch + Batch
<1>1. Batch \in Nat /\ Batch > 0
  BY StoreAssumption
<1>2. k \in Nat /\ n <= k * Batch /\ k * Batch < n + Batch
  BY <1>1
<1>3. ASSUME NEW i \in 1 .. k
      PROVE  /\ (i - 1) * Batch \in Nat /\ i * Batch = (i - 1) * Batch + Batch
             /\ (i - 1) * Batch + Batch <= k * Batch
  BY <1>1, <1>2
<1> QED BY <1>1, <1>2, <1>3

\* persistEvents leaves the stream longer by all its events, whatever the batch.
LEMMA EventsWritten ==
  ASSUME NEW d \in Disks, NEW events \in Seq(Events),
         \A i \in DOMAIN events : events[i].seq = Len(d.events) + i
  PROVE  AllWritten(d, PersistEvents(events)) = [d EXCEPT !.events = @ \o events]
<1> DEFINE n == Len(events)
           k == (n + Batch - 1) \div Batch
           b == [i \in 0 .. k |-> Min({i * Batch, n})]
           h == [i \in 0 .. k |-> [d EXCEPT !.events = Longer(d.events, events, b[i])]]
           w == PersistEvents(events)
<1>1. n \in Nat /\ d.events \in Seq(Events) /\ Batch \in Nat \ {0}
  BY StoreAssumption, LenProperties DEF Disks
<1> HIDE DEF n
<1>2. /\ k \in Nat /\ n <= k * Batch
      /\ \A i \in 1 .. k : /\ (i - 1) * Batch \in Nat /\ (i - 1) * Batch < n
                           /\ i * Batch = (i - 1) * Batch + Batch
  BY <1>1, BatchCount
<1>3. DOMAIN w = 1 .. k
  BY <1>1 DEF PersistEvents, n
<1>4. \A i \in 1 .. k : w[i] = Put("events", SubSeq(events, (i - 1) * Batch + 1, Min({i * Batch, n})))
  BY DEF PersistEvents, n
<1> HIDE DEF k, w
<1>5. \A i \in 0 .. k : b[i] = IF i * Batch <= n THEN i * Batch ELSE n
  <2>1. \A i \in 0 .. k : i * Batch \in Nat
    BY <1>1, <1>2
  <2> QED BY <1>1, <2>1, MinOfTwo
<1>6. b[0] = 0 /\ b[k] = n
  <2>1. 0 \in 0 .. k /\ k \in 0 .. k /\ 0 * Batch = 0 /\ 0 <= n
    BY <1>1, <1>2
  <2> HIDE DEF b
  <2>2. b[0] = 0
    BY <1>5, <2>1
  <2>3. b[k] = IF k * Batch <= n THEN k * Batch ELSE n
    BY <1>5, <2>1
  <2>4. k * Batch \in Nat
    BY <1>1, <1>2
  <2> QED BY <1>1, <1>2, <2>2, <2>3, <2>4
<1>7. ASSUME NEW i \in 1 .. k
      PROVE  /\ i \in 0 .. k /\ i - 1 \in 0 .. k
             /\ b[i - 1] = (i - 1) * Batch /\ Min({i * Batch, n}) = b[i]
             /\ b[i - 1] \in Nat /\ b[i] \in Nat /\ b[i - 1] <= b[i] /\ b[i] <= n
  <2>1. i \in 0 .. k /\ i - 1 \in 0 .. k
    BY <1>2
  <2>2. Min({i * Batch, n}) = b[i]
    BY <2>1
  <2> HIDE DEF b
  <2>3. /\ (i - 1) * Batch \in Nat /\ (i - 1) * Batch < n
        /\ i * Batch = (i - 1) * Batch + Batch
    BY <1>2
  <2>4. /\ b[i] = IF i * Batch <= n THEN i * Batch ELSE n
        /\ b[i - 1] = IF (i - 1) * Batch <= n THEN (i - 1) * Batch ELSE n
    BY <1>5, <2>1
  <2> QED BY <1>1, <2>1, <2>2, <2>3, <2>4
<1> HIDE DEF b
<1>8. \A i \in 0 .. k : h[i] = [d EXCEPT !.events = Longer(d.events, events, b[i])]
  OBVIOUS
<1> HIDE DEF h
<1>9. ASSUME NEW i \in 1 .. k PROVE h[i] = Written(h[i - 1], w[i])
  <2>1. /\ h[i] = [d EXCEPT !.events = Longer(d.events, events, b[i])]
        /\ h[i - 1] = [d EXCEPT !.events = Longer(d.events, events, b[i - 1])]
    BY <1>7, <1>8
  <2>2. w[i] = Put("events", SubSeq(events, b[i - 1] + 1, b[i]))
    BY <1>4, <1>7
  <2>3. Over(Longer(d.events, events, b[i - 1]), Entries(SubSeq(events, b[i - 1] + 1, b[i])))
          = Longer(d.events, events, b[i])
    <3>1. b[i - 1] \in Nat /\ b[i] \in Nat /\ b[i - 1] <= b[i] /\ b[i] <= Len(events)
      BY <1>7 DEF n
    <3>2. d.events \in Seq(Events)
      BY <1>1
    <3> QED BY <3>1, <3>2, LongerBy
  <2>4. Written(h[i - 1], w[i])
          = [h[i - 1] EXCEPT !.events = Over(@, Entries(SubSeq(events, b[i - 1] + 1, b[i])))]
    BY <2>2 DEF Written, Put
  <2>5. d.events = d.events /\ "events" \in DOMAIN d
    BY DEF Disks
  <2> QED BY <2>1, <2>3, <2>4, <2>5
<1>10. Writes(d, w, k, h)
  <2>1. h[0] = d
    <3>1. Longer(d.events, events, 0) = d.events
      BY <1>1, LongerEnds
    <3>2. d = [d EXCEPT !.events = d.events]
      BY DEF Disks
    <3>3. 0 \in 0 .. k
      BY <1>2
    <3>4. h[0] = [d EXCEPT !.events = Longer(d.events, events, 0)]
      BY <1>6, <1>8, <3>3
    <3> QED BY <3>1, <3>2, <3>4
  <2> QED BY <1>2, <1>3, <1>9, <2>1 DEF Writes
<1>11. h[k] = [d EXCEPT !.events = d.events \o events]
  <2>1. k \in 0 .. k
    BY <1>2
  <2>2. h[k] = [d EXCEPT !.events = Longer(d.events, events, n)]
    BY <1>6, <1>8, <2>1
  <2>3. Longer(d.events, events, n) = d.events \o events
    BY <1>1, LongerEnds DEF n
  <2> QED BY <2>2, <2>3
<1>12. AllWritten(d, w) = h[k]
  BY <1>10, WriteValue
<1> QED BY <1>11, <1>12 DEF w

-----------------------------------------------------------------------------
(* Storage between two verbs.                                              *)

LEMMA BlankIsSound == Sound(BlankFold)
BY CoreAssumption DEF Sound, BlankFold, FreshJob, JobTerminal, JobSuccess, JobFailure

\* A sequence is its first n elements and the others.
LEMMA Cut ==
  ASSUME NEW S, NEW s \in Seq(S), NEW n \in 0 .. Len(s)
  PROVE  /\ SubSeq(s, 1, n) \in Seq(S) /\ SubSeq(s, n + 1, Len(s)) \in Seq(S)
         /\ s = SubSeq(s, 1, n) \o SubSeq(s, n + 1, Len(s))
<1>1. Len(s) \in Nat /\ \A i \in 1 .. Len(s) : s[i] \in S
  BY LenProperties
<1>2. SubSeq(s, 1, n) \in Seq(S)
  <2>1. \A i \in 1 .. n : s[i] \in S
    BY <1>1
  <2> QED BY <1>1, <2>1, SubSeqProperties
<1>3. SubSeq(s, n + 1, Len(s)) \in Seq(S)
  <2>1. \A i \in (n + 1) .. Len(s) : s[i] \in S
    BY <1>1
  <2> QED BY <1>1, <2>1, SubSeqProperties
<1>4. SubSeq(s, 1, n) \o SubSeq(s, n + 1, Len(s)) = SubSeq(s, 1, Len(s))
  <2>1. 1 \in 1 .. Len(s) + 1 /\ n \in 1 - 1 .. Len(s) /\ Len(s) \in n .. Len(s)
    BY <1>1
  <2> QED BY <2>1, ConcatAdjacentSubSeq
<1> QED BY <1>2, <1>3, <1>4, SubSeqFull

LEMMA StreamIs ==
  ASSUME NEW d \in Disks
  PROVE  Stream(d) = (IF d.events = << >> THEN d.log ELSE d.events)
<1>1. d.events \in Seq(Events)
  BY DEF Disks
<1>2. SubSeq(d.events, 0 + 1, Len(d.events)) = d.events
  BY <1>1, SubSeqFull
<1> QED BY <1>2 DEF Stream, EventsAfter

\* The stream that is kept folds to a fold that counts its events.
LEMMA KeptStream ==
  ASSUME NEW d, Kept(d)
  PROVE  /\ Stream(d) \in Seq(Events) /\ Len(Stream(d)) \in Nat
         /\ DOMAIN Stream(d) = 1 .. Len(Stream(d))
         /\ Replay(d) \in Folds /\ Replay(d).last = Len(Stream(d))
<1>1. d \in Disks /\ \A i \in DOMAIN Stream(d) : Stream(d)[i].seq = i
  BY DEF Kept
<1>2. Stream(d) \in Seq(Events)
  BY <1>1, StreamIs DEF Disks
<1>3. Len(Stream(d)) \in Nat /\ DOMAIN Stream(d) = 1 .. Len(Stream(d))
  BY <1>2, LenProperties
<1>4. \A i \in DOMAIN Stream(d) : Stream(d)[i].seq = BlankFold.last + i
  BY <1>1, <1>3, BlankIsFold
<1>5. Replay(d) \in Folds /\ Replay(d).last = BlankFold.last + Len(Stream(d))
  BY <1>2, <1>4, BlankIsFold, ReduceType DEF Replay
<1> QED BY <1>2, <1>3, <1>5, BlankIsFold

\* What load() rebuilds: a snapshot and the events after it are the stream.
LEMMA KeptRebuilt ==
  ASSUME NEW d, Kept(d)
  PROVE  Rebuilt(d) = Replay(d) /\ HeadOf(d) = Len(Stream(d))
<1>1. /\ d \in Disks /\ d.snap.through \in 0 .. Len(d.events)
      /\ d.snap.fold = ReduceFrom(BlankFold, SubSeq(d.events, 1, d.snap.through))
      /\ d.head \in {0, Len(d.events)}
  BY DEF Kept
<1>2. d.events \in Seq(Events) /\ Len(d.events) \in Nat
  BY <1>1, LenProperties DEF Disks
<1>3. Rebuilt(d) = Replay(d)
  <2>1. CASE d.snap.through > 0
    <3>1. d.events # << >>
      BY <1>1, <1>2, <2>1, EmptySeq
    <3>2. Replay(d) = ReduceFrom(BlankFold, d.events)
      BY <1>1, <3>1, StreamIs DEF Replay
    <3> DEFINE n == d.snap.through
    <3>3. /\ SubSeq(d.events, 1, n) \in Seq(Events)
          /\ SubSeq(d.events, n + 1, Len(d.events)) \in Seq(Events)
          /\ d.events = SubSeq(d.events, 1, n) \o SubSeq(d.events, n + 1, Len(d.events))
      BY <1>1, <1>2, Cut
    <3>4. Replay(d) = ReduceFrom(d.snap.fold, SubSeq(d.events, n + 1, Len(d.events)))
      <4> DEFINE a == SubSeq(d.events, 1, n)
                 b == SubSeq(d.events, n + 1, Len(d.events))
      <4>1. a \in Seq(Events) /\ b \in Seq(Events) /\ d.events = a \o b
        BY <3>3
      <4>2. d.snap.fold = ReduceFrom(BlankFold, a)
        BY <1>1
      <4> HIDE DEF a, b
      <4>3. ReduceFrom(BlankFold, a \o b) = ReduceFrom(ReduceFrom(BlankFold, a), b)
        BY <4>1, ReduceConcat
      <4>4. Replay(d) = ReduceFrom(d.snap.fold, b)
        BY <3>2, <4>1, <4>2, <4>3
      <4> QED BY <4>4 DEF b
    <3> QED BY <2>1, <3>4 DEF Rebuilt, EventsAfter
  <2>2. CASE ~(d.snap.through > 0)
    BY <2>2 DEF Rebuilt, Replay, Stream
  <2> QED BY <2>1, <2>2
<1>4. HeadOf(d) = Len(Stream(d))
  <2>1. CASE d.head > 0
    <3>1. d.head = Len(d.events) /\ d.events # << >>
      BY <1>1, <1>2, <2>1, EmptySeq
    <3> QED BY <1>1, <2>1, <3>1, StreamIs DEF HeadOf
  <2>2. CASE ~(d.head > 0)
    BY <1>3, <2>2, KeptStream DEF HeadOf
  <2> QED BY <2>1, <2>2
<1> QED BY <1>3, <1>4

LEMMA FreshKept ==
  ASSUME NEW log \in {<< >>} \cup { Numbered(1, old) : old \in OldLogs }
  PROVE  Kept(FreshDisk(log)) /\ Stream(FreshDisk(log)) = log
<1> DEFINE d == FreshDisk(log)
<1>1. log \in Seq(Events) /\ \A i \in DOMAIN log : log[i].seq = i
  <2>1. CASE log = << >>
    BY <2>1
  <2>2. ASSUME NEW old \in OldLogs, log = Numbered(1, old)
        PROVE  log \in Seq(Events) /\ \A i \in DOMAIN log : log[i].seq = i
    <3>1. old \in Seq(Intents) /\ Len(old) \in Nat
      BY OldLogAssumption, LenProperties
    <3>2. /\ log \in Seq(Events) /\ DOMAIN log = 1 .. Len(old)
          /\ \A i \in 1 .. Len(old) : log[i] = [seq |-> 1 + i - 1, what |-> old[i]]
      BY <2>2, <3>1, NumberedIs
    <3>3. \A i \in 1 .. Len(old) : log[i].seq = i
      BY <3>1, <3>2
    <3> QED BY <3>2, <3>3
  <2> QED BY <2>1, <2>2
<1>2. Sound(ReduceFrom(BlankFold, log))
  <2>1. CASE log = << >>
    BY <2>1, BlankIsSound, ReduceEmpty
  <2> QED BY <2>1, OldLogAssumption
<1>3. NoSnap \in [fold : Folds, through : Nat]
  BY BlankIsFold DEF NoSnap
<1>4. d \in Disks
  BY <1>1, <1>3 DEF FreshDisk, Disks
<1>5. /\ d.events = << >> /\ d.log = log /\ (d.plan <=> log # << >>) /\ d.digest = d.plan
      /\ d.head = 0 /\ d.snap.through = 0 /\ d.snap.fold = BlankFold
  BY DEF FreshDisk, NoSnap
<1> HIDE DEF d
<1>6. Stream(d) = log
  BY <1>4, <1>5, StreamIs
<1>7. SubSeq(d.events, 1, d.snap.through) = << >> /\ Len(d.events) = 0
  BY <1>5, SubSeqEmpty
<1>8. Sound(Replay(d))
  BY <1>2, <1>6 DEF Replay
<1>9. d.snap.fold = ReduceFrom(BlankFold, SubSeq(d.events, 1, d.snap.through))
  BY <1>5, <1>7, ReduceEmpty
<1>10. /\ d.snap.through \in 0 .. Len(d.events) /\ d.head \in {0, Len(d.events)}
       /\ \A i \in DOMAIN Stream(d) : Stream(d)[i].seq = i
  BY <1>1, <1>5, <1>6, <1>7
<1>11. Kept(d)
  BY <1>4, <1>5, <1>6, <1>8, <1>9, <1>10 DEF Kept
<1> QED BY <1>6, <1>11 DEF d

-----------------------------------------------------------------------------
(* The three verbs' writes, when all of them are durable.                  *)

\* What storage is handed.
Puts ==
  {Put("events", events) : events \in Seq(Events)} \cup {Put("head", n) : n \in Nat}
    \cup {Put("snap", s) : s \in [fold : Folds, through : Nat]}
    \cup {Put("plan", TRUE), Put("digest", TRUE), Put("log", << >>)}

LEMMA PersistsPuts ==
  ASSUME NEW events \in Seq(Events) PROVE PersistEvents(events) \in Seq(Puts)
<1> DEFINE n == Len(events)
           k == (n + Batch - 1) \div Batch
           w == PersistEvents(events)
<1>1. n \in Nat /\ Batch \in Nat \ {0} /\ \A i \in 1 .. n : events[i] \in Events
  BY StoreAssumption, LenProperties
<1>2. k \in Nat /\ \A i \in 1 .. k : (i - 1) * Batch \in Nat /\ i * Batch \in Nat
  <2>1. /\ k \in Nat
        /\ \A i \in 1 .. k : /\ (i - 1) * Batch \in Nat
                             /\ i * Batch = (i - 1) * Batch + Batch
    BY <1>1, BatchCount
  <2> QED BY <1>1, <2>1
<1>3. w = [i \in 1 .. k |->
             Put("events", SubSeq(events, (i - 1) * Batch + 1, Min({i * Batch, n})))]
  BY DEF PersistEvents
<1> HIDE DEF k, w, n
<1>4. ASSUME NEW i \in 1 .. k
      PROVE  SubSeq(events, (i - 1) * Batch + 1, Min({i * Batch, n})) \in Seq(Events)
  <2> DEFINE a == (i - 1) * Batch
             b == Min({i * Batch, n})
  <2>1. a \in Nat /\ b \in Nat /\ b <= n
    BY <1>1, <1>2, MinOfTwo
  <2> HIDE DEF a, b
  <2>2. \A j \in (a + 1) .. b : events[j] \in Events
    BY <1>1, <2>1
  <2>3. SubSeq(events, a + 1, b) \in Seq(Events)
    BY <2>1, <2>2, SubSeqProperties
  <2> QED BY <2>3 DEF a, b
<1>5. w \in [1 .. k -> Puts]
  BY <1>3, <1>4 DEF Puts
<1> QED BY <1>2, <1>5, FunctionIsSeq DEF w

LEMMA PutsAre ==
  /\ \A n \in Nat : Put("head", n) \in Puts
  /\ \A s \in [fold : Folds, through : Nat] : Put("snap", s) \in Puts
  /\ Put("plan", TRUE) \in Puts /\ Put("digest", TRUE) \in Puts /\ Put("log", << >>) \in Puts
BY Zenon DEF Puts

LEMMA OtherPut ==
  ASSUME NEW d, NEW key, NEW val, key # "events"
  PROVE  AllWritten(d, << Put(key, val) >>) = [d EXCEPT ![key] = val]
BY WriteOne DEF Written, Put

LEMMA OneThenOne ==
  ASSUME NEW S, NEW x \in S, NEW y \in S
  PROVE  /\ << x >> \in Seq(S) /\ << y >> \in Seq(S) /\ << x, y >> \in Seq(S)
         /\ << x, y >> = << x >> \o << y >>
<1>1. << x >> \in Seq(S) /\ << y >> \in Seq(S) /\ << x, y >> \in Seq(S)
  OBVIOUS
<1>2. << x >> \o << y >> = << x, y >>
  <2>1. /\ << x >> \o << y >> \in Seq(S) /\ Len(<< x >> \o << y >>) = 2
        /\ (<< x >> \o << y >>)[1] = x /\ (<< x >> \o << y >>)[2] = y
    BY <1>1, ConcatProperties
  <2>2. Len(<< x, y >>) = 2 /\ << x, y >>[1] = x /\ << x, y >>[2] = y
    OBVIOUS
  <2>3. \A i \in 1 .. 2 : i = 1 \/ i = 2
    OBVIOUS
  <2> QED BY <1>1, <2>1, <2>2, <2>3, SeqEqual
<1> QED BY <1>1, <1>2

\* The writes w are s, then t.
Batches(w, s, t) == s \in Seq(Puts) /\ t \in Seq(Puts) /\ w = s \o t

LEMMA WriteThen ==
  ASSUME NEW d, NEW w, NEW s, NEW t, Batches(w, s, t)
  PROVE  w \in Seq(Puts) /\ AllWritten(d, w) = AllWritten(AllWritten(d, s), t)
<1>1. s \in Seq(Puts) /\ t \in Seq(Puts) /\ w = s \o t
  BY DEF Batches
<1>2. AllWritten(d, s \o t) = AllWritten(AllWritten(d, s), t)
  BY <1>1, WriteConcat
<1> QED BY <1>1, <1>2, ConcatProperties

\* Writing some events after those of the stream.
Following(d, events) ==
  /\ d \in Disks /\ events \in Seq(Events)
  /\ \A i \in 1 .. Len(events) : events[i].seq = Len(d.events) + i

LEMMA EventsThen ==
  ASSUME NEW d, NEW events, Following(d, events)
  PROVE  /\ AllWritten(d, PersistEvents(events)) = [d EXCEPT !.events = d.events \o events]
         /\ d.events \o events \in Seq(Events)
<1>1. d \in Disks /\ events \in Seq(Events)
  BY DEF Following
<1>2. DOMAIN events = 1 .. Len(events) /\ d.events \in Seq(Events)
  BY <1>1, LenProperties DEF Disks
<1>3. \A i \in DOMAIN events : events[i].seq = Len(d.events) + i
  BY <1>2 DEF Following
<1>4. AllWritten(d, PersistEvents(events)) = [d EXCEPT !.events = @ \o events]
  BY <1>1, <1>3, EventsWritten
<1> QED BY <1>1, <1>2, <1>4, ConcatProperties

\* One value of storage replaced.
LEMMA DiskExcept ==
  ASSUME NEW d \in Disks
  PROVE  /\ \A x \in Seq(Events) : LET e == [d EXCEPT !.events = x] IN
              /\ e \in Disks /\ e.events = x /\ e.log = d.log /\ e.plan = d.plan
              /\ e.digest = d.digest /\ e.head = d.head /\ e.snap = d.snap
         /\ \A x \in Nat : LET e == [d EXCEPT !["head"] = x] IN
              /\ e \in Disks /\ e.events = d.events /\ e.log = d.log /\ e.plan = d.plan
              /\ e.digest = d.digest /\ e.head = x /\ e.snap = d.snap
         /\ \A x \in [fold : Folds, through : Nat] : LET e == [d EXCEPT !["snap"] = x] IN
              /\ e \in Disks /\ e.events = d.events /\ e.log = d.log /\ e.plan = d.plan
              /\ e.digest = d.digest /\ e.head = d.head /\ e.snap = x
         /\ \A x \in Seq(Events) : LET e == [d EXCEPT !["log"] = x] IN
              /\ e \in Disks /\ e.events = d.events /\ e.log = x /\ e.plan = d.plan
              /\ e.digest = d.digest /\ e.head = d.head /\ e.snap = d.snap
<1> DEFINE Snaps == [fold : Folds, through : Nat]
<1>0. d \in [plan : BOOLEAN, digest : BOOLEAN, events : Seq(Events), head : Nat,
            snap : Snaps, log : Seq(Events)]
  BY DEF Disks
<1>9. \A e : e \in [plan : BOOLEAN, digest : BOOLEAN, events : Seq(Events), head : Nat,
                   snap : Snaps, log : Seq(Events)] => e \in Disks
  BY DEF Disks
<1> HIDE DEF Snaps
<1>1. \A x \in Seq(Events) : LET e == [d EXCEPT !.events = x] IN
         /\ e \in Disks /\ e.events = x /\ e.log = d.log /\ e.plan = d.plan
         /\ e.digest = d.digest /\ e.head = d.head /\ e.snap = d.snap
  BY <1>0, <1>9
<1>2. \A x \in Nat : LET e == [d EXCEPT !["head"] = x] IN
         /\ e \in Disks /\ e.events = d.events /\ e.log = d.log /\ e.plan = d.plan
         /\ e.digest = d.digest /\ e.head = x /\ e.snap = d.snap
  BY <1>0, <1>9
<1>3. \A x \in Snaps : LET e == [d EXCEPT !["snap"] = x] IN
         /\ e \in Disks /\ e.events = d.events /\ e.log = d.log /\ e.plan = d.plan
         /\ e.digest = d.digest /\ e.head = d.head /\ e.snap = x
  BY <1>0, <1>9
<1>4. \A x \in Seq(Events) : LET e == [d EXCEPT !["log"] = x] IN
         /\ e \in Disks /\ e.events = d.events /\ e.log = x /\ e.plan = d.plan
         /\ e.digest = d.digest /\ e.head = d.head /\ e.snap = d.snap
  BY <1>0, <1>9
<1> QED BY <1>1, <1>2, <1>3, <1>4 DEF Snaps

\* Load, of an old log.
Migration(d, writes, e) ==
  /\ d.events = << >> /\ d.log # << >>
  /\ writes = Append(PersistEvents(d.log), Put("log", << >>)) /\ e = AllWritten(d, writes)

LEMMA Migrated ==
  ASSUME NEW d, NEW writes, NEW e, Kept(d), Migration(d, writes, e)
  PROVE  /\ writes \in Seq(Puts) /\ Kept(e) /\ e.log = << >> /\ e.plan = d.plan
         /\ Stream(e) = Stream(d)
<1>1. /\ d \in Disks /\ (d.plan <=> Stream(d) # << >>) /\ d.digest = d.plan
      /\ \A i \in DOMAIN Stream(d) : Stream(d)[i].seq = i
      /\ d.head \in {0, Len(d.events)} /\ d.snap.through \in 0 .. Len(d.events)
      /\ d.snap.fold = ReduceFrom(BlankFold, SubSeq(d.events, 1, d.snap.through))
      /\ Sound(Replay(d))
  BY DEF Kept
<1>0. /\ d.events = << >> /\ d.log # << >>
      /\ writes = Append(PersistEvents(d.log), Put("log", << >>)) /\ e = AllWritten(d, writes)
  BY DEF Migration
<1>2. d.log \in Seq(Events) /\ d.events \in Seq(Events) /\ Len(d.events) = 0
  BY <1>0, <1>1, EmptySeq DEF Disks
<1>3. Stream(d) = d.log
  BY <1>0, <1>1, StreamIs
<1>4. writes \in Seq(Puts) /\ writes = PersistEvents(d.log) \o << Put("log", << >>) >>
  BY <1>0, <1>2, PersistsPuts, PutsAre, AppendProperties, AppendIsConcat
<1>5. AllWritten(d, PersistEvents(d.log)) = [d EXCEPT !.events = d.events \o d.log]
  <2>1. \A i \in 1 .. Len(d.log) : d.log[i].seq = 0 + i
    BY <1>1, <1>2, <1>3, LenProperties
  <2>2. Following(d, d.log)
    BY <1>1, <1>2, <2>1 DEF Following
  <2> QED BY <2>2, EventsThen
<1>6. d.events \o d.log = d.log
  BY <1>0, <1>2, ConcatEmptySeq
<1>7. e = [[d EXCEPT !.events = d.log] EXCEPT !["log"] = << >>]
  <2>1. << Put("log", << >>) >> \in Seq(Puts)
    BY PutsAre
  <2>2. e = AllWritten(AllWritten(d, PersistEvents(d.log)), << Put("log", << >>) >>)
    <3>1. PersistEvents(d.log) \in Seq(Puts)
      BY <1>2, PersistsPuts
    <3>2. Batches(writes, PersistEvents(d.log), << Put("log", << >>) >>)
      BY <1>4, <2>1, <3>1 DEF Batches
    <3> QED BY <1>0, <3>2, WriteThen
  <2> QED
    <3> DEFINE m == AllWritten(d, PersistEvents(d.log))
    <3>1. e = AllWritten(m, << Put("log", << >>) >>) /\ m = [d EXCEPT !.events = d.log]
      BY <1>5, <1>6, <2>2
    <3> HIDE DEF m
    <3>2. AllWritten(m, << Put("log", << >>) >>) = [m EXCEPT !["log"] = << >>]
      BY OtherPut
    <3> QED BY <3>1, <3>2
<1>8. /\ e \in Disks /\ e.events = d.log /\ e.log = << >> /\ e.plan = d.plan
      /\ e.digest = d.digest /\ e.head = d.head /\ e.snap = d.snap
  <2> DEFINE m == [d EXCEPT !.events = d.log]
  <2>1. /\ m \in Disks /\ m.events = d.log /\ m.log = d.log /\ m.plan = d.plan
        /\ m.digest = d.digest /\ m.head = d.head /\ m.snap = d.snap
    BY <1>1, <1>2, DiskExcept
  <2>2. e = [m EXCEPT !["log"] = << >>]
    BY <1>7
  <2> HIDE DEF m
  <2> QED BY <2>1, <2>2, EmptySeq, DiskExcept
<1>9. Stream(e) = d.log
  BY <1>8, StreamIs
<1>10. e.head = 0 /\ e.snap.through = 0 /\ 0 \in 0 .. Len(e.events)
  BY <1>0, <1>1, <1>2, <1>8, LenProperties
<1>11. e.snap.fold = ReduceFrom(BlankFold, SubSeq(e.events, 1, e.snap.through))
  <2>1. SubSeq(d.events, 1, d.snap.through) = << >> /\ SubSeq(e.events, 1, e.snap.through) = << >>
    BY <1>8, <1>10, SubSeqEmpty
  <2> QED BY <1>1, <1>8, <2>1
<1>12. Sound(Replay(e))
  BY <1>1, <1>3, <1>9 DEF Replay
<1>13. Kept(e)
  BY <1>0, <1>1, <1>3, <1>8, <1>9, <1>10, <1>11, <1>12 DEF Kept
<1> QED BY <1>3, <1>4, <1>8, <1>9, <1>13

\* InitRun.
Starting(d, first, writes, e) ==
  /\ ~d.digest /\ first = Numbered(1, << RunEvent("RunCreated") >>)
  /\ writes = << Put("plan", TRUE), Put("digest", TRUE) >>
                 \o PersistEvents(first) \o << Put("head", 1) >>
  /\ e = AllWritten(d, writes)

LEMMA Started ==
  ASSUME NEW d, NEW first, NEW writes, NEW e, Kept(d), Starting(d, first, writes, e)
  PROVE  /\ writes \in Seq(Puts) /\ Kept(e) /\ e.log = << >> /\ e.plan
         /\ Stream(d) = << >> /\ Stream(e) = first /\ Len(first) = 1
         /\ \A j \in Jobs : Replay(e).jobs[j] = FreshJob
<1>1. /\ d \in Disks /\ (d.plan <=> Stream(d) # << >>) /\ d.digest = d.plan
      /\ (d.events = << >> \/ d.log = << >>)
      /\ d.head \in {0, Len(d.events)} /\ d.snap.through \in 0 .. Len(d.events)
      /\ d.snap.fold = ReduceFrom(BlankFold, SubSeq(d.events, 1, d.snap.through))
  BY DEF Kept
<1>2. d.log \in Seq(Events) /\ d.events \in Seq(Events)
  BY <1>1 DEF Disks
<1>3. Stream(d) = << >> /\ d.log = << >> /\ d.events = << >> /\ Len(d.events) = 0
  BY <1>1, StreamIs DEF Starting
<1>4. << RunEvent("RunCreated") >> \in Seq(Intents) /\ Len(<< RunEvent("RunCreated") >>) = 1
  BY DEF Intents, RunEvent
<1> DEFINE created == [seq |-> 1, what |-> RunEvent("RunCreated")]
<1>5. /\ first \in Seq(Events) /\ Len(first) = 1 /\ DOMAIN first = 1 .. 1
      /\ first[1] = created
  <2> DEFINE w == << RunEvent("RunCreated") >>
  <2>1. w \in Seq(Intents) /\ Len(w) = 1 /\ w[1] = RunEvent("RunCreated") /\ 1 \in Nat \ {0}
    BY <1>4
  <2> HIDE DEF w
  <2>2. /\ Numbered(1, w) \in Seq(Events) /\ Len(Numbered(1, w)) = 1
        /\ DOMAIN Numbered(1, w) = 1 .. 1
        /\ \A i \in 1 .. 1 : Numbered(1, w)[i] = [seq |-> 1 + i - 1, what |-> w[i]]
    BY <2>1, NumberedIs
  <2>3. 1 \in 1 .. 1 /\ 1 + 1 - 1 = 1
    OBVIOUS
  <2>4. Numbered(1, w)[1] = [seq |-> 1, what |-> w[1]]
    BY <2>2, <2>3
  <2> QED BY <2>1, <2>2, <2>4 DEF w, Starting
<1>6. first = << created >>
  BY <1>5
<1> DEFINE a == << Put("plan", TRUE), Put("digest", TRUE) >>
           b == PersistEvents(first)
           c == << Put("head", 1) >>
<1>7. a \in Seq(Puts) /\ b \in Seq(Puts) /\ c \in Seq(Puts)
  <2>1. a \in Seq(Puts)
    BY PutsAre, OneThenOne
  <2>2. c \in Seq(Puts)
    <3>1. Put("head", 1) \in Puts
      BY PutsAre
    <3> HIDE DEF Put
    <3> QED BY <3>1
  <2> QED BY <1>5, <2>1, <2>2, PersistsPuts
<1>8. writes \in Seq(Puts) /\ e = AllWritten(AllWritten(AllWritten(d, a), b), c)
  <2> DEFINE ab == a \o b
  <2>1. writes = ab \o c /\ e = AllWritten(d, writes)
    BY DEF Starting
  <2> HIDE DEF a, b, c
  <2>2. Batches(ab, a, b)
    BY <1>7 DEF Batches
  <2> HIDE DEF ab
  <2>3. ab \in Seq(Puts) /\ AllWritten(d, ab) = AllWritten(AllWritten(d, a), b)
    BY <2>2, WriteThen
  <2>4. Batches(writes, ab, c)
    BY <1>7, <2>1, <2>3 DEF Batches
  <2>5. writes \in Seq(Puts) /\ AllWritten(d, writes) = AllWritten(AllWritten(d, ab), c)
    BY <2>4, WriteThen
  <2> QED BY <2>1, <2>3, <2>5
<1> DEFINE d1 == [[d EXCEPT !["plan"] = TRUE] EXCEPT !["digest"] = TRUE]
<1>9. AllWritten(d, a) = d1
  <2> DEFINE x == Put("plan", TRUE)
             y == Put("digest", TRUE)
  <2>1. AllWritten(d, << x >>) = [d EXCEPT !["plan"] = TRUE]
    BY OtherPut
  <2>2. AllWritten([d EXCEPT !["plan"] = TRUE], << y >>) = d1
    BY OtherPut
  <2>3. x \in Puts /\ y \in Puts
    BY PutsAre
  <2>4. a = << x, y >>
    OBVIOUS
  <2> HIDE DEF a, x, y, d1
  <2>5. << x >> \in Seq(Puts) /\ << y >> \in Seq(Puts) /\ a = << x >> \o << y >>
    BY <2>3, <2>4, OneThenOne
  <2>6. Batches(a, << x >>, << y >>)
    BY <2>5 DEF Batches
  <2>7. AllWritten(d, a) = AllWritten(AllWritten(d, << x >>), << y >>)
    BY <2>6, WriteThen
  <2> QED BY <2>1, <2>2, <2>7
<1>10. /\ d1 \in Disks /\ d1.events = << >> /\ d1.log = << >> /\ d1.plan /\ d1.digest
       /\ d1.head = d.head /\ d1.snap = d.snap
  BY <1>1, <1>3 DEF Disks
<1> HIDE DEF d1
<1>11. AllWritten(d1, b) = [d1 EXCEPT !.events = first]
  <2>1. Following(d1, first)
    BY <1>5, <1>10 DEF Following
  <2>2. AllWritten(d1, b) = [d1 EXCEPT !.events = d1.events \o first]
    BY <2>1, EventsThen
  <2>3. << >> \o first = first
    BY <1>5, ConcatEmptySeq
  <2> QED BY <1>10, <2>2, <2>3
<1>12. e = [[d1 EXCEPT !.events = first] EXCEPT !["head"] = 1]
  <2>1. e = AllWritten([d1 EXCEPT !.events = first], c)
    BY <1>8, <1>9, <1>11
  <2> DEFINE m == [d1 EXCEPT !.events = first]
  <2>2. AllWritten(m, c) = [m EXCEPT !["head"] = 1]
    <3> HIDE DEF m
    <3> QED BY OtherPut
  <2> QED BY <2>1, <2>2
<1>13. /\ e \in Disks /\ e.events = first /\ e.log = << >> /\ e.plan /\ e.digest
       /\ e.head = 1 /\ e.snap = d.snap
  <2> DEFINE m == [d1 EXCEPT !.events = first]
  <2>1. first \in Seq(Events) /\ d1 \in Disks /\ 1 \in Nat
    BY <1>5, <1>10
  <2>2. /\ m \in Disks /\ m.events = first /\ m.log = d1.log /\ m.plan = d1.plan
        /\ m.digest = d1.digest /\ m.head = d1.head /\ m.snap = d1.snap
    BY <2>1, DiskExcept
  <2>3. e = [m EXCEPT !["head"] = 1]
    BY <1>12
  <2> HIDE DEF m
  <2>4. /\ e \in Disks /\ e.events = m.events /\ e.log = m.log /\ e.plan = m.plan
        /\ e.digest = m.digest /\ e.head = 1 /\ e.snap = m.snap
    BY <2>1, <2>2, <2>3, DiskExcept
  <2> QED BY <1>10, <2>2, <2>4
<1>14. Stream(e) = first /\ first # << >>
  <2>1. first # << >>
    BY <1>5, EmptySeq
  <2> QED BY <1>13, <2>1, StreamIs
<1>15. e.snap.fold = ReduceFrom(BlankFold, SubSeq(e.events, 1, e.snap.through))
  <2>1. d.snap.through = 0
    BY <1>1, <1>3
  <2>2. SubSeq(d.events, 1, d.snap.through) = << >> /\ SubSeq(e.events, 1, e.snap.through) = << >>
    BY <1>13, <2>1, SubSeqEmpty
  <2> QED BY <1>1, <1>13, <2>2
<1>16. Replay(e) = [Goes(BlankFold, BlankFold.jobs, 1) EXCEPT !.created = TRUE]
  <2>1. Replay(e) = Apply(BlankFold, created)
    BY <1>6, <1>14, ReduceOne DEF Replay
  <2>2. created.what.kind = "RunCreated" /\ created.seq = 1
    BY DEF RunEvent
  <2> HIDE DEF created
  <2> QED BY <2>1, <2>2, ApplyRun
<1>17. Goes(BlankFold, BlankFold.jobs, 1) \in Folds
  BY BlankIsFold, GoesIs DEF Folds
<1>18. /\ Replay(e).jobs = BlankFold.jobs /\ Replay(e).canceled = BlankFold.canceled
  BY <1>16, <1>17, BlankIsFold, GoesIs DEF Folds
<1>19. Sound(Replay(e))
  BY <1>18, BlankIsSound DEF Sound
<1>20. \A i \in DOMAIN Stream(e) : Stream(e)[i].seq = i
  BY <1>5, <1>14
<1>21. e.snap.through \in 0 .. Len(e.events) /\ Len(e.events) = 1
  BY <1>1, <1>3, <1>5, <1>13
<1>22. Kept(e)
  BY <1>13, <1>14, <1>15, <1>19, <1>20, <1>21 DEF Kept
<1>23. \A j \in Jobs : Replay(e).jobs[j] = FreshJob
  BY <1>18 DEF BlankFold
<1> QED BY <1>3, <1>5, <1>8, <1>13, <1>14, <1>22, <1>23

\* The stream t is a, then b.
Streams(t, a, b) == a \in Seq(Events) /\ b \in Seq(Events) /\ t = a \o b

LEMMA StreamParts ==
  ASSUME NEW t, NEW a, NEW b, Streams(t, a, b)
  PROVE  /\ t \in Seq(Events) /\ Len(t) = Len(a) + Len(b) /\ DOMAIN t = 1 .. (Len(a) + Len(b))
         /\ \A i \in 1 .. Len(a) : t[i] = a[i]
         /\ \A i \in 1 .. Len(b) : t[Len(a) + i] = b[i]
<1>1. a \in Seq(Events) /\ b \in Seq(Events) /\ t = a \o b
  BY DEF Streams
<1> QED BY <1>1, ConcatProperties, ConcatFacts

LEMMA StreamThen ==
  ASSUME NEW t, NEW a, NEW b, Streams(t, a, b), NEW st
  PROVE  ReduceFrom(st, t) = ReduceFrom(ReduceFrom(st, a), b)
BY ReduceConcat DEF Streams

LEMMA StreamRange ==
  ASSUME NEW t, NEW a, NEW b, Streams(t, a, b)
  PROVE  Range(t) = Range(a) \cup Range(b)
BY RangeConcatenation DEF Streams

\* AppendAll, at the head of the stream.
Appending(d, at, intents, events, g, writes, e) ==
  /\ d.plan /\ d.log = << >> /\ intents \in Seq(Intents)
  /\ events = Numbered(Len(Stream(d)) + 1, intents)
  /\ g = ReduceFrom(Replay(d), events)
  /\ writes = PersistEvents(events) \o << Put("head", Len(Stream(d)) + Len(intents)) >>
                 \o MaybeSnapshot(Replay(d), g, at)
  /\ e = AllWritten(d, writes)

LEMMA AppendedEvents ==
  ASSUME NEW d, NEW at, NEW intents, NEW events, NEW g, NEW writes, NEW e,
         Kept(d), Appending(d, at, intents, events, g, writes, e)
  PROVE  /\ events \in Seq(Events) /\ Len(events) = Len(intents) /\ DOMAIN events = 1 .. Len(intents)
         /\ \A i \in 1 .. Len(intents) :
              events[i] = [seq |-> Len(Stream(d)) + i, what |-> intents[i]]
         /\ g \in Folds /\ g.last = Len(Stream(d)) + Len(intents)
         /\ Len(intents) \in Nat
<1>1. intents \in Seq(Intents) /\ Len(intents) \in Nat
  BY LenProperties DEF Appending
<1>2. Len(Stream(d)) \in Nat /\ Replay(d) \in Folds /\ Replay(d).last = Len(Stream(d))
  BY KeptStream
<1>3. events = Numbered(Len(Stream(d)) + 1, intents) /\ Len(Stream(d)) + 1 \in Nat \ {0}
  BY <1>2 DEF Appending
<1>4. /\ events \in Seq(Events) /\ Len(events) = Len(intents) /\ DOMAIN events = 1 .. Len(intents)
      /\ \A i \in 1 .. Len(intents) :
           events[i] = [seq |-> (Len(Stream(d)) + 1) + i - 1, what |-> intents[i]]
  BY <1>1, <1>3, NumberedIs
<1>5. \A i \in 1 .. Len(intents) : (Len(Stream(d)) + 1) + i - 1 = Len(Stream(d)) + i
  BY <1>1, <1>2
<1>6. \A i \in 1 .. Len(intents) : events[i] = [seq |-> Len(Stream(d)) + i, what |-> intents[i]]
  BY <1>4, <1>5
<1>7. \A i \in DOMAIN events : events[i].seq = Replay(d).last + i
  BY <1>2, <1>4, <1>6
<1>8. g = ReduceFrom(Replay(d), events)
  BY DEF Appending
<1>9. g \in Folds /\ g.last = Len(Stream(d)) + Len(intents)
  BY <1>2, <1>4, <1>7, <1>8, ReduceType
<1> QED BY <1>1, <1>4, <1>6, <1>9

LEMMA SnapshotIs ==
  ASSUME NEW f, NEW g, NEW at
  PROVE  \/ MaybeSnapshot(f, g, at) = << >>
         \/ MaybeSnapshot(f, g, at) = << Put("snap", [fold |-> g, through |-> g.last]) >>
BY Zenon DEF MaybeSnapshot

\* Its writes are those of the events, of the head and perhaps of a snapshot.
LEMMA AppendedDisk ==
  ASSUME NEW d, NEW at, NEW intents, NEW events, NEW g, NEW writes, NEW e,
         Kept(d), Appending(d, at, intents, events, g, writes, e)
  PROVE  /\ writes \in Seq(Puts) /\ e \in Disks /\ e.events = d.events \o events
         /\ e.log = d.log /\ e.plan = d.plan /\ e.digest = d.digest
         /\ e.head = Len(Stream(d)) + Len(intents)
         /\ e.snap = d.snap \/ (e.snap.fold = g /\ e.snap.through = g.last)
<1> DEFINE n == Len(Stream(d)) + Len(intents)
           a == PersistEvents(events)
           b == << Put("head", n) >>
           c == MaybeSnapshot(Replay(d), g, at)
           s == [fold |-> g, through |-> g.last]
           d1 == [d EXCEPT !.events = d.events \o events]
           d2 == [d1 EXCEPT !["head"] = n]
<1>1. /\ events \in Seq(Events) /\ Len(events) = Len(intents)
      /\ \A i \in 1 .. Len(intents) : events[i] = [seq |-> Len(Stream(d)) + i, what |-> intents[i]]
      /\ g \in Folds /\ g.last = n /\ n \in Nat /\ s \in [fold : Folds, through : Nat]
  <2>1. /\ events \in Seq(Events) /\ Len(events) = Len(intents)
        /\ \A i \in 1 .. Len(intents) :
             events[i] = [seq |-> Len(Stream(d)) + i, what |-> intents[i]]
        /\ g \in Folds /\ g.last = n /\ Len(intents) \in Nat
    BY AppendedEvents
  <2>2. Len(Stream(d)) \in Nat
    BY KeptStream
  <2> QED BY <2>1, <2>2
<1>2. d \in Disks /\ Stream(d) = d.events
  <2>1. d \in Disks /\ (d.plan <=> Stream(d) # << >>) /\ d.plan /\ d.log = << >>
    BY DEF Kept, Appending
  <2> QED BY <2>1, StreamIs
<1>3. writes = (a \o b) \o c /\ e = AllWritten(d, writes)
  BY DEF Appending
<1>4. AllWritten(d, a) = d1 /\ d.events \o events \in Seq(Events)
  <2>1. ASSUME NEW i \in 1 .. Len(events) PROVE events[i].seq = Len(d.events) + i
    <3>1. events[i] = [seq |-> Len(Stream(d)) + i, what |-> intents[i]]
      BY <1>1
    <3> QED BY <1>2, <3>1
  <2>2. Following(d, events)
    BY <1>1, <1>2, <2>1 DEF Following
  <2> QED BY <2>2, EventsThen
<1>5. AllWritten(d1, b) = d2
  <2> HIDE DEF d1, n
  <2> QED BY OtherPut
<1>6. /\ d2 \in Disks /\ d2.events = d.events \o events /\ d2.log = d.log /\ d2.plan = d.plan
      /\ d2.digest = d.digest /\ d2.head = n /\ d2.snap = d.snap
  <2>1. /\ d1 \in Disks /\ d1.events = d.events \o events /\ d1.log = d.log /\ d1.plan = d.plan
        /\ d1.digest = d.digest /\ d1.snap = d.snap
    BY <1>2, <1>4, DiskExcept
  <2> HIDE DEF d1, n
  <2> QED BY <1>1, <2>1, DiskExcept
<1> HIDE DEF n
<1>7. a \in Seq(Puts) /\ b \in Seq(Puts) /\ c \in Seq(Puts)
  <2>1. b \in Seq(Puts)
    <3>1. Put("head", n) \in Puts
      BY <1>1, PutsAre
    <3> QED BY <3>1, OneThenOne
  <2>2. c \in Seq(Puts)
    <3>1. Put("snap", s) \in Puts
      BY <1>1, PutsAre
    <3> HIDE DEF s
    <3>2. << Put("snap", s) >> \in Seq(Puts)
      BY <3>1, OneThenOne
    <3> QED BY <3>2, SnapshotIs, EmptySeq DEF s
  <2> QED BY <1>1, <2>1, <2>2, PersistsPuts
<1>8. writes \in Seq(Puts) /\ e = AllWritten(d2, c)
  <2> DEFINE ab == a \o b
  <2> HIDE DEF a, b, c, d1, d2
  <2>1. Batches(ab, a, b)
    BY <1>7 DEF Batches
  <2>2. writes = ab \o c
    BY <1>3
  <2> HIDE DEF ab
  <2>3. ab \in Seq(Puts) /\ AllWritten(d, ab) = AllWritten(AllWritten(d, a), b)
    BY <2>1, WriteThen
  <2>4. Batches(writes, ab, c)
    BY <1>7, <2>2, <2>3 DEF Batches
  <2>5. writes \in Seq(Puts) /\ AllWritten(d, writes) = AllWritten(AllWritten(d, ab), c)
    BY <2>4, WriteThen
  <2> QED BY <1>3, <1>4, <1>5, <2>3, <2>5
<1> HIDE DEF d1, d2
<1>9. e = d2 \/ e = [d2 EXCEPT !["snap"] = s]
  <2> HIDE DEF s
  <2>1. CASE c = << >>
    BY <1>8, <2>1, WriteEmpty
  <2>2. CASE c = << Put("snap", s) >>
    <3>1. AllWritten(d2, << Put("snap", s) >>) = [d2 EXCEPT !["snap"] = s]
      BY OtherPut
    <3> QED BY <1>8, <2>2, <3>1
  <2> QED BY <2>1, <2>2, SnapshotIs DEF s
<1>10. CASE e = d2
  BY <1>6, <1>8, <1>10 DEF n
<1>11. CASE e = [d2 EXCEPT !["snap"] = s]
  <2>1. /\ e \in Disks /\ e.events = d2.events /\ e.log = d2.log /\ e.plan = d2.plan
        /\ e.digest = d2.digest /\ e.head = d2.head /\ e.snap = s
    BY <1>1, <1>6, <1>11, DiskExcept
  <2> QED BY <1>6, <1>8, <2>1 DEF n
<1> QED BY <1>9, <1>10, <1>11

LEMMA Appended ==
  ASSUME NEW d, NEW at, NEW intents, NEW events, NEW g, NEW writes, NEW e,
         Kept(d), Appending(d, at, intents, events, g, writes, e), Sound(g)
  PROVE  /\ writes \in Seq(Puts) /\ Kept(e) /\ e.log = << >> /\ e.plan
         /\ Stream(e) = Stream(d) \o events /\ Replay(e) = g /\ events \in Seq(Events)
         /\ Len(Stream(e)) = Len(Stream(d)) + Len(intents)
<1> DEFINE l == Len(d.events)
           n == Len(intents)
<1>1. /\ events \in Seq(Events) /\ Len(events) = n /\ DOMAIN events = 1 .. n
      /\ \A i \in 1 .. n : events[i] = [seq |-> Len(Stream(d)) + i, what |-> intents[i]]
      /\ g \in Folds /\ g.last = Len(Stream(d)) + n /\ n \in Nat
  BY AppendedEvents
<1>2. /\ writes \in Seq(Puts) /\ e \in Disks /\ e.events = d.events \o events
      /\ e.log = d.log /\ e.plan = d.plan /\ e.digest = d.digest
      /\ e.head = Len(Stream(d)) + n
      /\ e.snap = d.snap \/ (e.snap.fold = g /\ e.snap.through = g.last)
  BY AppendedDisk
<1>3. /\ d \in Disks /\ d.plan /\ d.log = << >> /\ d.digest = d.plan
      /\ (d.plan <=> Stream(d) # << >>) /\ \A i \in DOMAIN Stream(d) : Stream(d)[i].seq = i
      /\ d.snap.through \in 0 .. Len(d.events)
      /\ d.snap.fold = ReduceFrom(BlankFold, SubSeq(d.events, 1, d.snap.through))
      /\ g = ReduceFrom(Replay(d), events)
  BY DEF Kept, Appending
<1>4. Stream(d) = d.events /\ d.events # << >>
  BY <1>3, StreamIs
<1>5. /\ d.events \in Seq(Events) /\ l \in Nat /\ l > 0
  BY <1>3, <1>4, EmptySeq, LenProperties DEF Disks
<1> DEFINE t == d.events \o events
<1>6. /\ t \in Seq(Events) /\ Len(t) = l + n /\ DOMAIN t = 1 .. (l + n)
      /\ \A i \in 1 .. l : t[i] = d.events[i]
      /\ \A i \in 1 .. n : t[l + i] = events[i]
  <2>1. Streams(t, d.events, events)
    BY <1>1, <1>5 DEF Streams
  <2> HIDE DEF t
  <2>2. /\ t \in Seq(Events) /\ Len(t) = Len(d.events) + Len(events)
        /\ DOMAIN t = 1 .. (Len(d.events) + Len(events))
        /\ \A i \in 1 .. Len(d.events) : t[i] = d.events[i]
        /\ \A i \in 1 .. Len(events) : t[Len(d.events) + i] = events[i]
    BY <2>1, StreamParts
  <2>3. Len(events) = n
    BY <1>1
  <2> QED BY <2>2, <2>3
<1>7. ReduceFrom(BlankFold, t) = g
  <2>1. Streams(t, d.events, events)
    BY <1>1, <1>5 DEF Streams
  <2>2. ReduceFrom(BlankFold, t) = ReduceFrom(ReduceFrom(BlankFold, d.events), events)
    BY <2>1, StreamThen
  <2>3. Replay(d) = ReduceFrom(BlankFold, d.events)
    BY <1>4 DEF Replay
  <2> HIDE DEF t
  <2> QED BY <1>3, <2>2, <2>3
<1> HIDE DEF t
<1>8. t # << >> /\ SubSeq(t, 1, Len(t)) = t
  BY <1>1, <1>5, <1>6, EmptySeq, SubSeqFull
<1>9. Stream(e) = t /\ Replay(e) = g
  BY <1>2, <1>7, <1>8, StreamIs DEF t, Replay
<1>10. ASSUME NEW i \in 1 .. (l + n) PROVE t[i].seq = i
  <2>1. CASE i \in 1 .. l
    <3>1. DOMAIN d.events = 1 .. l /\ t[i] = d.events[i]
      BY <1>5, <1>6, <2>1, LenProperties
    <3> QED BY <1>3, <1>4, <2>1, <3>1
  <2>2. ASSUME NEW k \in 1 .. n, i = l + k PROVE t[i].seq = i
    BY <1>1, <1>4, <1>6, <2>2
  <2>3. i \in 1 .. l \/ \E k \in 1 .. n : i = l + k
    BY <1>1, <1>5, Split
  <2> QED BY <2>1, <2>2, <2>3
<1>11. /\ e.snap.through \in 0 .. Len(t)
       /\ e.snap.fold = ReduceFrom(BlankFold, SubSeq(t, 1, e.snap.through))
  <2>1. CASE e.snap = d.snap
    <3>1. d.snap.through \in 0 .. (l + n)
      BY <1>1, <1>3, <1>5
    <3>2. SubSeq(t, 1, d.snap.through) = SubSeq(d.events, 1, d.snap.through)
      BY <1>1, <1>3, <1>5, SubSeqOfConcat1, SubSeqEmpty DEF t
    <3> QED BY <1>3, <1>6, <2>1, <3>1, <3>2
  <2>2. CASE e.snap.fold = g /\ e.snap.through = g.last
    <3>1. g.last = l + n /\ Len(t) = l + n
      BY <1>1, <1>4, <1>6
    <3>2. e.snap.through = Len(t) /\ Len(t) \in Nat
      BY <1>1, <1>5, <2>2, <3>1
    <3>3. Len(t) \in 0 .. Len(t)
      BY <3>2
    <3> QED BY <1>7, <1>8, <2>2, <3>2, <3>3
  <2> QED BY <1>2, <2>1, <2>2
<1>12. e.head = Len(t) /\ e.head > 0 /\ e.events = t
  BY <1>1, <1>2, <1>4, <1>5, <1>6 DEF t
<1>13. Kept(e)
  BY <1>2, <1>3, <1>6, <1>8, <1>9, <1>10, <1>11, <1>12 DEF Kept
<1> QED BY <1>1, <1>2, <1>3, <1>4, <1>6, <1>9, <1>13 DEF t

-----------------------------------------------------------------------------
(* What the deciders append, folded.                                       *)

\* The fold after the intents are appended.
Decided(st, intents) == ReduceFrom(st, Numbered(st.last + 1, intents))

Once(st, w) == Apply(st, [seq |-> st.last + 1, what |-> w])

LEMMA DecidedType ==
  ASSUME NEW st \in Folds, NEW intents \in Seq(Intents)
  PROVE  Decided(st, intents) \in Folds /\ Decided(st, intents).last = st.last + Len(intents)
<1> DEFINE events == Numbered(st.last + 1, intents)
<1>1. st.last \in Nat /\ st.last + 1 \in Nat \ {0} /\ Len(intents) \in Nat
  BY LenProperties DEF Folds
<1>2. /\ events \in Seq(Events) /\ Len(events) = Len(intents)
      /\ DOMAIN events = 1 .. Len(intents)
      /\ \A i \in 1 .. Len(intents) :
           events[i] = [seq |-> (st.last + 1) + i - 1, what |-> intents[i]]
  BY <1>1, NumberedIs
<1>3. ASSUME NEW i \in DOMAIN events PROVE events[i].seq = st.last + i
  <2> HIDE DEF events
  <2>1. i \in 1 .. Len(intents) /\ (st.last + 1) + i - 1 = st.last + i
    BY <1>1, <1>2
  <2>2. events[i] = [seq |-> (st.last + 1) + i - 1, what |-> intents[i]]
    BY <1>2, <2>1
  <2> QED BY <2>1, <2>2
<1> QED BY <1>2, <1>3, ReduceType DEF Decided

LEMMA DecidedNone ==
  ASSUME NEW st PROVE Decided(st, << >>) = st
<1>1. Numbered(st.last + 1, << >>) = << >>
  BY DEF Numbered
<1> QED BY <1>1, ReduceEmpty DEF Decided

LEMMA DecidedOne ==
  ASSUME NEW st \in Folds, NEW w \in Intents
  PROVE  Decided(st, << w >>) = Once(st, w) /\ << w >> \in Seq(Intents)
<1> DEFINE a == << w >>
           events == Numbered(st.last + 1, a)
           e == [seq |-> st.last + 1, what |-> w]
<1>1. st.last \in Nat /\ st.last + 1 \in Nat \ {0}
  BY DEF Folds
<1>2. a \in Seq(Intents) /\ Len(a) = 1 /\ a[1] = w
  OBVIOUS
<1> HIDE DEF a
<1>3. /\ events \in Seq(Events) /\ Len(events) = 1
      /\ \A i \in 1 .. Len(a) : events[i] = [seq |-> (st.last + 1) + i - 1, what |-> a[i]]
  BY <1>1, <1>2, NumberedIs
<1>4. events[1] = e
  BY <1>1, <1>2, <1>3
<1> HIDE DEF e, events
<1>5. events = << e >>
  BY <1>3, <1>4
<1> QED BY <1>2, <1>5, ReduceOne DEF a, e, events, Decided, Once

\* The intents c are a, then b.
Intended(c, a, b) == a \in Seq(Intents) /\ b \in Seq(Intents) /\ c = a \o b

LEMMA DecidedThen ==
  ASSUME NEW st, st \in Folds, NEW c, NEW a, NEW b, Intended(c, a, b)
  PROVE  c \in Seq(Intents) /\ Decided(st, c) = Decided(Decided(st, a), b)
<1> DEFINE m == Len(a)
           n == Len(b)
           first == st.last + 1
           f == Numbered(first, a)
           g == Numbered(first + m, b)
           h == Numbered(first, c)
<1>1. /\ a \in Seq(Intents) /\ b \in Seq(Intents) /\ c = a \o b /\ m \in Nat /\ n \in Nat
      /\ first \in Nat \ {0} /\ first + m \in Nat \ {0} /\ st.last \in Nat
  BY LenProperties DEF Intended, Folds
<1>2. /\ c \in Seq(Intents) /\ Len(c) = m + n
      /\ \A i \in 1 .. m : c[i] = a[i]
      /\ \A i \in 1 .. n : c[m + i] = b[i]
  BY <1>1, ConcatProperties, ConcatFacts
<1>3. Decided(st, a).last = st.last + m
  BY <1>1, DecidedType
<1> HIDE DEF m, n, first
<1>4. /\ f \in Seq(Events) /\ Len(f) = m
      /\ \A i \in 1 .. m : f[i] = [seq |-> first + i - 1, what |-> a[i]]
  BY <1>1, NumberedIs DEF m
<1>5. /\ g \in Seq(Events) /\ Len(g) = n
      /\ \A i \in 1 .. n : g[i] = [seq |-> (first + m) + i - 1, what |-> b[i]]
  BY <1>1, NumberedIs DEF n
<1>6. /\ h \in Seq(Events) /\ Len(h) = m + n
      /\ \A i \in 1 .. (m + n) : h[i] = [seq |-> first + i - 1, what |-> c[i]]
  <2>1. first \in Nat \ {0}
    BY <1>1
  <2>2. c \in Seq(Intents) /\ Len(c) = m + n
    BY <1>2
  <2> QED BY ONLY <2>1, <2>2, NumberedIs
<1> DEFINE k == f \o g
<1> HIDE DEF f, g, h
<1>7. Streams(k, f, g)
  BY <1>4, <1>5 DEF Streams
<1> HIDE DEF k
<1>8. /\ k \in Seq(Events) /\ Len(k) = m + n
      /\ \A i \in 1 .. m : k[i] = f[i]
      /\ \A i \in 1 .. n : k[m + i] = g[i]
  <2>1. /\ k \in Seq(Events) /\ Len(k) = Len(f) + Len(g)
        /\ \A i \in 1 .. Len(f) : k[i] = f[i]
        /\ \A i \in 1 .. Len(g) : k[Len(f) + i] = g[i]
    BY <1>7, StreamParts
  <2>2. Len(f) = m /\ Len(g) = n
    BY <1>4, <1>5
  <2> QED BY <2>1, <2>2
<1>9. ASSUME NEW i \in 1 .. (m + n) PROVE h[i] = k[i]
  <2>1. CASE i \in 1 .. m
    BY <1>2, <1>4, <1>6, <1>8, <2>1
  <2>2. ASSUME NEW j \in 1 .. n, i = m + j PROVE h[i] = k[i]
    <3>1. h[i] = [seq |-> first + (m + j) - 1, what |-> b[j]]
      BY <1>2, <1>6, <2>2
    <3>2. k[i] = [seq |-> (first + m) + j - 1, what |-> b[j]]
      BY <1>5, <1>8, <2>2
    <3>3. first + (m + j) - 1 = (first + m) + j - 1
      BY <1>1
    <3> QED BY <3>1, <3>2, <3>3
  <2>3. i \in 1 .. m \/ \E j \in 1 .. n : i = m + j
    BY <1>1, Split
  <2> QED BY <2>1, <2>2, <2>3
<1>10. h = k
  BY <1>6, <1>8, <1>9, SeqEqual
<1>11. ReduceFrom(st, k) = ReduceFrom(ReduceFrom(st, f), g)
  BY <1>7, StreamThen
<1>12. Decided(st, c) = ReduceFrom(st, h) /\ Decided(st, a) = ReduceFrom(st, f)
  BY DEF Decided, h, f, first
<1>13. Decided(Decided(st, a), b) = ReduceFrom(Decided(st, a), g)
  <2>1. (st.last + m) + 1 = first + m
    BY <1>1 DEF first
  <2> QED BY <1>3, <2>1 DEF Decided, g
<1> QED BY <1>2, <1>10, <1>11, <1>12, <1>13

LEMMA DecidedTwo ==
  ASSUME NEW st \in Folds, NEW v \in Intents, NEW w \in Intents, Once(st, v) \in Folds
  PROVE  << v, w >> \in Seq(Intents) /\ Decided(st, << v, w >>) = Once(Once(st, v), w)
<1> DEFINE a == << v >>
           b == << w >>
           c == << v, w >>
<1>1. Intended(c, a, b)
  BY OneThenOne DEF Intended
<1>2. Decided(st, a) = Once(st, v)
  BY DecidedOne
<1>3. Decided(Once(st, v), b) = Once(Once(st, v), w)
  BY DecidedOne
<1> HIDE DEF a, b, c
<1>4. c \in Seq(Intents) /\ Decided(st, c) = Decided(Decided(st, a), b)
  BY <1>1, DecidedThen
<1>5. c \in Seq(Intents) /\ Decided(st, c) = Once(Once(st, v), w)
  BY <1>2, <1>3, <1>4
<1> QED BY <1>5 DEF c

LEMMA JobIntents ==
  ASSUME NEW j \in Jobs, NEW h \in Runners \cup {NoRunner}, NEW n \in Nat
  PROVE  /\ h \in Runners /\ n # 0 => Event("JobClaimed", j, h, n) \in Intents
         /\ \A kind \in {"LeaseRenewed", "LeaseExpired"} \cup JobSuccess \cup JobFailure :
              Event(kind, j, h, n) \in Intents
BY DEF Event, Intents

LEMMA RunIntents ==
  \A kind \in {"RunCreated", "RunCanceled", "RunCompleted", "RunFailed"} :
    RunEvent(kind) \in Intents
BY DEF RunEvent, Intents

LEMMA OnceGoes ==
  ASSUME NEW st \in Folds, NEW w, NEW jobs \in [Jobs -> JobState],
         Once(st, w) = Goes(st, jobs, st.last + 1)
  PROVE  Once(st, w) \in Folds /\ Once(st, w).jobs = jobs /\ Once(st, w).canceled = st.canceled
<1>1. st.last + 1 \in Nat
  BY DEF Folds
<1> QED BY <1>1, GoesIs

LEMMA OnceClaimed ==
  ASSUME NEW st \in Folds, NEW j \in Jobs, NEW r \in Runners, NEW n \in Nat \ {0},
         NEW g, g = Once(st, Event("JobClaimed", j, r, n))
  PROVE  /\ g \in Folds /\ g.canceled = st.canceled
         /\ g.jobs = [st.jobs EXCEPT ![j] = JobClaimed(st.jobs[j], r, n, n)]
<1> DEFINE w == Event("JobClaimed", j, r, n)
           jobs == [st.jobs EXCEPT ![j] = JobClaimed(st.jobs[j], r, n, n)]
<1>1. jobs \in [Jobs -> JobState]
  BY JobTypes DEF Folds
<1>2. Once(st, w) = Goes(st, jobs, st.last + 1)
  <2> DEFINE e == [seq |-> st.last + 1, what |-> w]
  <2>1. /\ e.what.kind = "JobClaimed" /\ e.what.job = j /\ e.what.runner = r
        /\ e.what.epoch = n /\ e.seq = st.last + 1
    BY DEF Event
  <2>2. Once(st, w) = Apply(st, e)
    BY DEF Once
  <2> HIDE DEF e, w
  <2> QED BY <2>1, <2>2, ApplyJob
<1> HIDE DEF jobs
<1>3. Once(st, w) \in Folds /\ Once(st, w).jobs = jobs /\ Once(st, w).canceled = st.canceled
  BY <1>1, <1>2, OnceGoes
<1> QED BY <1>3 DEF jobs

LEMMA OnceRenewed ==
  ASSUME NEW st \in Folds, NEW j \in Jobs, NEW h, NEW n,
         NEW g, g = Once(st, Event("LeaseRenewed", j, h, n))
  PROVE  /\ g \in Folds /\ g.canceled = st.canceled
         /\ g.jobs = [st.jobs EXCEPT ![j] = LeaseRenewed(st.jobs[j], h, n)]
<1> DEFINE w == Event("LeaseRenewed", j, h, n)
           jobs == [st.jobs EXCEPT ![j] = LeaseRenewed(st.jobs[j], h, n)]
<1>1. jobs \in [Jobs -> JobState]
  BY JobTypes DEF Folds
<1>2. Once(st, w) = Goes(st, jobs, st.last + 1)
  <2> DEFINE e == [seq |-> st.last + 1, what |-> w]
  <2>1. /\ e.what.kind = "LeaseRenewed" /\ e.what.job = j /\ e.what.runner = h
        /\ e.what.epoch = n /\ e.seq = st.last + 1
    BY DEF Event
  <2>2. Once(st, w) = Apply(st, e)
    BY DEF Once
  <2> HIDE DEF e, w
  <2> QED BY <2>1, <2>2, ApplyJob
<1> HIDE DEF jobs
<1>3. Once(st, w) \in Folds /\ Once(st, w).jobs = jobs /\ Once(st, w).canceled = st.canceled
  BY <1>1, <1>2, OnceGoes
<1> QED BY <1>3 DEF jobs

LEMMA OnceExpired ==
  ASSUME NEW st \in Folds, NEW j \in Jobs, NEW h, NEW n,
         NEW g, g = Once(st, Event("LeaseExpired", j, h, n))
  PROVE  /\ g \in Folds /\ g.canceled = st.canceled
         /\ g.jobs = [st.jobs EXCEPT ![j] = LeaseExpired(st.jobs[j], n)]
<1> DEFINE w == Event("LeaseExpired", j, h, n)
           jobs == [st.jobs EXCEPT ![j] = LeaseExpired(st.jobs[j], n)]
<1>1. jobs \in [Jobs -> JobState]
  BY JobTypes DEF Folds
<1>2. Once(st, w) = Goes(st, jobs, st.last + 1)
  <2> DEFINE e == [seq |-> st.last + 1, what |-> w]
  <2>1. /\ e.what.kind = "LeaseExpired" /\ e.what.job = j
        /\ e.what.epoch = n /\ e.seq = st.last + 1
    BY DEF Event
  <2>2. Once(st, w) = Apply(st, e)
    BY DEF Once
  <2> HIDE DEF e, w
  <2> QED BY <2>1, <2>2, ApplyJob
<1> HIDE DEF jobs
<1>3. Once(st, w) \in Folds /\ Once(st, w).jobs = jobs /\ Once(st, w).canceled = st.canceled
  BY <1>1, <1>2, OnceGoes
<1> QED BY <1>3 DEF jobs

LEMMA OnceFinished ==
  ASSUME NEW st \in Folds, NEW j \in Jobs, NEW h, NEW n, NEW p \in JobTerminal,
         NEW g, g = Once(st, Event(p, j, h, n))
  PROVE  /\ g \in Folds /\ g.canceled = st.canceled
         /\ g.jobs = [st.jobs EXCEPT ![j] = JobFinished(st.jobs[j], p)]
<1> DEFINE w == Event(p, j, h, n)
           jobs == [st.jobs EXCEPT ![j] = JobFinished(st.jobs[j], p)]
<1>1. jobs \in [Jobs -> JobState]
  BY JobTypes DEF Folds
<1>2. Once(st, w) = Goes(st, jobs, st.last + 1)
  <2> DEFINE e == [seq |-> st.last + 1, what |-> w]
  <2>1. e.what.kind = p /\ e.what.job = j /\ e.seq = st.last + 1
    BY DEF Event
  <2>2. Once(st, w) = Apply(st, e)
    BY DEF Once
  <2> HIDE DEF e, w
  <2> QED BY <2>1, <2>2, ApplyJob
<1> HIDE DEF jobs
<1>3. Once(st, w) \in Folds /\ Once(st, w).jobs = jobs /\ Once(st, w).canceled = st.canceled
  BY <1>1, <1>2, OnceGoes
<1> QED BY <1>3 DEF jobs

LEMMA OnceSignal ==
  ASSUME NEW st \in Folds, NEW kind \in {"RunCompleted", "RunFailed"},
         NEW g, g = Once(st, RunEvent(kind))
  PROVE  g \in Folds /\ g.canceled = st.canceled /\ g.jobs = st.jobs
<1> DEFINE w == RunEvent(kind)
<1>1. st.jobs \in [Jobs -> JobState]
  BY DEF Folds
<1>2. Once(st, w) = Goes(st, st.jobs, st.last + 1)
  <2> DEFINE e == [seq |-> st.last + 1, what |-> w]
  <2>1. e.what.kind \in {"RunCompleted", "RunFailed"} /\ e.seq = st.last + 1
    BY DEF RunEvent
  <2>2. Once(st, w) = Apply(st, e)
    BY DEF Once
  <2> HIDE DEF e, w
  <2> QED BY <2>1, <2>2, ApplyRun
<1> QED BY <1>1, <1>2, OnceGoes

LEMMA OnceCanceled ==
  ASSUME NEW st \in Folds, NEW g, g = Once(st, RunEvent("RunCanceled"))
  PROVE  g \in Folds /\ g.canceled /\ g.jobs = RunCanceled(st.jobs)
<1> DEFINE w == RunEvent("RunCanceled")
           m == Goes(st, RunCanceled(st.jobs), st.last + 1)
<1>1. st.jobs \in [Jobs -> JobState] /\ st.last + 1 \in Nat
  BY DEF Folds
<1>2. m \in Folds /\ m.jobs = RunCanceled(st.jobs)
  BY <1>1, CanceledTypes, GoesIs
<1>3. g = [m EXCEPT !.canceled = TRUE]
  <2> DEFINE e == [seq |-> st.last + 1, what |-> w]
  <2>1. e.what.kind = "RunCanceled" /\ e.seq = st.last + 1
    BY DEF RunEvent
  <2>2. g = Apply(st, e)
    BY DEF Once
  <2> HIDE DEF e, w
  <2> QED BY <2>1, <2>2, ApplyRun
<1> HIDE DEF m
<1> QED BY <1>2, <1>3 DEF Folds

-----------------------------------------------------------------------------
(* The verbs of a sound fold: what they append leaves a sound fold, and is *)
(* one step of the ledger.                                                 *)

Decides(st, intents) ==
  /\ intents \in Seq(Intents) /\ Sound(Decided(st, intents))
  /\ Verb(st.jobs, Decided(st, intents).jobs)

LEMMA JobOf ==
  ASSUME NEW st \in Folds, NEW j \in Jobs
  PROVE  /\ st.jobs[j] \in JobState /\ st.jobs[j].phase \in JobPhases
         /\ st.jobs[j].holder \in Runners \cup {NoRunner} /\ st.jobs[j].leaseEpoch \in Nat
         /\ st.jobs[j].attempt \in Nat \ {0}
BY DEF Folds, JobState

\* A fold that differs in one job, and has not been canceled, is sound.
LEMMA SoundExcept ==
  ASSUME NEW st \in Folds, Sound(st), NEW g \in Folds, g.canceled = st.canceled,
         NEW j \in Jobs, st.jobs[j].phase \notin JobTerminal, NEW jb,
         g.jobs = [st.jobs EXCEPT ![j] = jb], jb.phase # "canceled",
         IF jb.phase = "claimed" THEN jb.holder \in Runners ELSE jb.holder = NoRunner
  PROVE  Sound(g)
<1>1. g.jobs[j] = jb /\ \A k \in Jobs \ {j} : g.jobs[k] = st.jobs[k]
  BY DEF Folds
<1>2. ~st.canceled /\ ~g.canceled
  BY DEF Sound
<1> QED BY <1>1, <1>2 DEF Sound

LEMMA HeartbeatDecides ==
  ASSUME NEW st \in Folds, Sound(st), NEW j \in Jobs, st.jobs[j].phase = "claimed",
         NEW w, w = Event("LeaseRenewed", j, st.jobs[j].holder, st.jobs[j].leaseEpoch)
  PROVE  Decides(st, << w >>)
<1> DEFINE old == st.jobs[j]
           jb == LeaseRenewed(old, old.holder, old.leaseEpoch)
           g == Decided(st, << w >>)
<1>1. /\ old \in JobState /\ old.holder \in Runners \cup {NoRunner} /\ old.leaseEpoch \in Nat
  BY JobOf
<1>2. w \in Intents
  BY <1>1, JobIntents
<1>3. g = Once(st, w) /\ << w >> \in Seq(Intents)
  BY <1>2, DecidedOne
<1>4. g \in Folds /\ g.canceled = st.canceled /\ g.jobs = [st.jobs EXCEPT ![j] = jb]
  BY <1>3, OnceRenewed
<1>5. jb.phase = old.phase /\ jb.holder = old.holder /\ jb.attempt = old.attempt
  BY <1>1 DEF LeaseRenewed, Sticky, JobState
<1> HIDE DEF g, jb
<1>6. Sound(g)
  <2>1. old.holder \in Runners
    BY DEF Sound
  <2> QED BY <1>4, <1>5, <2>1, SoundExcept DEF JobTerminal, JobSuccess, JobFailure
<1>7. \A k \in Jobs : /\ g.jobs[k].phase = st.jobs[k].phase
                      /\ g.jobs[k].holder = st.jobs[k].holder
                      /\ g.jobs[k].attempt = st.jobs[k].attempt
  BY <1>4, <1>5 DEF Folds
<1>8. Verb(st.jobs, g.jobs)
  BY <1>7 DEF Verb
<1> QED BY <1>3, <1>6, <1>8 DEF Decides, g

LEMMA GiveDecides ==
  ASSUME NEW st \in Folds, Sound(st), NEW j \in Frontier(st.jobs), NEW r \in Runners,
         NEW w, w = Event("JobClaimed", j, r, st.jobs[j].attempt)
  PROVE  Decides(st, << w >>)
<1> DEFINE old == st.jobs[j]
           jb == JobClaimed(old, r, old.attempt, old.attempt)
           g == Decided(st, << w >>)
<1>1. j \in Jobs /\ old.phase = "queued"
  BY DEF Frontier
<1>2. old \in JobState /\ old.attempt \in Nat \ {0}
  BY <1>1, JobOf
<1>3. w \in Intents
  BY <1>1, <1>2, JobIntents
<1>4. g = Once(st, w) /\ << w >> \in Seq(Intents)
  BY <1>3, DecidedOne
<1>5. g \in Folds /\ g.canceled = st.canceled /\ g.jobs = [st.jobs EXCEPT ![j] = jb]
  BY <1>1, <1>2, <1>4, OnceClaimed
<1>6. jb.phase = "claimed" /\ jb.holder = r /\ jb.attempt = old.attempt
  BY <1>1 DEF JobClaimed, Sticky, JobTerminal, JobSuccess, JobFailure
<1> HIDE DEF g, jb
<1>7. Sound(g)
  BY <1>1, <1>5, <1>6, SoundExcept DEF JobTerminal, JobSuccess, JobFailure
<1>8. /\ g.jobs[j] = jb
      /\ \A k \in Jobs \ {j} : g.jobs[k] = st.jobs[k]
  BY <1>1, <1>5 DEF Folds
<1>9. Verb(st.jobs, g.jobs)
  BY <1>1, <1>6, <1>8 DEF Verb
<1> QED BY <1>4, <1>7, <1>9 DEF Decides, g

LEMMA MemoDecides ==
  ASSUME NEW st \in Folds, Sound(st), NEW j \in Frontier(st.jobs),
         NEW w, w = Event("memoized", j, NoRunner, 0)
  PROVE  Decides(st, << w >>)
<1> DEFINE old == st.jobs[j]
           jb == JobFinished(old, "memoized")
           g == Decided(st, << w >>)
<1>1. j \in Jobs /\ old.phase = "queued"
  BY DEF Frontier
<1>2. w \in Intents
  BY <1>1, JobIntents DEF JobSuccess
<1>3. g = Once(st, w) /\ << w >> \in Seq(Intents)
  BY <1>2, DecidedOne
<1>4. "memoized" \in JobTerminal
  BY DEF JobTerminal, JobSuccess
<1>5. g \in Folds /\ g.canceled = st.canceled /\ g.jobs = [st.jobs EXCEPT ![j] = jb]
  BY <1>1, <1>3, <1>4, OnceFinished
<1>6. jb.phase = "memoized" /\ jb.holder = NoRunner /\ jb.attempt = old.attempt
  BY <1>1 DEF JobFinished, Released, Sticky, JobTerminal, JobSuccess, JobFailure
<1> HIDE DEF g, jb
<1>7. Sound(g)
  BY <1>1, <1>5, <1>6, SoundExcept DEF JobTerminal, JobSuccess, JobFailure
<1>8. /\ g.jobs[j] = jb
      /\ \A k \in Jobs \ {j} : g.jobs[k] = st.jobs[k]
  BY <1>1, <1>5 DEF Folds
<1>9. Verb(st.jobs, g.jobs)
  BY <1>1, <1>6, <1>8 DEF Verb
<1> QED BY <1>3, <1>7, <1>9 DEF Decides, g

LEMMA PassDecides ==
  ASSUME NEW st \in Folds, Sound(st), NEW j \in Jobs, NEW r \in Runners,
         st.jobs[j].phase = "claimed", st.jobs[j].holder # r,
         NEW v, v = Event("LeaseExpired", j, st.jobs[j].holder, st.jobs[j].leaseEpoch),
         NEW w, w = Event("JobClaimed", j, r, st.jobs[j].attempt + 1)
  PROVE  Decides(st, << v, w >>)
<1> DEFINE old == st.jobs[j]
           mid == LeaseExpired(old, old.leaseEpoch)
           n == old.attempt + 1
           jb == JobClaimed(mid, r, n, n)
           m == Once(st, v)
           g == Once(m, w)
<1>1. /\ old \in JobState /\ old.holder \in Runners \cup {NoRunner} /\ old.leaseEpoch \in Nat
      /\ n \in Nat \ {0}
  <2>1. /\ old \in JobState /\ old.holder \in Runners \cup {NoRunner} /\ old.leaseEpoch \in Nat
        /\ old.attempt \in Nat \ {0}
    BY JobOf
  <2> QED BY <2>1
<1>2. v \in Intents /\ w \in Intents
  BY <1>1, JobIntents
<1>3. m \in Folds /\ m.canceled = st.canceled /\ m.jobs = [st.jobs EXCEPT ![j] = mid]
  BY <1>1, OnceExpired
<1>4. g \in Folds /\ g.canceled = m.canceled /\ g.jobs = [m.jobs EXCEPT ![j] = JobClaimed(m.jobs[j], r, n, n)]
  <2> HIDE DEF m, n
  <2>1. w = Event("JobClaimed", j, r, n)
    BY DEF n
  <2> QED BY <1>1, <1>3, <2>1, OnceClaimed
<1>5. << v, w >> \in Seq(Intents) /\ Decided(st, << v, w >>) = g
  BY <1>2, <1>3, DecidedTwo
<1> HIDE DEF m, g, n
<1>6. g.jobs = [st.jobs EXCEPT ![j] = jb] /\ g.canceled = st.canceled
  BY <1>3, <1>4 DEF Folds
<1>7. jb.phase = "claimed" /\ jb.holder = r /\ jb.attempt = old.attempt + 1
  BY DEF JobClaimed, LeaseExpired, Released, Sticky, JobTerminal, JobSuccess, JobFailure, n
<1> HIDE DEF jb
<1>8. Sound(g)
  BY <1>4, <1>6, <1>7, SoundExcept DEF JobTerminal, JobSuccess, JobFailure
<1>9. /\ g.jobs[j] = jb
      /\ \A k \in Jobs \ {j} : g.jobs[k] = st.jobs[k]
  BY <1>6 DEF Folds
<1>10. Verb(st.jobs, g.jobs)
  BY <1>7, <1>9 DEF Verb
<1> QED BY <1>5, <1>8, <1>10 DEF Decides

\* The run-level signal a verb adds.
Signals == {<< >>, << RunEvent("RunCompleted") >>, << RunEvent("RunFailed") >>}

LEMMA SignalIs ==
  ASSUME NEW kinds \in {<< >>, << "RunCompleted" >>, << "RunFailed" >>}
  PROVE  [i \in DOMAIN kinds |-> RunEvent(kinds[i])] \in Signals
<1>1. CASE kinds = << >>
  <2>1. [i \in DOMAIN kinds |-> RunEvent(kinds[i])] = << >>
    BY <1>1
  <2> QED BY <2>1 DEF Signals
<1>2. ASSUME NEW x, kinds = << x >>
      PROVE  [i \in DOMAIN kinds |-> RunEvent(kinds[i])] = << RunEvent(x) >>
  <2>1. DOMAIN kinds = 1 .. 1 /\ kinds[1] = x /\ \A i \in 1 .. 1 : i = 1
    BY <1>2
  <2>2. [i \in DOMAIN kinds |-> RunEvent(kinds[i])] = [i \in 1 .. 1 |-> RunEvent(x)]
    BY <2>1
  <2> QED BY <2>2
<1> QED BY <1>1, <1>2 DEF Signals

LEMMA TerminalSignalIs ==
  ASSUME NEW jobs, NEW canceled, NEW created, NEW overrides
  PROVE  TerminalSignal(jobs, canceled, created, overrides)
           \in {<< >>, << "RunCompleted" >>, << "RunFailed" >>}
BY Zenon DEF TerminalSignal

\* It changes no job.
LEMMA SignalThen ==
  ASSUME NEW st \in Folds, NEW a \in Seq(Intents), NEW sig \in Signals, NEW g,
         g = Decided(st, a \o sig)
  PROVE  /\ a \o sig \in Seq(Intents) /\ g \in Folds
         /\ g.jobs = Decided(st, a).jobs /\ g.canceled = Decided(st, a).canceled
<1> DEFINE c == a \o sig
           m == Decided(st, a)
<1>1. m \in Folds
  BY DecidedType
<1>2. sig \in Seq(Intents)
  <2>1. << >> \in Seq(Intents)
    BY EmptySeq
  <2>2. \A kind \in {"RunCompleted", "RunFailed"} : << RunEvent(kind) >> \in Seq(Intents)
    BY RunIntents, DecidedOne, BlankIsFold
  <2> QED BY <2>1, <2>2 DEF Signals
<1>3. Intended(c, a, sig)
  BY <1>2 DEF Intended
<1> HIDE DEF c, m
<1>4. c \in Seq(Intents) /\ Decided(st, c) = Decided(m, sig)
  BY <1>3, DecidedThen DEF m
<1>5. g = Decided(m, sig)
  BY <1>4 DEF c
<1>6. g \in Folds /\ g.jobs = m.jobs /\ g.canceled = m.canceled
  <2>1. CASE sig = << >>
    BY <1>1, <1>5, <2>1, DecidedNone
  <2>2. ASSUME NEW kind \in {"RunCompleted", "RunFailed"}, sig = << RunEvent(kind) >>
        PROVE  g \in Folds /\ g.jobs = m.jobs /\ g.canceled = m.canceled
    <3>1. g = Once(m, RunEvent(kind))
      BY <1>1, <1>5, <2>2, RunIntents, DecidedOne
    <3> QED BY <1>1, <3>1, OnceSignal
  <2> QED BY <2>1, <2>2 DEF Signals
<1> QED BY <1>4, <1>6 DEF c, m

LEMMA CompleteDecides ==
  ASSUME NEW st \in Folds, Sound(st), NEW j \in Jobs, st.jobs[j].phase = "claimed",
         NEW outcome \in {"succeeded", "failed", "timed_out"}, NEW sig \in Signals,
         NEW w, w = Event(outcome, j, st.jobs[j].holder, st.jobs[j].leaseEpoch)
  PROVE  Decides(st, << w >> \o sig)
<1> DEFINE old == st.jobs[j]
           jb == JobFinished(old, outcome)
           g == Decided(st, << w >> \o sig)
<1>1. old.holder \in Runners \cup {NoRunner} /\ old.leaseEpoch \in Nat
  BY JobOf
<1>2. w \in Intents
  BY <1>1, JobIntents DEF JobSuccess, JobFailure
<1>3. Decided(st, << w >>) = Once(st, w) /\ << w >> \in Seq(Intents)
  BY <1>2, DecidedOne
<1>4. outcome \in JobTerminal
  BY DEF JobTerminal, JobSuccess, JobFailure
<1>5. Once(st, w).canceled = st.canceled /\ Once(st, w).jobs = [st.jobs EXCEPT ![j] = jb]
  BY <1>4, OnceFinished
<1>6. /\ << w >> \o sig \in Seq(Intents) /\ g \in Folds
      /\ g.jobs = [st.jobs EXCEPT ![j] = jb] /\ g.canceled = st.canceled
  <2> DEFINE a == << w >>
  <2>1. a \in Seq(Intents) /\ Decided(st, a) = Once(st, w)
    BY <1>3
  <2> HIDE DEF a, jb
  <2>2. /\ a \o sig \in Seq(Intents) /\ Decided(st, a \o sig) \in Folds
        /\ Decided(st, a \o sig).jobs = Once(st, w).jobs
        /\ Decided(st, a \o sig).canceled = Once(st, w).canceled
    BY <2>1, SignalThen
  <2> QED BY <1>5, <2>2 DEF a
<1>7. jb.phase = outcome /\ jb.holder = NoRunner /\ jb.attempt = old.attempt
  BY DEF JobFinished, Released, Sticky, JobTerminal, JobSuccess, JobFailure
<1> HIDE DEF jb, g
<1>8. Sound(g)
  BY <1>6, <1>7, SoundExcept DEF JobTerminal, JobSuccess, JobFailure
<1>9. /\ g.jobs[j] = jb
      /\ \A k \in Jobs \ {j} : g.jobs[k] = st.jobs[k]
  BY <1>6 DEF Folds
<1>10. Verb(st.jobs, g.jobs)
  <2>1. CASE outcome = "succeeded"
    BY <1>7, <1>9, <2>1 DEF Verb
  <2>2. CASE outcome \in JobFailure
    <3>1. {j} \in SUBSET Jobs
      OBVIOUS
    <3>2. /\ \A k \in Jobs \ {j} : /\ g.jobs[k].phase = st.jobs[k].phase
                                   /\ g.jobs[k].holder = st.jobs[k].holder
                                   /\ g.jobs[k].attempt = st.jobs[k].attempt
          /\ \A k \in {j} : /\ st.jobs[k].phase = "claimed" /\ g.jobs[k].phase \in JobFailure
                            /\ g.jobs[k].holder = NoRunner
                            /\ g.jobs[k].attempt = st.jobs[k].attempt
      BY <1>7, <1>9, <2>2
    <3> QED BY <3>1, <3>2 DEF Verb
  <2> QED BY <2>1, <2>2 DEF JobFailure
<1> QED BY <1>6, <1>8, <1>10 DEF Decides, g

LEMMA CancelDecides ==
  ASSUME NEW st \in Folds, Sound(st), PhaseOf(st) \notin RunTerminal,
         NEW w, w = RunEvent("RunCanceled")
  PROVE  Decides(st, << w >>)
<1> DEFINE g == Decided(st, << w >>)
<1>1. w \in Intents
  BY RunIntents
<1>2. g = Once(st, w) /\ << w >> \in Seq(Intents)
  BY <1>1, DecidedOne
<1>3. g \in Folds /\ g.canceled /\ g.jobs = RunCanceled(st.jobs)
  BY <1>2, OnceCanceled
<1> HIDE DEF g
<1>4. \A j \in Jobs :
        IF st.jobs[j].phase \in JobTerminal THEN g.jobs[j] = st.jobs[j]
        ELSE /\ g.jobs[j].phase = "canceled" /\ g.jobs[j].holder = NoRunner
             /\ g.jobs[j].attempt = st.jobs[j].attempt
  <2>1. \A j \in Jobs : g.jobs[j] = Sticky(st.jobs[j], Released(st.jobs[j], "canceled"))
    <3>1. g.jobs = RunCanceled(st.jobs)
      BY <1>3
    <3> QED BY <3>1 DEF RunCanceled
  <2>2. TAKE j \in Jobs
  <2>3. g.jobs[j] = Sticky(st.jobs[j], Released(st.jobs[j], "canceled"))
    BY <2>1
  <2>4. CASE st.jobs[j].phase \in JobTerminal
    BY <2>3, <2>4 DEF Sticky
  <2>5. CASE st.jobs[j].phase \notin JobTerminal
    <3>1. g.jobs[j] = Released(st.jobs[j], "canceled")
      BY <2>3, <2>5 DEF Sticky
    <3> QED BY <2>5, <3>1 DEF Released
  <2> QED BY <2>4, <2>5
<1>5. Sound(g)
  BY <1>3, <1>4 DEF Sound, JobTerminal, JobSuccess, JobFailure
<1>6. ~st.canceled
  <2>1. st.canceled => PhaseOf(st) = "canceled"
    BY Zenon DEF PhaseOf, RunPhase
  <2> QED BY <2>1 DEF RunTerminal
<1>7. \A j \in Jobs : st.jobs[j].phase # "canceled"
  BY <1>6 DEF Sound
<1>8. Jobs = {} \/ RunPhase(PhasesOf(st.jobs), FALSE, TRUE) = "running"
  <2>1. /\ ~\E j \in Jobs : PhasesOf(st.jobs)[j] \in JobFailure
        /\ ~\A j \in Jobs : PhasesOf(st.jobs)[j] \in JobSuccess
        \/ Jobs = {}
    BY <1>6 DEF PhaseOf, RunPhase, RunTerminal
  <2> QED BY <2>1 DEF RunPhase
<1>9. Verb(st.jobs, g.jobs)
  <2>1. CASE Jobs = {}
    BY <2>1 DEF Verb
  <2>2. CASE RunPhase(PhasesOf(st.jobs), FALSE, TRUE) = "running"
    BY <1>4, <1>7, <2>2 DEF Verb
  <2> QED BY <1>8, <2>1, <2>2
<1> QED BY <1>2, <1>5, <1>9 DEF Decides, g

\* The event of the sweep for a job it finds lapsed.
ExpiryOf(jobs, j) ==
  Event(IF SweepPhase(jobs[j]) = "timed_out" THEN "timed_out" ELSE "LeaseExpired",
        j, jobs[j].holder, jobs[j].leaseEpoch)

LEMMA OnceSwept ==
  ASSUME NEW st \in Folds, NEW j \in Jobs, NEW w, w = ExpiryOf(st.jobs, j),
         NEW g, g = Once(st, w)
  PROVE  /\ w \in Intents /\ g \in Folds /\ g.canceled = st.canceled /\ g.last = st.last + 1
         /\ g.jobs = [st.jobs EXCEPT ![j] = Swept(st.jobs[j])]
<1> DEFINE old == st.jobs[j]
<1>1. old.holder \in Runners \cup {NoRunner} /\ old.leaseEpoch \in Nat
  BY JobOf
<1>2. w \in Intents
  BY <1>1, JobIntents DEF ExpiryOf, JobFailure
<1>3. Decided(st, << w >>) = g /\ << w >> \in Seq(Intents)
  BY <1>2, DecidedOne
<1>4. g.last = st.last + 1
  <2>1. \A s \in Seq(Intents) : s = << w >> => Len(s) = 1
    OBVIOUS
  <2>2. Len(<< w >>) = 1
    OBVIOUS
  <2>3. Decided(st, << w >>).last = st.last + Len(<< w >>)
    BY <1>3, DecidedType
  <2> QED BY <1>3, <2>2, <2>3
<1>5. CASE SweepPhase(old) = "timed_out"
  <2>1. w = Event("timed_out", j, old.holder, old.leaseEpoch) /\ "timed_out" \in JobTerminal
    BY <1>5 DEF ExpiryOf, JobTerminal, JobFailure
  <2>2. /\ g \in Folds /\ g.canceled = st.canceled
        /\ g.jobs = [st.jobs EXCEPT ![j] = JobFinished(old, "timed_out")]
    BY <2>1, OnceFinished
  <2>3. Swept(old) = JobFinished(old, "timed_out")
    BY <1>5 DEF Swept
  <2> QED BY <1>2, <1>4, <2>2, <2>3
<1>6. CASE SweepPhase(old) # "timed_out"
  <2>1. w = Event("LeaseExpired", j, old.holder, old.leaseEpoch)
    BY <1>6 DEF ExpiryOf
  <2>2. /\ g \in Folds /\ g.canceled = st.canceled
        /\ g.jobs = [st.jobs EXCEPT ![j] = LeaseExpired(old, old.leaseEpoch)]
    BY <2>1, OnceExpired
  <2>3. Swept(old) = LeaseExpired(old, old.leaseEpoch)
    BY <1>6 DEF Swept
  <2> QED BY <1>2, <1>4, <2>2, <2>3
<1> QED BY <1>5, <1>6

\* The order names some held jobs, each once, and a has their events.
Sweeping(st, order, a, n) ==
  /\ n \in Nat /\ order \in [1 .. n -> Jobs]
  /\ \A i, k \in 1 .. n : order[i] = order[k] => i = k
  /\ \A i \in 1 .. n : st.jobs[order[i]].phase = "claimed"
  /\ a = [i \in 1 .. n |-> ExpiryOf(st.jobs, order[i])]

\* The first k of them are swept.
SweptUpto(st, order, k, g) ==
  /\ g \in Folds /\ g.canceled = st.canceled /\ g.last = st.last + k
  /\ \A j \in Jobs : g.jobs[j] = IF \E i \in 1 .. k : order[i] = j
                                 THEN Swept(st.jobs[j]) ELSE st.jobs[j]

LEMMA SweepStep ==
  ASSUME NEW st \in Folds, NEW order, NEW a, NEW n, Sweeping(st, order, a, n),
         NEW k \in Nat, k + 1 \in 1 .. n, NEW m, SweptUpto(st, order, k, m),
         NEW g, g = Once(m, a[k + 1])
  PROVE  SweptUpto(st, order, k + 1, g)
<1> DEFINE x == order[k + 1]
<1>1. /\ x \in Jobs /\ a[k + 1] = ExpiryOf(st.jobs, x) /\ m \in Folds
      /\ \A i \in 1 .. k : order[i] # x /\ i \in 1 .. n
  BY DEF Sweeping, SweptUpto
<1>2. m.jobs[x] = st.jobs[x]
  BY <1>1 DEF SweptUpto
<1>3. a[k + 1] = ExpiryOf(m.jobs, x)
  BY <1>1, <1>2 DEF ExpiryOf
<1>4. /\ g \in Folds /\ g.canceled = m.canceled /\ g.last = m.last + 1
      /\ g.jobs = [m.jobs EXCEPT ![x] = Swept(m.jobs[x])]
  <2> DEFINE w == a[k + 1]
  <2>1. m \in Folds /\ x \in Jobs /\ w = ExpiryOf(m.jobs, x) /\ g = Once(m, w)
    BY <1>1, <1>3
  <2> HIDE DEF w, x
  <2> QED BY <2>1, OnceSwept
<1>5. g.last = st.last + (k + 1) /\ g.canceled = st.canceled
  BY <1>4 DEF SweptUpto, Folds
<1>6. \A j \in Jobs : (\E i \in 1 .. k + 1 : order[i] = j)
                        <=> j = x \/ \E i \in 1 .. k : order[i] = j
  <2>1. 1 .. k + 1 = (1 .. k) \cup {k + 1}
    OBVIOUS
  <2> QED BY <2>1
<1>7. ASSUME NEW j \in Jobs
      PROVE  g.jobs[j] = IF \E i \in 1 .. k + 1 : order[i] = j
                         THEN Swept(st.jobs[j]) ELSE st.jobs[j]
  <2> HIDE DEF x
  <2>1. g.jobs[j] = IF j = x THEN Swept(m.jobs[x]) ELSE m.jobs[j]
    BY <1>1, <1>4 DEF Folds
  <2>2. m.jobs[j] = IF \E i \in 1 .. k : order[i] = j THEN Swept(st.jobs[j]) ELSE st.jobs[j]
    BY DEF SweptUpto
  <2>3. CASE j = x
    BY <1>2, <1>6, <2>1, <2>3
  <2>4. CASE j # x
    BY <1>6, <2>1, <2>2, <2>4
  <2> QED BY <2>3, <2>4
<1> QED BY <1>4, <1>5, <1>7 DEF SweptUpto

LEMMA SweepAll ==
  ASSUME NEW st \in Folds, NEW order, NEW a, NEW n, Sweeping(st, order, a, n)
  PROVE  a \in Seq(Intents) /\ SweptUpto(st, order, n, Decided(st, a))
<1>1. n \in Nat /\ DOMAIN a = 1 .. n
  BY DEF Sweeping
<1>2. ASSUME NEW i \in 1 .. n PROVE a[i] \in Intents
  <2>1. order[i] \in Jobs /\ a[i] = ExpiryOf(st.jobs, order[i])
    BY DEF Sweeping
  <2> QED BY <2>1, OnceSwept
<1>3. a \in Seq(Intents) /\ Len(a) = n
  <2>1. a \in [1 .. n -> Intents]
    BY <1>1, <1>2 DEF Sweeping
  <2> QED BY <1>1, <2>1, FunctionIsSeq
<1> DEFINE events == Numbered(st.last + 1, a)
<1>4. st.last \in Nat /\ st.last + 1 \in Nat \ {0}
  BY DEF Folds
<1>5. /\ DOMAIN events = 1 .. n
      /\ \A i \in 1 .. n : events[i] = [seq |-> (st.last + 1) + i - 1, what |-> a[i]]
  BY <1>3, <1>4, NumberedIs
<1> HIDE DEF events
<1>6. PICK h : Reduces(st, events, n, h) /\ ReduceFrom(st, events) = h[n]
  BY <1>1, <1>5, ReducePath
<1> DEFINE S == { k \in Nat : k <= n => SweptUpto(st, order, k, h[k]) }
<1>7. 0 \in S
  BY <1>4, <1>6 DEF SweptUpto, Reduces
<1>8. ASSUME NEW k \in Nat, k \in S PROVE k + 1 \in S
  <2> SUFFICES ASSUME k + 1 <= n PROVE SweptUpto(st, order, k + 1, h[k + 1])
    OBVIOUS
  <2>1. k + 1 \in 1 .. n /\ k + 1 \in Nat /\ (k + 1) - 1 = k /\ k <= n
    BY <1>1
  <2>2. SweptUpto(st, order, k, h[k])
    BY <1>8, <2>1
  <2>3. h[k + 1] = Apply(h[k], events[k + 1])
    BY <1>6, <2>1 DEF Reduces
  <2>4. events[k + 1] = [seq |-> (st.last + 1) + (k + 1) - 1, what |-> a[k + 1]]
    BY <1>5, <2>1
  <2>5. (st.last + 1) + (k + 1) - 1 = h[k].last + 1
    BY <1>4, <2>2 DEF SweptUpto
  <2>6. h[k + 1] = Once(h[k], a[k + 1])
    BY <2>3, <2>4, <2>5 DEF Once
  <2> HIDE DEF S
  <2> QED BY <2>1, <2>2, <2>6, SweepStep
<1>9. n \in S
  <2> HIDE DEF S
  <2> QED BY <1>1, <1>7, <1>8, SetInduction
<1> QED BY <1>1, <1>3, <1>6, <1>9 DEF Decided, events

\* The order the sweep takes the jobs in.
LEMMA OrderIs ==
  ASSUME NEW gone \in SUBSET Jobs
  PROVE  \E n \in Nat : /\ SetToSeq(gone) \in [1 .. n -> gone]
                        /\ \A i, k \in 1 .. n : SetToSeq(gone)[i] = SetToSeq(gone)[k] => i = k
<1> DEFINE n == Cardinality(gone)
           order == SetToSeq(gone)
<1>1. IsFiniteSet(gone)
  BY StoreAssumption, FS_Subset
<1>2. n \in Nat /\ ExistsBijection(1 .. n, gone)
  BY <1>1, FS_CardinalityType
<1>3. \E f \in [1 .. n -> gone] : IsInjective(f)
  BY <1>2 DEF ExistsBijection, Bijection, Injection, IsInjective
<1>4. order \in [1 .. n -> gone] /\ IsInjective(order)
  BY <1>3, Zenon DEF SetToSeq
<1> HIDE DEF n, order
<1>5. \A i, k \in 1 .. n : order[i] = order[k] => i = k
  BY <1>4 DEF IsInjective
<1> QED BY <1>2, <1>4, <1>5 DEF order

LEMMA SweptIs ==
  ASSUME NEW jb \in JobState, jb.phase = "claimed"
  PROVE  /\ Swept(jb).holder = NoRunner
         /\ \/ Swept(jb).phase \in JobFailure /\ Swept(jb).attempt = jb.attempt
            \/ Swept(jb).phase = "queued" /\ Swept(jb).attempt = jb.attempt + 1
         /\ Swept(jb).phase # "canceled"
<1>1. jb.phase \notin JobTerminal
  BY DEF JobTerminal, JobSuccess, JobFailure
<1>2. JobFinished(jb, "timed_out") = Released(jb, "timed_out")
  BY <1>1 DEF JobFinished, Sticky
<1>3. LeaseExpired(jb, jb.leaseEpoch) = [Released(jb, "queued") EXCEPT !.attempt = @ + 1]
  BY DEF LeaseExpired
<1>4. CASE SweepPhase(jb) = "timed_out"
  BY <1>2, <1>4 DEF Swept, Released, JobFailure
<1>5. CASE SweepPhase(jb) # "timed_out"
  BY <1>3, <1>5 DEF Swept, Released
<1> QED BY <1>4, <1>5

LEMMA SweepDecides ==
  ASSUME NEW st \in Folds, Sound(st), NEW gone \in SUBSET Jobs,
         \A j \in gone : st.jobs[j].phase = "claimed", NEW sig \in Signals,
         NEW a, a = [i \in DOMAIN SetToSeq(gone) |-> ExpiryOf(st.jobs, SetToSeq(gone)[i])],
         NEW c, c = a \o sig
  PROVE  Decides(st, c)
<1> DEFINE order == SetToSeq(gone)
           g == Decided(st, c)
<1>1. PICK n \in Nat : /\ order \in [1 .. n -> gone]
                       /\ \A i, k \in 1 .. n : order[i] = order[k] => i = k
  BY OrderIs
<1>2. a = [i \in DOMAIN order |-> ExpiryOf(st.jobs, order[i])]
  OBVIOUS
<1> DEFINE past == {order[i] : i \in 1 .. n}
<1> HIDE DEF order
<1>3. DOMAIN order = 1 .. n /\ order \in [1 .. n -> Jobs] /\ past \in SUBSET gone
  BY <1>1
<1>4. Sweeping(st, order, a, n)
  BY <1>1, <1>2, <1>3 DEF Sweeping
<1>5. a \in Seq(Intents) /\ SweptUpto(st, order, n, Decided(st, a))
  BY <1>4, SweepAll
<1>6. c \in Seq(Intents) /\ g \in Folds /\ g.jobs = Decided(st, a).jobs /\ g.canceled = st.canceled
  <2> DEFINE m == Decided(st, a)
  <2>1. m.canceled = st.canceled
    BY <1>5 DEF SweptUpto
  <2> HIDE DEF m
  <2>2. c \in Seq(Intents) /\ g \in Folds /\ g.jobs = m.jobs /\ g.canceled = m.canceled
    <3>1. g = Decided(st, a \o sig)
      OBVIOUS
    <3> HIDE DEF g
    <3> QED BY <1>5, <3>1, SignalThen DEF m
  <2> QED BY <2>1, <2>2 DEF m
<1> HIDE DEF g
<1>7. \A j \in Jobs : g.jobs[j] = IF j \in past THEN Swept(st.jobs[j]) ELSE st.jobs[j]
  <2>1. TAKE j \in Jobs
  <2>2. j \in past <=> \E i \in 1 .. n : order[i] = j
    OBVIOUS
  <2>3. g.jobs[j] = IF \E i \in 1 .. n : order[i] = j THEN Swept(st.jobs[j]) ELSE st.jobs[j]
    <3> DEFINE m == Decided(st, a)
    <3>1. \A x \in Jobs : m.jobs[x] = IF \E i \in 1 .. n : order[i] = x
                                      THEN Swept(st.jobs[x]) ELSE st.jobs[x]
      BY <1>5, Zenon DEF SweptUpto
    <3>2. g.jobs = m.jobs
      BY <1>6
    <3> HIDE DEF m
    <3> QED BY <3>1, <3>2, Zenon
  <2> QED BY <2>2, <2>3
<1> HIDE DEF past
<1>8. \A j \in past : j \in Jobs /\ st.jobs[j].phase = "claimed" /\ st.jobs[j] \in JobState
  BY <1>3, JobOf
<1>9. \A j \in past :
        /\ g.jobs[j].holder = NoRunner
        /\ \/ g.jobs[j].phase \in JobFailure /\ g.jobs[j].attempt = st.jobs[j].attempt
           \/ g.jobs[j].phase = "queued" /\ g.jobs[j].attempt = st.jobs[j].attempt + 1
        /\ g.jobs[j].phase # "canceled"
  <2>1. TAKE j \in past
  <2>2. g.jobs[j] = Swept(st.jobs[j])
    BY <1>7, <1>8
  <2>3. st.jobs[j] \in JobState /\ st.jobs[j].phase = "claimed"
    BY <1>8
  <2> DEFINE jb == st.jobs[j]
  <2>4. /\ Swept(jb).holder = NoRunner
        /\ \/ Swept(jb).phase \in JobFailure /\ Swept(jb).attempt = jb.attempt
           \/ Swept(jb).phase = "queued" /\ Swept(jb).attempt = jb.attempt + 1
        /\ Swept(jb).phase # "canceled"
    BY <2>3, SweptIs
  <2> QED BY <2>2, <2>4
<1>10. \A j \in Jobs \ past : g.jobs[j] = st.jobs[j]
  BY <1>7
<1>11. Sound(g)
  <2>1. ASSUME NEW j \in Jobs
        PROVE  IF g.jobs[j].phase = "claimed"
               THEN g.jobs[j].holder \in Runners ELSE g.jobs[j].holder = NoRunner
    <3>1. CASE j \in past
      BY <1>9, <3>1 DEF JobFailure
    <3>2. CASE j \notin past
      BY <1>10, <3>2 DEF Sound
    <3> QED BY <3>1, <3>2
  <2>2. g.canceled => \A j \in Jobs : g.jobs[j].phase \in JobTerminal
    <3>1. SUFFICES ASSUME st.canceled, NEW j \in Jobs PROVE g.jobs[j].phase \in JobTerminal
      BY <1>6
    <3>2. st.jobs[j].phase \in JobTerminal
      BY <3>1 DEF Sound
    <3>3. j \notin past
      BY <1>8, <3>2 DEF JobTerminal, JobSuccess, JobFailure
    <3> QED BY <1>10, <3>2, <3>3
  <2>3. (\E j \in Jobs : g.jobs[j].phase = "canceled") => g.canceled
    <3>1. SUFFICES ASSUME NEW j \in Jobs, g.jobs[j].phase = "canceled" PROVE st.canceled
      BY <1>6
    <3>2. g.jobs[j] = st.jobs[j]
      BY <1>9, <1>10, <3>1
    <3> QED BY <3>1, <3>2 DEF Sound
  <2> QED BY <2>1, <2>2, <2>3 DEF Sound
<1>12. Verb(st.jobs, g.jobs)
  <2>1. past \in SUBSET Jobs
    BY <1>8
  <2>2. \A k \in Jobs \ past : /\ g.jobs[k].phase = st.jobs[k].phase
                               /\ g.jobs[k].holder = st.jobs[k].holder
                               /\ g.jobs[k].attempt = st.jobs[k].attempt
    BY <1>10
  <2>3. \A j \in past :
          /\ st.jobs[j].phase = "claimed"
          /\ \/ /\ g.jobs[j].phase \in JobFailure
                /\ g.jobs[j].holder = NoRunner /\ g.jobs[j].attempt = st.jobs[j].attempt
             \/ /\ g.jobs[j].phase = "queued"
                /\ g.jobs[j].holder = NoRunner /\ g.jobs[j].attempt = st.jobs[j].attempt + 1
    BY <1>8, <1>9
  <2> QED BY <2>1, <2>2, <2>3, Zenon DEF Verb
<1> QED BY <1>6, <1>11, <1>12 DEF Decides, g

-----------------------------------------------------------------------------
(* The steps, where the writes of a verb are durable together.             *)

LEMMA AtRest ==
  ASSUME Idle PROVE pending.writes = << >> /\ pending.events = << >> /\ After = disk
BY WriteEmpty DEF Idle, Nothing, After

LEMMA SameIsVerb == \A f : Verb(f, f)
BY DEF Verb

LEMMA NoMemIs == NoMem \in Instances /\ ~NoMem.loaded
BY BlankIsFold DEF NoMem, Instances

\* What holds when the writes of a verb are handed to storage, and e is what
\* they will leave.
Begins(e) ==
  /\ Kept(e) /\ e.log = << >> /\ e = AllWritten(disk, pending'.writes)
  /\ pending'.writes \in Seq(Puts)
  /\ mem' \in Instances /\ mem'.loaded
  /\ mem'.fold = Replay(e) /\ mem'.planned = e.plan /\ mem'.head = Len(Stream(e))
  /\ Range(Stream(disk)) \cup Range(pending'.events) \subseteq Range(Stream(e))
  /\ Verb(Replay(disk).jobs, Replay(e).jobs)

LEMMA BeginsKeeps ==
  ASSUME IInv, UNCHANGED << disk, told >>, NEW e, Begins(e) PROVE IInv'
<1>1. After' = e
  BY DEF Begins, After
<1>2. /\ Kept(disk)' /\ Kept(After)' /\ mem' \in Instances
      /\ (told \subseteq Range(Stream(disk)))'
  BY <1>1 DEF Begins, IInv
<1>3. pending'.writes \in Seq(Range(pending'.writes))
  BY SeqOfRange DEF Begins
<1>4. /\ mem'.loaded /\ mem'.fold = Replay(After)' /\ mem'.planned = After'.plan
      /\ mem'.head = Len(Stream(After))' /\ After'.log = << >>
  BY <1>1 DEF Begins
<1>5. (told \cup Range(pending.events) \subseteq Range(Stream(After)))'
  BY <1>1 DEF Begins, IInv
<1>6. Verb(Replay(disk).jobs, Replay(After).jobs)'
  BY <1>1 DEF Begins
<1> QED BY <1>2, <1>3, <1>4, <1>5, <1>6 DEF IInv

LEMMA LoadKeeps ==
  ASSUME IInv, Load PROVE IInv'
<1>1. Kept(disk) /\ pending.events = << >> /\ pending.writes = << >>
  BY AtRest DEF IInv, Load
<1>2. /\ disk \in Disks /\ (disk.events = << >> \/ disk.log = << >>)
      /\ disk.snap.through \in 0 .. Len(disk.events)
  BY <1>1 DEF Kept
<1>3. /\ Rebuilt(disk) = Replay(disk) /\ HeadOf(disk) = Len(Stream(disk))
      /\ Replay(disk) \in Folds /\ Len(Stream(disk)) \in Nat
  BY <1>1, KeptRebuilt, KeptStream
<1>4. /\ mem'.loaded /\ mem'.planned = disk.plan /\ mem'.fold = Replay(disk)
      /\ mem'.head = Len(Stream(disk)) /\ mem' \in Instances
  BY <1>2, <1>3 DEF Load, Instances, Disks
<1> DEFINE e == AllWritten(disk, pending'.writes)
<1>5. Range(<< >>) = {}
  BY DEF Range
<1>6. CASE disk.snap.through = 0 /\ disk.events = << >> /\ disk.log # << >>
  <2>1. /\ pending'.writes = Append(PersistEvents(disk.log), Put("log", << >>))
        /\ pending'.events = << >>
    BY <1>6 DEF Load, Migrates
  <2>2. Migration(disk, pending'.writes, e)
    BY <1>6, <2>1 DEF Migration
  <2> HIDE DEF e
  <2>3. /\ pending'.writes \in Seq(Puts) /\ Kept(e) /\ e.log = << >> /\ e.plan = disk.plan
        /\ Stream(e) = Stream(disk)
    BY <1>1, <2>2, Migrated
  <2>4. Replay(e) = Replay(disk)
    BY <2>3 DEF Replay
  <2>5. Begins(e)
    BY <1>4, <1>5, <2>1, <2>3, <2>4, SameIsVerb DEF Begins, e
  <2> QED BY <2>5, BeginsKeeps DEF Load
<1>7. CASE ~(disk.snap.through = 0 /\ disk.events = << >> /\ disk.log # << >>)
  <2>1. disk.log = << >>
    <3>1. disk.events = << >> => disk.snap.through = 0
      BY <1>2
    <3> QED BY <1>2, <1>7, <3>1
  <2>2. pending' = pending
    BY <1>7 DEF Load, Migrates
  <2>3. e = disk /\ pending'.writes = << >> /\ pending'.events = << >>
    BY <1>1, <2>2, WriteEmpty
  <2>4. << >> \in Seq(Puts)
    BY EmptySeq
  <2>5. Begins(disk)
    BY <1>1, <1>4, <1>5, <2>1, <2>3, <2>4, SameIsVerb DEF Begins
  <2> QED BY <2>5, BeginsKeeps DEF Load
<1> QED BY <1>6, <1>7

LEMMA InitRunKeeps ==
  ASSUME IInv, InitRun PROVE IInv'
<1> DEFINE first == Numbered(1, << RunEvent("RunCreated") >>)
           e == AllWritten(disk, pending'.writes)
<1>1. Kept(disk)
  BY DEF IInv
<1>2. /\ pending'.writes = << Put("plan", TRUE), Put("digest", TRUE) >>
                              \o PersistEvents(first) \o << Put("head", 1) >>
      /\ pending'.events = first
      /\ mem' = [loaded |-> TRUE, planned |-> TRUE,
                 fold |-> ReduceFrom(BlankFold, first), head |-> 1, snapAt |-> 0]
  BY DEF InitRun
<1>3. Starting(disk, first, pending'.writes, e)
  BY <1>2 DEF Starting, InitRun
<1> HIDE DEF first, e
<1>4. /\ pending'.writes \in Seq(Puts) /\ Kept(e) /\ e.log = << >> /\ e.plan
      /\ Stream(disk) = << >> /\ Stream(e) = first /\ Len(first) = 1
      /\ \A j \in Jobs : Replay(e).jobs[j] = FreshJob
  BY <1>1, <1>3, Started
<1>5. Replay(e) = ReduceFrom(BlankFold, first) /\ Replay(e) \in Folds
  BY <1>4, KeptStream DEF Replay
<1>6. /\ mem'.loaded /\ mem'.planned = TRUE /\ mem'.fold = Replay(e)
      /\ mem'.head = Len(Stream(e)) /\ mem' \in Instances
  <2>1. [loaded |-> TRUE, planned |-> TRUE, fold |-> Replay(e), head |-> 1, snapAt |-> 0]
          \in Instances
    BY <1>5 DEF Instances
  <2> QED BY <1>2, <1>4, <1>5, <2>1
<1>7. e.plan = TRUE
  BY <1>4 DEF Kept, Disks
<1>8. Range(Stream(disk)) \cup Range(pending'.events) \subseteq Range(Stream(e))
  BY <1>2, <1>4 DEF Range
<1>9. Verb(Replay(disk).jobs, Replay(e).jobs)
  <2>1. Replay(disk) = BlankFold
    BY <1>4, ReduceEmpty DEF Replay
  <2>2. \A j \in Jobs : Replay(disk).jobs[j] = Replay(e).jobs[j]
    BY <1>4, <2>1 DEF BlankFold
  <2> QED BY <2>2 DEF Verb
<1>10. Begins(e)
  BY <1>4, <1>6, <1>7, <1>8, <1>9 DEF Begins, e
<1> QED BY <1>10, BeginsKeeps DEF InitRun

LEMMA AppendKeeps ==
  ASSUME IInv, NEW intents, AppendAll(intents), Decides(mem.fold, intents) PROVE IInv'
<1> DEFINE events == Numbered(mem.head + 1, intents)
           f == ReduceFrom(mem.fold, events)
           snap == MaybeSnapshot(mem.fold, f, mem.snapAt)
           e == AllWritten(disk, pending'.writes)
<1>1. Kept(disk) /\ After = disk /\ mem.loaded /\ mem \in Instances
  BY AtRest DEF IInv, AppendAll
<1>2. /\ mem.fold = Replay(disk) /\ disk.plan /\ mem.head = Len(Stream(disk))
      /\ disk.log = << >>
  BY <1>1 DEF IInv, AppendAll
<1>3. intents \in Seq(Intents) /\ Sound(f) /\ Verb(Replay(disk).jobs, f.jobs)
  <2>1. f = Decided(mem.fold, intents)
    BY <1>1, <1>2, KeptStream DEF Decided
  <2> HIDE DEF f
  <2> QED BY <1>2, <2>1 DEF Decides
<1>4. /\ pending'.writes = PersistEvents(events) \o << Put("head", mem.head + Len(intents)) >>
                             \o snap
      /\ pending'.events = events
      /\ mem' = [mem EXCEPT !.fold = f, !.head = mem.head + Len(intents),
                            !.snapAt = IF snap = << >> THEN @ ELSE f.last]
      /\ UNCHANGED << disk, told >>
  BY DEF AppendAll
<1>5. Appending(disk, mem.snapAt, intents, events, f, pending'.writes, e)
  BY <1>2, <1>3, <1>4 DEF Appending
<1> HIDE DEF e, events, f, snap
<1>6. /\ pending'.writes \in Seq(Puts) /\ Kept(e) /\ e.log = << >> /\ e.plan
      /\ Stream(e) = Stream(disk) \o events /\ Replay(e) = f /\ events \in Seq(Events)
      /\ Len(Stream(e)) = Len(Stream(disk)) + Len(intents)
  <2> DEFINE at == mem.snapAt
             w == pending'.writes
             d == disk
  <2>1. Kept(d) /\ Appending(d, at, intents, events, f, w, e) /\ Sound(f)
    BY <1>1, <1>3, <1>5
  <2> HIDE DEF at, w, d
  <2>2. /\ w \in Seq(Puts) /\ Kept(e) /\ e.log = << >> /\ e.plan
        /\ Stream(e) = Stream(d) \o events /\ Replay(e) = f /\ events \in Seq(Events)
        /\ Len(Stream(e)) = Len(Stream(d)) + Len(intents)
    BY <2>1, Appended
  <2> QED BY <2>2 DEF w, d
<1>7. f \in Folds /\ f.last \in Nat /\ Len(Stream(e)) \in Nat
  BY <1>6, KeptStream DEF Folds
<1>8. /\ mem'.loaded = mem.loaded /\ mem'.planned = mem.planned /\ mem'.fold = Replay(e)
      /\ mem'.head = Len(Stream(e)) /\ mem' \in Instances
  <2> DEFINE at == IF snap = << >> THEN mem.snapAt ELSE f.last
  <2>1. at \in Nat
    BY <1>1, <1>7 DEF Instances
  <2>2. mem' = [mem EXCEPT !.fold = f, !.head = Len(Stream(e)), !.snapAt = at]
    BY <1>2, <1>4, <1>6
  <2> HIDE DEF at
  <2> QED BY <1>1, <1>6, <1>7, <2>1, <2>2 DEF Instances
<1>9. e.plan = mem.planned
  <2>1. e.plan \in BOOLEAN /\ mem.planned \in BOOLEAN
    BY <1>1, <1>6 DEF Kept, Disks, Instances
  <2>2. mem.planned
    BY DEF AppendAll
  <2> QED BY <1>6, <2>1, <2>2
<1>10. Range(Stream(disk)) \cup Range(pending'.events) \subseteq Range(Stream(e))
  <2>1. Streams(Stream(e), Stream(disk), events)
    BY <1>1, <1>6, KeptStream DEF Streams
  <2> QED BY <1>4, <2>1, StreamRange
<1>11. Begins(e)
  BY <1>1, <1>3, <1>6, <1>8, <1>9, <1>10 DEF Begins, e
<1> QED BY <1>4, <1>11, BeginsKeeps

\* Each verb appends what its decider returns.
LEMMA Live ==
  ASSUME IInv, NEW intents, AppendAll(intents)
  PROVE  mem.fold \in Folds /\ Sound(mem.fold)
<1>1. Kept(disk) /\ mem.fold = Replay(disk)
  BY AtRest DEF IInv, AppendAll
<1> QED BY <1>1, KeptStream DEF Kept

LEMMA SignalType ==
  ASSUME NEW overrides PROVE Signal(overrides) \in Signals
<1> DEFINE kinds == TerminalSignal(mem.fold.jobs, mem.fold.canceled, mem.fold.created, overrides)
<1>1. kinds \in {<< >>, << "RunCompleted" >>, << "RunFailed" >>}
  BY TerminalSignalIs
<1>2. Signal(overrides) = [i \in DOMAIN kinds |-> RunEvent(kinds[i])]
  BY DEF Signal
<1> HIDE DEF kinds
<1> QED BY <1>1, <1>2, SignalIs

LEMMA ClaimKeeps ==
  ASSUME IInv, NEW j \in Jobs, NEW r \in Runners, Claim(j, r) PROVE IInv'
<1> DEFINE jb == mem.fold.jobs[j]
           w == Event("JobClaimed", j, r, jb.attempt)
           u == Event("LeaseExpired", j, jb.holder, jb.leaseEpoch)
           v == Event("JobClaimed", j, r, jb.attempt + 1)
           m == Event("memoized", j, NoRunner, 0)
<1>1. CASE j \in Frontier(mem.fold.jobs) /\ AppendAll(<< w >>)
  <2>1. Decides(mem.fold, << w >>)
    <3>1. w = Event("JobClaimed", j, r, mem.fold.jobs[j].attempt)
      OBVIOUS
    <3> HIDE DEF w
    <3> QED BY <1>1, <3>1, Live, GiveDecides
  <2> HIDE DEF w
  <2> QED BY <1>1, <2>1, AppendKeeps
<1>2. CASE jb.phase = "claimed" /\ jb.holder # r /\ AppendAll(<< u, v >>)
  <2>1. Decides(mem.fold, << u, v >>)
    <3> DEFINE st == mem.fold
    <3>1. /\ st.jobs[j].phase = "claimed" /\ st.jobs[j].holder # r
          /\ u = Event("LeaseExpired", j, st.jobs[j].holder, st.jobs[j].leaseEpoch)
          /\ v = Event("JobClaimed", j, r, st.jobs[j].attempt + 1)
      BY <1>2
    <3>2. st \in Folds /\ Sound(st)
      BY <1>2, Live
    <3> HIDE DEF st, u, v
    <3>3. Decides(st, << u, v >>)
      BY <3>1, <3>2, PassDecides
    <3> QED BY <3>3 DEF st
  <2> HIDE DEF u, v
  <2> QED BY <1>2, <2>1, AppendKeeps
<1>3. CASE j \in Frontier(mem.fold.jobs) /\ AppendAll(<< m >>)
  <2>1. Decides(mem.fold, << m >>)
    <3>1. m = Event("memoized", j, NoRunner, 0)
      OBVIOUS
    <3> HIDE DEF m
    <3> QED BY <1>3, <3>1, Live, MemoDecides
  <2> HIDE DEF m
  <2> QED BY <1>3, <2>1, AppendKeeps
<1> QED BY <1>1, <1>2, <1>3 DEF Claim

LEMMA HeartbeatKeeps ==
  ASSUME IInv, NEW j \in Jobs, Heartbeat(j) PROVE IInv'
<1> DEFINE st == mem.fold
           w == Event("LeaseRenewed", j, st.jobs[j].holder, st.jobs[j].leaseEpoch)
<1>1. st.jobs[j].phase = "claimed" /\ AppendAll(<< w >>)
  BY DEF Heartbeat
<1>2. w = Event("LeaseRenewed", j, st.jobs[j].holder, st.jobs[j].leaseEpoch)
  OBVIOUS
<1> HIDE DEF w
<1>3. st \in Folds /\ Sound(st)
  BY <1>1, Live
<1>4. Decides(st, << w >>)
  <2> HIDE DEF st
  <2> QED BY <1>1, <1>2, <1>3, HeartbeatDecides
<1> QED BY <1>1, <1>4, AppendKeeps

LEMMA CompleteKeeps ==
  ASSUME IInv, NEW j \in Jobs, NEW outcome \in {"succeeded", "failed", "timed_out"},
         Complete(j, outcome)
  PROVE  IInv'
<1> DEFINE st == mem.fold
           w == Event(outcome, j, st.jobs[j].holder, st.jobs[j].leaseEpoch)
           sig == Signal([k \in {j} |-> outcome])
           c == << w >> \o sig
<1>1. st.jobs[j].phase = "claimed" /\ AppendAll(c)
  BY DEF Complete
<1>2. sig \in Signals
  BY SignalType
<1>3. w = Event(outcome, j, st.jobs[j].holder, st.jobs[j].leaseEpoch)
  OBVIOUS
<1> HIDE DEF w, sig
<1>4. st \in Folds /\ Sound(st)
  BY <1>1, Live
<1>5. Decides(st, c)
  <2> HIDE DEF st
  <2> QED BY <1>1, <1>2, <1>3, <1>4, CompleteDecides
<1> HIDE DEF c
<1> QED BY <1>1, <1>5, AppendKeeps

LEMMA CancelKeeps ==
  ASSUME IInv, Cancel PROVE IInv'
<1> DEFINE w == RunEvent("RunCanceled")
<1>1. PhaseOf(mem.fold) \notin RunTerminal /\ AppendAll(<< w >>)
  BY DEF Cancel
<1>2. w = RunEvent("RunCanceled")
  OBVIOUS
<1> HIDE DEF w
<1>3. Decides(mem.fold, << w >>)
  BY <1>1, <1>2, Live, CancelDecides
<1> QED BY <1>1, <1>3, AppendKeeps

LEMMA SweepKeeps ==
  ASSUME IInv, NEW gone \in SUBSET Jobs, Sweep(gone) PROVE IInv'
<1> DEFINE st == mem.fold
           order == SetToSeq(gone)
           a == [i \in DOMAIN order |-> ExpiryOf(st.jobs, order[i])]
           sig == Signal([j \in gone |-> SweepPhase(st.jobs[j])])
           c == a \o sig
<1>1. (\A j \in gone : st.jobs[j].phase = "claimed") /\ AppendAll(c)
  BY DEF Sweep, ExpiryOf
<1>2. sig \in Signals
  BY SignalType
<1>3. c = a \o sig /\ a = [i \in DOMAIN order |-> ExpiryOf(st.jobs, order[i])]
  OBVIOUS
<1> HIDE DEF a, sig, c
<1>4. st \in Folds /\ Sound(st)
  BY <1>1, Live
<1>5. Decides(st, c)
  <2> HIDE DEF st
  <2> QED BY <1>1, <1>2, <1>3, <1>4, SweepDecides
<1> QED BY <1>1, <1>5, AppendKeeps

\* The writes are durable, or the instance goes away: what is kept has no verb
\* under way.
LEMMA EndKeeps ==
  ASSUME IInv, pending' = Nothing, NEW d \in {disk, After}, disk' = d,
         told' \subseteq Range(Stream(d)),
         \/ mem' = NoMem
         \/ mem' = mem /\ mem.loaded /\ d = After
  PROVE  IInv'
<1>1. After' = d /\ pending'.writes = << >> /\ pending'.events = << >> /\ Idle'
  BY WriteEmpty DEF After, Nothing, Idle
<1>2. Kept(disk)' /\ Kept(After)' /\ (told \subseteq Range(Stream(disk)))'
  BY <1>1 DEF IInv
<1>3. mem' \in Instances
  BY NoMemIs DEF IInv
<1>4. pending'.writes \in Seq(Range(pending'.writes))
  BY <1>1, EmptySeq
<1>5. Range(<< >>) = {}
  BY DEF Range
<1>6. told' \cup Range(pending'.events) \subseteq Range(Stream(After))'
  BY <1>1, <1>5
<1>7. Verb(Replay(disk).jobs, Replay(After).jobs)'
  BY <1>1, SameIsVerb
<1>8. IF mem'.loaded
        THEN /\ mem'.fold = Replay(After)' /\ mem'.planned = After'.plan
             /\ mem'.head = Len(Stream(After))' /\ After'.log = << >>
        ELSE mem' = NoMem /\ Idle'
  <2>1. CASE mem' = NoMem
    BY <1>1, <2>1, NoMemIs
  <2>2. CASE mem' = mem /\ mem.loaded /\ d = After
    <3>1. /\ mem.fold = Replay(After) /\ mem.planned = After.plan
          /\ mem.head = Len(Stream(After)) /\ After.log = << >>
      BY <2>2 DEF IInv
    <3> QED BY <1>1, <2>2, <3>1
  <2> QED BY <2>1, <2>2
<1> QED BY <1>2, <1>3, <1>4, <1>6, <1>7, <1>8 DEF IInv

LEMMA CommitKeeps ==
  ASSUME IInv, Commit PROVE IInv'
<1>1. disk' = After /\ pending' = Nothing /\ mem' = mem /\ mem.loaded
  BY DEF Commit, After, IInv
<1>2. told' \subseteq Range(Stream(After))
  BY DEF Commit, IInv
<1> QED BY <1>1, <1>2, EndKeeps

LEMMA CrashKeeps ==
  ASSUME IInv, Coalesced, Crash PROVE IInv'
<1>1. PICK kept \in {0, Len(pending.writes)} :
        disk' = AllWritten(disk, SubSeq(pending.writes, 1, kept))
  BY Coalesced DEF Crash
<1>2. pending' = Nothing /\ mem' = NoMem /\ told' = told
  BY DEF Crash
<1>3. disk' \in {disk, After}
  <2> DEFINE w == pending.writes
  <2>1. w \in Seq(Range(w))
    BY DEF IInv
  <2>2. CASE kept = 0
    <3>1. SubSeq(w, 1, 0) = << >>
      BY <2>1, SubSeqEmpty
    <3> QED BY <1>1, <2>2, <3>1, WriteEmpty
  <2>3. CASE kept = Len(w)
    <3>1. SubSeq(w, 1, Len(w)) = w
      BY <2>1, SubSeqFull
    <3> QED BY <1>1, <2>3, <3>1 DEF After
  <2> QED BY <1>1, <2>2, <2>3
<1>4. told \subseteq Range(Stream(disk)) /\ told \subseteq Range(Stream(After))
  BY DEF IInv
<1>5. told' \subseteq Range(Stream(disk'))
  BY <1>2, <1>3, <1>4
<1> QED BY <1>2, <1>3, <1>5, EndKeeps

-----------------------------------------------------------------------------
(* The theorems, where an append's writes are durable together.            *)

LEMMA InitKeeps == Init => IInv
<1> SUFFICES ASSUME Init PROVE IInv
  OBVIOUS
<1>1. PICK log \in {<< >>} \cup { Numbered(1, old) : old \in OldLogs } :
        disk = FreshDisk(log) /\ told = Range(log)
  BY DEF Init
<1>2. mem = NoMem /\ pending = Nothing /\ Idle
  BY DEF Init, Idle
<1>3. Kept(disk) /\ Stream(disk) = log
  BY <1>1, FreshKept
<1>4. After = disk /\ pending.events = << >> /\ pending.writes = << >>
  BY <1>2, AtRest
<1>5. Range(<< >>) = {}
  BY DEF Range
<1>6. pending.writes \in Seq(Range(pending.writes))
  BY <1>4, EmptySeq
<1> QED BY <1>1, <1>2, <1>3, <1>4, <1>5, <1>6, NoMemIs, SameIsVerb DEF IInv

LEMMA StillKeeps ==
  ASSUME IInv, UNCHANGED vars PROVE IInv'
BY DEF IInv, vars, After, Idle

LEMMA NextKeeps ==
  ASSUME IInv, Coalesced, Next PROVE IInv'
<1>1. ASSUME NEW j \in Jobs, NEW r \in Runners, Claim(j, r) PROVE IInv'
  BY <1>1, ClaimKeeps
<1>2. ASSUME NEW j \in Jobs, Heartbeat(j) PROVE IInv'
  BY <1>2, HeartbeatKeeps
<1>3. ASSUME NEW j \in Jobs, NEW outcome \in {"succeeded", "failed", "timed_out"},
             Complete(j, outcome)
      PROVE  IInv'
  BY <1>3, CompleteKeeps
<1>4. ASSUME NEW gone \in SUBSET Jobs, Sweep(gone) PROVE IInv'
  BY <1>4, SweepKeeps
<1>5. CASE Load
  BY <1>5, LoadKeeps
<1>6. CASE InitRun
  BY <1>6, InitRunKeeps
<1>7. CASE Cancel
  BY <1>7, CancelKeeps
<1>8. CASE Commit
  BY <1>8, CommitKeeps
<1>9. CASE Crash
  BY <1>9, CrashKeeps
<1> QED BY <1>1, <1>2, <1>3, <1>4, <1>5, <1>6, <1>7, <1>8, <1>9 DEF Next

\* Storage between verbs is one numbered stream that the head and the snapshot
\* belong to, what the verb under way leaves is again one, and what it adds is
\* one decider's answer: through load(), the migration, init, every append and
\* its snapshot, and a crash before or after the writes.
THEOREM Invariance == ASSUME Coalesced PROVE Spec => []IInv
<1>1. Init => IInv
  BY InitKeeps
<1>2. IInv /\ [Next]_vars => IInv'
  BY Coalesced, NextKeeps, StillKeeps
<1> QED BY <1>1, <1>2, PTL DEF Spec

LEMMA StoreTypes == ASSUME IInv PROVE TypeOK
<1>1. /\ disk \in Disks /\ disk.digest = disk.plan /\ disk.head \in {0, Len(disk.events)}
      /\ disk.snap.through \in 0 .. Len(disk.events)
  BY DEF IInv, Kept
<1>2. disk.events \in Seq(Events) /\ Len(disk.events) \in Nat
  BY <1>1, LenProperties DEF Disks
<1>3. DOMAIN disk.events = 1 .. Len(disk.events)
  BY <1>2, LenProperties
<1>4. Cardinality(1 .. Len(disk.events)) = Len(disk.events)
  BY <1>2, FS_Interval
<1>5. /\ disk.head \in {0} \cup 1 .. Len(disk.events)
      /\ disk.snap.through \in {0} \cup 1 .. Len(disk.events)
  BY <1>1, <1>2
<1>6. mem.fold \in Folds /\ disk.snap.fold \in Folds
  BY <1>1 DEF IInv, Instances, Disks
<1>7. mem.loaded => mem.head = mem.fold.last
  BY KeptStream DEF IInv
<1> QED BY <1>1, <1>3, <1>4, <1>5, <1>6, <1>7 DEF TypeOK

\* TypeOK: the keys of storage have no gaps, the head and the snapshot are among
\* them, and the head in memory is the last number of the fold.
THEOREM TypeCorrect == ASSUME Coalesced PROVE Spec => []TypeOK
<1>1. IInv => TypeOK
  BY StoreTypes
<1> QED BY <1>1, Invariance, PTL

\* load(), from a snapshot and the events after it or from an old log, gives
\* the replay of the whole stream, and a live instance agrees with it.
THEOREM RestartsInvisible == ASSUME Coalesced PROVE Spec => []RebuiltIsLive
<1>1. IInv => RebuiltIsLive
  <2> SUFFICES ASSUME IInv PROVE RebuiltIsLive
    OBVIOUS
  <2>1. Rebuilt(disk) = Replay(disk)
    BY KeptRebuilt DEF IInv
  <2>2. mem.loaded /\ Idle => mem.fold = Replay(disk)
    BY AtRest DEF IInv
  <2> QED BY <2>1, <2>2 DEF RebuiltIsLive
<1> QED BY <1>1, Invariance, PTL

\* No event of a verb that was answered is lost, overwritten or renumbered.
THEOREM NothingLost == ASSUME Coalesced PROVE Spec => []AcknowledgedSurvive
<1>1. IInv => AcknowledgedSurvive
  BY DEF IInv, AcknowledgedSurvive
<1> QED BY <1>1, Invariance, PTL

-----------------------------------------------------------------------------
(* With its durable stream for a state the store implements JobLedger.     *)

LEMMA StatusIff ==
  ASSUME NEW phase \in JobPhases
  PROVE  /\ StatusOf(phase) = "open" <=> phase = "queued"
         /\ StatusOf(phase) = "held" <=> phase = "claimed"
         /\ StatusOf(phase) = "won"  <=> phase \in JobSuccess
         /\ StatusOf(phase) = "lost" <=> phase \in JobFailure
         /\ StatusOf(phase) = "dropped" <=> phase = "canceled"
         /\ StatusOf(phase) \in {"won", "lost", "dropped"} <=> phase \in JobTerminal
BY DEF StatusOf, JobPhases, JobTerminal, JobSuccess, JobFailure

LEMMA StatusMeaning ==
  /\ StatusOf("queued") = "open" /\ StatusOf("claimed") = "held"
  /\ StatusOf("succeeded") = "won" /\ StatusOf("memoized") = "won"
  /\ StatusOf("canceled") = "dropped"
BY DEF StatusOf, JobSuccess, JobFailure

\* A step between two folds of the durable stream.
Stepped(f, g) ==
  /\ f = Rebuilt(disk).jobs /\ g = Rebuilt(disk)'.jobs
  /\ f \in [Jobs -> JobState] /\ g \in [Jobs -> JobState]

Alike(f, g, j) ==
  g[j].phase = f[j].phase /\ g[j].holder = f[j].holder /\ g[j].attempt = f[j].attempt

OnlyAt(f, g, j) == \A k \in Jobs \ {j} : Alike(f, g, k)

LEMMA LedgerIs ==
  ASSUME NEW f \in [Jobs -> JobState], NEW j \in Jobs
  PROVE  /\ Statuses(f)[j] = StatusOf(f[j].phase) /\ Owners(f)[j] = f[j].holder
         /\ Turns(f)[j] = f[j].attempt /\ f[j].phase \in JobPhases
BY DEF Statuses, Owners, Turns, JobState

LEMMA LedgerSame ==
  ASSUME NEW f, NEW g, \A j \in Jobs : Alike(f, g, j)
  PROVE  Statuses(g) = Statuses(f) /\ Owners(g) = Owners(f) /\ Turns(g) = Turns(f)
BY DEF Alike, Statuses, Owners, Turns

\* A step that moves one job changes the ledger at that job only.
LEMMA LedgerAt ==
  ASSUME NEW f, NEW g, NEW j \in Jobs, OnlyAt(f, g, j)
  PROVE  /\ Statuses(g) = [Statuses(f) EXCEPT ![j] = StatusOf(g[j].phase)]
         /\ Owners(g) = [Owners(f) EXCEPT ![j] = g[j].holder]
         /\ Turns(g) = [Turns(f) EXCEPT ![j] = g[j].attempt]
BY DEF OnlyAt, Alike, Statuses, Owners, Turns

LEMMA ReadyIs ==
  ASSUME NEW f, NEW g, Stepped(f, g), NEW j \in Frontier(f)
  PROVE  Ledger!Ready(j)
<1>1. j \in Jobs /\ DepsSatisfied(f, j)
  BY DEF Frontier
<1>2. ASSUME NEW d \in Deps[j] PROVE Statuses(f)[d] = "won"
  <2>1. d \in Jobs /\ f[d].phase \in JobSuccess
    BY <1>1, CoreAssumption DEF CoreAssumption, DepsSatisfied
  <2>2. Statuses(f)[d] = StatusOf(f[d].phase) /\ f[d].phase \in JobPhases
    BY <2>1, LedgerIs DEF Stepped
  <2> QED BY <2>1, <2>2, StatusIff
<1> QED BY <1>2 DEF Ledger!Ready, Stepped

LEMMA GiveStep ==
  ASSUME NEW f, NEW g, Stepped(f, g), NEW j \in Frontier(f), NEW r \in Runners,
         OnlyAt(f, g, j),
         g[j].phase = "claimed", g[j].holder = r, g[j].attempt = f[j].attempt
  PROVE  Ledger!Next
<1>1. j \in Jobs /\ f[j].phase = "queued"
  BY DEF Frontier
<1>2. Ledger!Ready(j)
  BY ReadyIs
<1>3. /\ Statuses(f)[j] = "open"
      /\ Statuses(g) = [Statuses(f) EXCEPT ![j] = "held"]
      /\ Owners(g) = [Owners(f) EXCEPT ![j] = r]
      /\ Turns(g) = [Turns(f) EXCEPT ![j] = f[j].attempt]
  <2>1. Statuses(f)[j] = "open"
    BY <1>1, LedgerIs, StatusMeaning DEF Stepped
  <2>2. /\ Statuses(g) = [Statuses(f) EXCEPT ![j] = StatusOf(g[j].phase)]
        /\ Owners(g) = [Owners(f) EXCEPT ![j] = g[j].holder]
        /\ Turns(g) = [Turns(f) EXCEPT ![j] = g[j].attempt]
    BY <1>1, LedgerAt
  <2> QED BY <2>1, <2>2, StatusMeaning
<1>4. Turns(g) = Turns(f)
  BY <1>3 DEF Turns
<1>5. Ledger!Give(j, r)
  BY <1>2, <1>3, <1>4 DEF Ledger!Give, Stepped
<1> QED BY <1>1, <1>5 DEF Ledger!Next, Ledger!Request

LEMMA PassStep ==
  ASSUME NEW f, NEW g, Stepped(f, g), NEW j \in Jobs, NEW r \in Runners,
         OnlyAt(f, g, j),
         f[j].phase = "claimed", f[j].holder # r,
         g[j].phase = "claimed", g[j].holder = r, g[j].attempt = f[j].attempt + 1
  PROVE  Ledger!Next
<1>1. /\ Statuses(f)[j] = "held" /\ Owners(f)[j] # r
      /\ Statuses(g) = [Statuses(f) EXCEPT ![j] = "held"]
      /\ Owners(g) = [Owners(f) EXCEPT ![j] = r]
      /\ Turns(g) = [Turns(f) EXCEPT ![j] = f[j].attempt + 1] /\ Turns(f)[j] = f[j].attempt
  <2>1. Statuses(f)[j] = "held" /\ Owners(f)[j] = f[j].holder /\ Turns(f)[j] = f[j].attempt
    BY LedgerIs, StatusMeaning DEF Stepped
  <2>2. /\ Statuses(g) = [Statuses(f) EXCEPT ![j] = StatusOf(g[j].phase)]
        /\ Owners(g) = [Owners(f) EXCEPT ![j] = g[j].holder]
        /\ Turns(g) = [Turns(f) EXCEPT ![j] = g[j].attempt]
    BY LedgerAt
  <2> QED BY <2>1, <2>2, StatusMeaning
<1>2. Statuses(g) = Statuses(f)
  BY <1>1 DEF Statuses
<1>3. Turns(g) = [Turns(f) EXCEPT ![j] = @ + 1]
  BY <1>1
<1>4. Ledger!Pass(j, r)
  BY <1>1, <1>2, <1>3 DEF Ledger!Pass, Stepped
<1> QED BY <1>4 DEF Ledger!Next, Ledger!Request

LEMMA WinStep ==
  ASSUME NEW f, NEW g, Stepped(f, g), NEW j \in Jobs,
         OnlyAt(f, g, j),
         f[j].phase = "claimed", g[j].phase = "succeeded",
         g[j].holder = NoRunner, g[j].attempt = f[j].attempt
  PROVE  Ledger!Next
<1>1. /\ Statuses(f)[j] = "held"
      /\ Statuses(g) = [Statuses(f) EXCEPT ![j] = "won"]
      /\ Owners(g) = [Owners(f) EXCEPT ![j] = NoRunner]
      /\ Turns(g) = [Turns(f) EXCEPT ![j] = f[j].attempt]
  <2>1. Statuses(f)[j] = "held"
    BY LedgerIs, StatusMeaning DEF Stepped
  <2>2. /\ Statuses(g) = [Statuses(f) EXCEPT ![j] = StatusOf(g[j].phase)]
        /\ Owners(g) = [Owners(f) EXCEPT ![j] = g[j].holder]
        /\ Turns(g) = [Turns(f) EXCEPT ![j] = g[j].attempt]
    BY LedgerAt
  <2> QED BY <2>1, <2>2, StatusMeaning
<1>2. Turns(g) = Turns(f)
  BY <1>1 DEF Turns
<1>3. Ledger!Finish(j, "won")
  BY <1>1, <1>2 DEF Ledger!Finish, Stepped
<1> QED BY <1>3 DEF Ledger!Next, Ledger!Request

LEMMA AdoptStep ==
  ASSUME NEW f, NEW g, Stepped(f, g), NEW j \in Frontier(f),
         OnlyAt(f, g, j), f[j].holder = NoRunner,
         g[j].phase = "memoized", g[j].holder = NoRunner, g[j].attempt = f[j].attempt
  PROVE  Ledger!Next
<1>1. j \in Jobs /\ f[j].phase = "queued"
  BY DEF Frontier
<1>2. Ledger!Ready(j)
  BY ReadyIs
<1>3. /\ Statuses(f)[j] = "open"
      /\ Statuses(g) = [Statuses(f) EXCEPT ![j] = "won"]
      /\ Owners(g) = [Owners(f) EXCEPT ![j] = f[j].holder]
      /\ Turns(g) = [Turns(f) EXCEPT ![j] = f[j].attempt]
  <2>1. Statuses(f)[j] = "open"
    BY <1>1, LedgerIs, StatusMeaning DEF Stepped
  <2>2. /\ Statuses(g) = [Statuses(f) EXCEPT ![j] = StatusOf(g[j].phase)]
        /\ Owners(g) = [Owners(f) EXCEPT ![j] = g[j].holder]
        /\ Turns(g) = [Turns(f) EXCEPT ![j] = g[j].attempt]
    BY <1>1, LedgerAt
  <2> QED BY <2>1, <2>2, StatusMeaning
<1>4. Turns(g) = Turns(f) /\ Owners(g) = Owners(f)
  BY <1>3 DEF Turns, Owners
<1>5. Ledger!Adopt(j)
  BY <1>2, <1>3, <1>4 DEF Ledger!Adopt, Stepped
<1> QED BY <1>1, <1>5 DEF Ledger!Next, Ledger!Request

LEMMA ExpireStep ==
  ASSUME NEW f, NEW g, Stepped(f, g), NEW gone \in SUBSET Jobs,
         \A k \in Jobs \ gone : Alike(f, g, k),
         \A j \in gone : /\ f[j].phase = "claimed" /\ g[j].holder = NoRunner
                         /\ \/ g[j].phase \in JobFailure /\ g[j].attempt = f[j].attempt
                            \/ g[j].phase = "queued" /\ g[j].attempt = f[j].attempt + 1
  PROVE  Ledger!Next
<1> DEFINE lost == {j \in gone : g[j].phase \in JobFailure}
<1>1. \A j \in gone : Statuses(f)[j] = "held"
  <2>1. TAKE j \in gone
  <2>2. j \in Jobs /\ f \in [Jobs -> JobState]
    BY DEF Stepped
  <2>3. f[j].phase = "claimed"
    OBVIOUS
  <2>4. Statuses(f)[j] = StatusOf(f[j].phase)
    BY <2>2, LedgerIs
  <2> QED BY <2>3, <2>4, StatusMeaning
<1>2. Statuses(g) = [j \in Jobs |-> IF j \notin gone THEN Statuses(f)[j]
                                    ELSE IF j \in lost THEN "lost" ELSE "open"]
  <2>1. ASSUME NEW j \in Jobs
        PROVE  StatusOf(g[j].phase) = IF j \notin gone THEN Statuses(f)[j]
                                      ELSE IF j \in lost THEN "lost" ELSE "open"
    <3>1. CASE j \notin gone
      <4>1. Statuses(f)[j] = StatusOf(f[j].phase) /\ g[j].phase = f[j].phase
        BY <3>1, LedgerIs DEF Alike, Stepped
      <4> QED BY <3>1, <4>1
    <3>2. CASE j \in lost
      <4>1. g[j].phase \in JobPhases
        BY DEF Stepped, JobState
      <4> QED BY <3>2, <4>1, StatusIff
    <3>3. CASE j \in gone \ lost
      <4>1. g[j].phase = "queued"
        BY <3>3
      <4> QED BY <3>3, <4>1, StatusMeaning
    <3> QED BY <3>1, <3>2, <3>3
  <2> HIDE DEF lost
  <2> QED BY <2>1 DEF Statuses
<1>3. Owners(g) = [j \in Jobs |-> IF j \in gone THEN NoRunner ELSE Owners(f)[j]]
  BY DEF Owners, Alike
<1>4. Turns(g) = [j \in Jobs |-> IF j \in gone \ lost THEN Turns(f)[j] + 1 ELSE Turns(f)[j]]
  <2>1. ASSUME NEW j \in Jobs
        PROVE  g[j].attempt = IF j \in gone \ lost THEN f[j].attempt + 1 ELSE f[j].attempt
    <3>1. CASE j \notin gone
      BY <3>1 DEF Alike
    <3>2. CASE j \in lost
      BY <3>2 DEF JobFailure
    <3>3. CASE j \in gone \ lost
      BY <3>3
    <3> QED BY <3>1, <3>2, <3>3
  <2> HIDE DEF lost
  <2> QED BY <2>1 DEF Turns
<1>5. lost \in SUBSET gone
  OBVIOUS
<1> HIDE DEF lost
<1>6. Ledger!Expire(gone, lost)
  BY <1>1, <1>2, <1>3, <1>4 DEF Ledger!Expire, Stepped
<1> QED BY <1>5, <1>6 DEF Ledger!Next, Ledger!Timeout

\* A cancel of a run that has not ended.
Drops(f, g) ==
  /\ RunPhase(PhasesOf(f), FALSE, TRUE) = "running"
  /\ \A j \in Jobs : f[j].phase # "canceled"
  /\ \A j \in Jobs :
       \/ f[j].phase \in JobTerminal /\ Alike(f, g, j)
       \/ /\ f[j].phase \notin JobTerminal
          /\ g[j].phase = "canceled" /\ g[j].holder = NoRunner
          /\ g[j].attempt = f[j].attempt

LEMMA DropStep ==
  ASSUME NEW f, NEW g, Stepped(f, g), Drops(f, g),
         \A j \in Jobs : f[j].phase # "claimed" => f[j].holder = NoRunner
  PROVE  Ledger!Next
<1> USE DEF Drops
<1>1. /\ \A j \in Jobs : f[j].phase \notin JobFailure
      /\ \E j \in Jobs : f[j].phase \notin JobSuccess
  BY DEF RunPhase, PhasesOf
<1>2. \A j \in Jobs : /\ Statuses(f)[j] # "dropped" /\ Statuses(f)[j] # "lost"
                      /\ Statuses(f)[j] = "won" <=> f[j].phase \in JobSuccess
                      /\ Statuses(f)[j] \in {"won", "lost", "dropped"}
                           <=> f[j].phase \in JobTerminal
  <2>1. TAKE j \in Jobs
  <2>2. Statuses(f)[j] = StatusOf(f[j].phase) /\ f[j].phase \in JobPhases
    BY LedgerIs DEF Stepped
  <2> QED BY <1>1, <2>2, StatusIff
<1>3. Ledger!RunStatus = "running"
  BY <1>1, <1>2 DEF Ledger!RunStatus, Stepped
<1>4. Statuses(g) = [j \in Jobs |-> IF Statuses(f)[j] \in {"won", "lost", "dropped"}
                                    THEN Statuses(f)[j] ELSE "dropped"]
  <2>1. ASSUME NEW j \in Jobs
        PROVE  StatusOf(g[j].phase) = IF Statuses(f)[j] \in {"won", "lost", "dropped"}
                                      THEN Statuses(f)[j] ELSE "dropped"
    <3>1. CASE f[j].phase \in JobTerminal
      BY <1>2, <3>1, LedgerIs DEF Alike, Stepped
    <3>2. CASE f[j].phase \notin JobTerminal
      <4>1. g[j].phase = "canceled"
        BY <3>2
      <4> QED BY <1>2, <3>2, <4>1 DEF StatusOf, JobSuccess, JobFailure
    <3> QED BY <3>1, <3>2
  <2> QED BY <2>1 DEF Statuses
<1>5. Owners(g) = [j \in Jobs |-> NoRunner]
  <2>1. \A j \in Jobs : f[j].phase \in JobTerminal => f[j].phase # "claimed"
    BY DEF JobTerminal, JobSuccess, JobFailure
  <2>2. \A j \in Jobs : g[j].holder = NoRunner
    BY <2>1 DEF Alike
  <2> QED BY <2>2 DEF Owners
<1>6. Turns(g) = Turns(f)
  BY DEF Turns, Alike
<1>7. Ledger!Drop
  BY <1>3, <1>4, <1>5, <1>6 DEF Ledger!Drop, Ledger!Done, Stepped
<1> QED BY <1>7 DEF Ledger!Next, Ledger!Request

\* What a verb leaves is one step of the ledger, or none.
LEMMA VerbSteps ==
  ASSUME NEW f, NEW g, Stepped(f, g), Verb(f, g),
         \A j \in Jobs : f[j].phase # "claimed" => f[j].holder = NoRunner
  PROVE  [Ledger!Next]_(Ledger!ledger)
<1>1. CASE \A j \in Jobs : Alike(f, g, j)
  <2>1. Statuses(g) = Statuses(f) /\ Owners(g) = Owners(f) /\ Turns(g) = Turns(f)
    BY <1>1, LedgerSame
  <2> QED BY <2>1 DEF Ledger!ledger, Stepped
<1>2. ASSUME NEW j \in Jobs, NEW r \in Runners, OnlyAt(f, g, j),
             j \in Frontier(f), g[j].phase = "claimed", g[j].holder = r,
             g[j].attempt = f[j].attempt
      PROVE  Ledger!Next
  BY <1>2, GiveStep
<1>3. ASSUME NEW j \in Jobs, NEW r \in Runners, OnlyAt(f, g, j),
             f[j].phase = "claimed", f[j].holder # r,
             g[j].phase = "claimed", g[j].holder = r, g[j].attempt = f[j].attempt + 1
      PROVE  Ledger!Next
  BY <1>3, PassStep
<1>4. ASSUME NEW gone \in SUBSET Jobs, \A k \in Jobs \ gone : Alike(f, g, k),
             \A j \in gone : /\ f[j].phase = "claimed" /\ g[j].holder = NoRunner
                             /\ \/ g[j].phase \in JobFailure /\ g[j].attempt = f[j].attempt
                                \/ g[j].phase = "queued" /\ g[j].attempt = f[j].attempt + 1
      PROVE  Ledger!Next
  BY <1>4, ExpireStep
<1>5. ASSUME NEW j \in Jobs, OnlyAt(f, g, j),
             f[j].phase = "claimed", g[j].phase = "succeeded",
             g[j].holder = NoRunner, g[j].attempt = f[j].attempt
      PROVE  Ledger!Next
  BY <1>5, WinStep
<1>6. ASSUME NEW j \in Frontier(f), OnlyAt(f, g, j),
             g[j].phase = "memoized", g[j].holder = NoRunner, g[j].attempt = f[j].attempt
      PROVE  Ledger!Next
  <2>1. f[j].holder = NoRunner
    BY DEF Frontier
  <2> QED BY <1>6, <2>1, AdoptStep
<1>7. CASE Drops(f, g)
  BY <1>7, DropStep
<1>8. CASE \E j \in Jobs, r \in Runners :
             /\ OnlyAt(f, g, j)
             /\ \/ /\ j \in Frontier(f) /\ g[j].phase = "claimed" /\ g[j].holder = r
                   /\ g[j].attempt = f[j].attempt
                \/ /\ f[j].phase = "claimed" /\ f[j].holder # r
                   /\ g[j].phase = "claimed" /\ g[j].holder = r
                   /\ g[j].attempt = f[j].attempt + 1
  BY <1>2, <1>3, <1>8
<1>9. CASE \E gone \in SUBSET Jobs :
             /\ \A k \in Jobs \ gone : Alike(f, g, k)
             /\ \A j \in gone :
                  /\ f[j].phase = "claimed" /\ g[j].holder = NoRunner
                  /\ \/ g[j].phase \in JobFailure /\ g[j].attempt = f[j].attempt
                     \/ g[j].phase = "queued" /\ g[j].attempt = f[j].attempt + 1
  BY <1>4, <1>9
<1>10. CASE \E j \in Jobs :
             /\ \/ f[j].phase = "claimed" /\ g[j].phase = "succeeded"
                \/ j \in Frontier(f) /\ g[j].phase = "memoized"
             /\ g[j].holder = NoRunner /\ g[j].attempt = f[j].attempt
             /\ OnlyAt(f, g, j)
  BY <1>5, <1>6, <1>10
<1> QED BY <1>1, <1>7, <1>8, <1>9, <1>10 DEF Verb, Alike, Drops, OnlyAt

\* Storage changes only to what the verb under way leaves.
LEMMA DiskSteps ==
  ASSUME IInv, Coalesced, [Next]_vars PROVE disk' \in {disk, After}
<1>1. CASE UNCHANGED vars
  BY <1>1 DEF vars
<1>2. CASE Commit
  BY <1>2 DEF Commit, After
<1>3. CASE Crash
  <2> DEFINE w == pending.writes
  <2>1. PICK kept \in {0, Len(w)} : disk' = AllWritten(disk, SubSeq(w, 1, kept))
    BY <1>3, Coalesced DEF Crash
  <2>2. w \in Seq(Range(w))
    BY DEF IInv
  <2>3. CASE kept = 0
    <3>1. SubSeq(w, 1, 0) = << >>
      BY <2>2, SubSeqEmpty
    <3> QED BY <2>1, <2>3, <3>1, WriteEmpty
  <2>4. CASE kept = Len(w)
    <3>1. SubSeq(w, 1, Len(w)) = w
      BY <2>2, SubSeqFull
    <3> QED BY <2>1, <2>4, <3>1 DEF After
  <2> QED BY <2>1, <2>3, <2>4
<1>4. ASSUME NEW intents, AppendAll(intents) PROVE disk' = disk
  BY <1>4 DEF AppendAll
<1>5. CASE Load \/ InitRun \/ Cancel
  BY <1>4, <1>5 DEF Load, InitRun, Cancel
<1>6. ASSUME NEW j \in Jobs,
             \/ \E r \in Runners : Claim(j, r)
             \/ Heartbeat(j)
             \/ \E outcome \in {"succeeded", "failed", "timed_out"} : Complete(j, outcome)
      PROVE  disk' = disk
  BY <1>4, <1>6 DEF Claim, Heartbeat, Complete
<1>7. ASSUME NEW gone \in SUBSET Jobs, Sweep(gone) PROVE disk' = disk
  BY <1>4, <1>7 DEF Sweep
<1> QED BY <1>1, <1>2, <1>3, <1>5, <1>6, <1>7 DEF Next

LEMMA LedgerNext ==
  ASSUME IInv, Coalesced, [Next]_vars PROVE [Ledger!Next]_(Ledger!ledger)
<1> DEFINE f == Rebuilt(disk).jobs
           g == Rebuilt(disk)'.jobs
<1>1. IInv'
  BY NextKeeps, StillKeeps
<1>2. Kept(disk) /\ Rebuilt(disk) = Replay(disk) /\ Replay(disk) \in Folds
  BY KeptRebuilt, KeptStream DEF IInv
<1>3. Kept(disk') /\ Rebuilt(disk') = Replay(disk') /\ Replay(disk') \in Folds
  BY <1>1, KeptRebuilt, KeptStream DEF IInv
<1>4. Stepped(f, g)
  BY <1>2, <1>3 DEF Stepped, Folds
<1>5. \A j \in Jobs : f[j].phase # "claimed" => f[j].holder = NoRunner
  BY <1>2 DEF Kept, Sound
<1>6. Verb(f, g)
  <2>1. CASE disk' = disk
    BY <2>1, SameIsVerb
  <2>2. CASE disk' = After
    BY <1>2, <1>3, <2>2 DEF IInv
  <2> QED BY <2>1, <2>2, DiskSteps
<1> HIDE DEF f, g
<1> QED BY <1>4, <1>5, <1>6, VerbSteps

\* The store implements JobLedger with its durable stream for a state: claims,
\* expiries, completions and cancels become durable one ledger step at a time,
\* a restart is no step at all, and no turn is given twice.
THEOREM ImplementsLedger == ASSUME Coalesced PROVE Spec => LedgerSteps
<1>1. IInv /\ [Next]_vars => [Ledger!Next]_(Ledger!ledger)
  BY Coalesced, LedgerNext
<1> QED BY <1>1, Invariance, PTL DEF Spec, LedgerSteps
=============================================================================
