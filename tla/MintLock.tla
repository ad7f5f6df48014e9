------------------------------- MODULE MintLock -------------------------------
(***************************************************************************)
(* The lock of one connection (mint-lock.ts, mint-lock-do.ts) and the      *)
(* sections it serializes.  A mint reads the connection's parent token,    *)
(* spends it at the provider, which hands back a rotated one, and stores   *)
(* that; a revoke of the connection deletes the stored token.  The hourly  *)
(* health check does what a mint does and takes no lock.                   *)
(*                                                                         *)
(* A copy of the parent is "fresh" while the provider would accept it, and *)
(* "stale" once another copy has been spent.                               *)
(***************************************************************************)
EXTENDS Integers, SequencesExt

CONSTANTS
  Mints, Revokes, Checks,  \* requests and health checks, as workers run them
  None,
  Crowds,                  \* bound: who of them there is, and how many faults
  FaultBound               \* bound: deaths, lost calls, restarts, overruns, withdrawals

ASSUME MintLockAssumption ==
  /\ None \notin Mints \cup Revokes \cup Checks
  /\ Mints \cap Revokes = {} /\ Mints \cap Checks = {} /\ Revokes \cap Checks = {}
  /\ FaultBound \in Nat
  /\ Crowds \subseteq [who : SUBSET (Mints \cup Revokes \cup Checks), faults : 0 .. FaultBound]

VARIABLES
  holder, lapsed,   \* the lease in the lock's storage, and whether it is due
  armed,            \* an alarm is set, for no later than the lease's end
  queue,            \* the waiters, in the instance's memory
  pc, seen, token,  \* per request: its place, its copy of the parent, its grant
  custody,          \* provider_credentials: the stored copy
  status, granted,  \* the connection's status; the user's grant at the provider
  slipped,          \* a section was entered or outlived without its turn
  crossed,          \* a health check was open together with a section
  lost,             \* a rotated parent was not stored
  reused,           \* a spent parent was presented
  swept,            \* a revoke has deleted the stored parent
  faults

lock    == << holder, lapsed, armed, queue >>
request == << pc, seen, token >>
conn    == << custody, status, granted >>
ghosts  == << slipped, crossed, lost, reused, swept >>
vars    == << lock, request, conn, ghosts, faults >>

Takers  == Mints \cup Revokes
Procs   == Takers \cup Checks
Section == {"read", "spend", "store", "zeroize"}
Copies  == {"none", "fresh", "stale"}

Inside(place) == { p \in Procs : place[p] \in Section }

Init ==
  /\ holder = None /\ lapsed = FALSE /\ armed = FALSE /\ queue = << >>
  /\ \E crowd \in Crowds :
       /\ pc = [p \in Procs |-> IF p \in crowd.who THEN "idle" ELSE "absent"]
       /\ faults = FaultBound - crowd.faults
  /\ seen = [p \in Procs |-> "none"] /\ token = {}
  /\ custody = "fresh" /\ status = "active" /\ granted = TRUE
  /\ slipped = FALSE /\ crossed = FALSE /\ lost = FALSE /\ reused = FALSE
  /\ swept = FALSE

Entry(p) == IF p \in Revokes THEN "zeroize" ELSE "read"

\* pc moves; a health check that meets another section is remembered.
Place(new) ==
  /\ pc' = new
  /\ crossed' = (crossed \/ \E c \in Inside(new) \cap Checks : Inside(new) # {c})

Goes(p, to) == Place([pc EXCEPT ![p] = to])

Fault == faults < FaultBound /\ faults' = faults + 1

-----------------------------------------------------------------------------
(* The lock.                                                               *)

\* MintLockCore.acquire: a due holder gives way at once, to a newcomer too;
\* otherwise the request parks.
Free == holder = None \/ lapsed

Acquire(p) ==
  IF Free
    THEN /\ holder' = p /\ lapsed' = FALSE /\ armed' = TRUE /\ token' = token \cup {p}
         /\ Goes(p, Entry(p)) /\ UNCHANGED queue
    ELSE /\ queue' = Append(queue, p)
         /\ Goes(p, "parked") /\ UNCHANGED << holder, lapsed, armed, token >>

\* The calls of the waiters throw, and they go on without the lock.
WaitersThrow(place) ==
  /\ queue' = << >>
  /\ Place([p \in Procs |-> IF place[p] = "parked" THEN Entry(p) ELSE place[p]])
  /\ slipped' = (slipped \/ \E p \in Procs : place[p] = "parked")

\* persist of a new lease cut short: the instance dies between the put and
\* setAlarm, or before the reply.  An older alarm may still be pending.
Cut(q, done, known) ==
  /\ Fault
  /\ holder' = q /\ lapsed' = FALSE /\ armed' \in {armed, TRUE} /\ token' = known
  /\ WaitersThrow(done)

Bug_FreesOnly(done, known) ==
  /\ holder' = None /\ lapsed' = FALSE /\ token' = known
  /\ Place(done) /\ UNCHANGED queue

\* The holder is cleared and grantNext serves the first waiter; one that died
\* while it was parked gets a grant nobody hears of.
GrantNext(done, known) ==
  /\ lapsed' = FALSE
  /\ IF queue = << >>
       THEN holder' = None /\ token' = known /\ Place(done) /\ UNCHANGED queue
       ELSE LET p == Head(queue)
            IN  /\ holder' = p /\ queue' = Tail(queue)
                /\ IF pc[p] = "parked"
                     THEN token' = known \cup {p} /\ Place([done EXCEPT ![p] = Entry(p)])
                     ELSE token' = known /\ Place(done)

\* The lease runs out.  A section that is still open then has lost its turn.
Lapse ==
  /\ holder # None /\ ~lapsed
  /\ IF holder \in token /\ pc[holder] \in Section
       THEN Fault /\ slipped' = TRUE
       ELSE UNCHANGED << slipped, faults >>
  /\ lapsed' = TRUE
  /\ UNCHANGED << holder, armed, queue, request, conn, crossed, lost, reused, swept >>

\* The alarm of a due lease; grantNext's persist sets the next one.  A death on
\* the way has the alarm delivered again.
Alarm ==
  /\ holder # None /\ lapsed /\ armed
  /\ \/ GrantNext(pc, token) /\ armed' = (holder' # None) /\ UNCHANGED << slipped, faults >>
     \/ queue # << >> /\ Cut(Head(queue), pc, token)
  /\ UNCHANGED << seen, conn, lost, reused, swept >>

\* The alarm of a lease that was released: there is nobody to clear.
IdleAlarm ==
  /\ holder = None /\ armed /\ armed' = FALSE
  /\ UNCHANGED << holder, lapsed, queue, request, conn, ghosts, faults >>

Bug_RestartForgets ==
  /\ Fault
  /\ holder' = None /\ lapsed' = FALSE
  /\ WaitersThrow(pc)
  /\ UNCHANGED << armed, seen, token, conn, lost, reused, swept >>

\* The instance restarts between two requests: lease and alarm are in storage.
Restart ==
  /\ Fault
  /\ WaitersThrow(pc)
  /\ UNCHANGED << holder, lapsed, armed, seen, token, conn, lost, reused, swept >>

-----------------------------------------------------------------------------
(* Requests.                                                               *)

\* Bound: a request slot is used again when its old place in the queue is gone.
Ask(p) ==
  /\ ~Contains(queue, p)
  /\ \/ Acquire(p) /\ UNCHANGED << slipped, faults >>
     \/ Free /\ Cut(p, [pc EXCEPT ![p] = "parked"], token)
  /\ UNCHANGED << seen, conn, lost, reused, swept >>

StartMint(p) == pc[p] = "idle" /\ status = "active" /\ Ask(p)

\* The call to the lock fails, before or after it granted or while it is
\* parked: the section runs.
Unreachable(p) ==
  /\ \/ pc[p] = "idle" /\ p \in Mints /\ status = "active"
     \/ pc[p] \in {"acquire", "parked"}
  /\ Fault
  /\ \/ UNCHANGED << holder, lapsed, armed >>
     \/ Free /\ pc[p] # "parked" /\ holder' = p /\ lapsed' = FALSE /\ armed' = TRUE
  /\ Goes(p, Entry(p)) /\ slipped' = TRUE
  /\ UNCHANGED << queue, seen, token, conn, lost, reused, swept >>

\* A waiter's budget ends: a mint is refused, a revoke goes on unlocked.
WaitEnds(p) ==
  /\ \E i \in 1 .. Len(queue) : queue[i] = p /\ queue' = RemoveAt(queue, i)
  /\ IF pc[p] # "parked"
       THEN UNCHANGED << pc, crossed, slipped >>
       ELSE /\ Goes(p, IF p \in Revokes THEN "zeroize" ELSE "idle")
            /\ slipped' = (slipped \/ p \in Revokes)
  /\ UNCHANGED << holder, lapsed, armed, seen, token, conn, lost, reused, swept, faults >>

\* readParentCredential.
ReadParent(p) ==
  /\ pc[p] = "read"
  /\ seen' = [seen EXCEPT ![p] = custody]
  /\ Goes(p, IF custody = "none" THEN "leave" ELSE "spend")
  /\ UNCHANGED << lock, token, conn, slipped, lost, reused, swept, faults >>

Bug_SpendSkipsStore(p) ==
  /\ pc[p] = "spend"
  /\ IF granted /\ seen[p] = "fresh"
       THEN /\ seen' = [q \in Procs |-> IF q # p /\ seen[q] = "fresh" THEN "stale" ELSE seen[q]]
            /\ custody' = IF custody = "fresh" THEN "stale" ELSE custody
            /\ UNCHANGED << status, reused >>
       ELSE /\ reused' = (reused \/ seen[p] = "stale")
            /\ status' = IF p \in Checks THEN "suspended" ELSE status
            /\ UNCHANGED << seen, custody >>
  /\ Goes(p, "leave")
  /\ UNCHANGED << lock, token, granted, slipped, lost, swept, faults >>

\* The provider rotates the parent it accepts: every other copy is stale.
Spend(p) ==
  /\ pc[p] = "spend"
  /\ IF granted /\ seen[p] = "fresh"
       THEN /\ seen' = [q \in Procs |-> IF q # p /\ seen[q] = "fresh" THEN "stale" ELSE seen[q]]
            /\ custody' = IF custody = "fresh" THEN "stale" ELSE custody
            /\ Goes(p, "store") /\ UNCHANGED << status, reused >>
       ELSE /\ reused' = (reused \/ seen[p] = "stale")
            /\ status' = IF p \in Checks THEN "suspended" ELSE status
            /\ Goes(p, "leave") /\ UNCHANGED << seen, custody >>
  /\ UNCHANGED << lock, token, granted, slipped, lost, swept, faults >>

\* reEnvelopeParentCredential: an upsert, best effort.
Store(p) ==
  /\ pc[p] = "store"
  /\ \/ custody' = seen[p] /\ UNCHANGED << lost, faults >>
     \/ Fault /\ lost' = TRUE /\ UNCHANGED custody
  /\ Goes(p, "leave")
  /\ UNCHANGED << lock, seen, token, status, granted, slipped, reused, swept >>

\* custodySweep.
Zeroize(p) ==
  /\ pc[p] = "zeroize"
  /\ custody' = "none" /\ swept' = TRUE
  /\ Goes(p, "leave")
  /\ UNCHANGED << lock, seen, token, status, granted, slipped, lost, reused, faults >>

\* Release: only the token of the current turn frees the lock.
Leave(p) ==
  /\ pc[p] = "leave"
  /\ seen' = [seen EXCEPT ![p] = "none"]
  /\ IF holder = p /\ p \in token
       THEN \/ /\ GrantNext([pc EXCEPT ![p] = "idle"], token \ {p})
               /\ armed' = (armed \/ holder' # None)
               /\ UNCHANGED << slipped, faults >>
            \/ queue # << >> /\ Cut(Head(queue), [pc EXCEPT ![p] = "idle"], token \ {p})
       ELSE /\ Goes(p, "idle") /\ token' = token \ {p}
            /\ UNCHANGED << lock, slipped, faults >>
  /\ UNCHANGED << conn, lost, reused, swept >>

\* A worker dies, or its release is lost: the lease is the backstop.
Dies(p) ==
  /\ pc[p] \notin {"absent", "idle"}
  /\ Fault
  /\ lost' = (lost \/ pc[p] = "store")
  /\ seen' = [seen EXCEPT ![p] = "none"] /\ token' = token \ {p}
  /\ Goes(p, "idle")
  /\ UNCHANGED << lock, conn, slipped, reused, swept >>

\* handleRevokeIntegration: the status first, then the lock.
StartRevoke(p) ==
  /\ pc[p] = "idle" /\ status # "revoked"
  /\ status' = "revoked"
  /\ Goes(p, "acquire")
  /\ UNCHANGED << lock, seen, token, custody, granted, slipped, lost, reused, swept, faults >>

AskRevoke(p) == pc[p] = "acquire" /\ Ask(p)

\* runSupabaseHealth: an active connection is probed; no lock.
StartCheck(p) ==
  /\ pc[p] = "idle" /\ status = "active"
  /\ Goes(p, "read")
  /\ UNCHANGED << lock, seen, token, conn, slipped, lost, reused, swept, faults >>

\* The user withdraws the grant at the provider (counted among the faults).
Withdraw ==
  /\ granted /\ granted' = FALSE
  /\ Fault
  /\ UNCHANGED << lock, request, custody, status, ghosts >>

Works(p) == ReadParent(p) \/ Spend(p) \/ Store(p) \/ Zeroize(p) \/ Leave(p)

Next ==
  \/ Lapse \/ Alarm \/ IdleAlarm \/ Restart \/ Withdraw
  \/ \E p \in Mints : StartMint(p)
  \/ \E p \in Revokes : StartRevoke(p) \/ AskRevoke(p)
  \/ \E p \in Checks : StartCheck(p)
  \/ \E p \in Takers : Unreachable(p) \/ WaitEnds(p)
  \/ \E p \in Procs : Works(p) \/ Dies(p)

(* A worker that lives works on, a lease runs out and its alarm fires.     *)
(* Nothing is assumed of the waiters' timers.                              *)
Spec ==
  /\ Init /\ [][Next]_vars
  /\ WF_vars(Lapse) /\ WF_vars(Alarm)
  /\ \A p \in Procs : WF_vars(Works(p))

-----------------------------------------------------------------------------
TypeOK ==
  /\ holder \in Takers \cup {None} /\ lapsed \in BOOLEAN /\ armed \in BOOLEAN
  /\ holder = None => ~lapsed /\ queue = << >>
  /\ queue \in Seq(Takers) /\ IsInjective(queue)
  /\ pc \in [Procs -> {"absent", "idle", "acquire", "parked", "leave"} \cup Section]
  /\ \A p \in Takers : pc[p] = "parked" => Contains(queue, p)
  /\ seen \in [Procs -> Copies] /\ custody \in Copies /\ token \subseteq Takers
  /\ status \in {"active", "suspended", "revoked"} /\ granted \in BOOLEAN
  /\ { slipped, crossed, lost, reused, swept } \subseteq BOOLEAN
  /\ faults \in 0 .. FaultBound

\* Mints and revokes of a connection take turns, through deaths, lost releases
\* and restarts of the lock, as long as none was let in without its turn or
\* outlived its lease.
TurnsAreExclusive == ~slipped => \A p, q \in Inside(pc) \cap Takers : p = q

\* The provider's reuse detection trips only when a section ran outside its turn,
\* a health check met one, or a rotated parent was never stored.
ReuseNeedsASlip == reused => slipped \/ crossed \/ lost

\* After a revoke has deleted the stored parent no mint in flight, and none that
\* was queued, brings it back.
ZeroizedStays == swept /\ ~slipped /\ ~crossed => custody = "none"

\* A newcomer is granted over a due holder while others wait.
Overtakes == lapsed /\ ~lapsed' /\ holder' # None /\ queue # << >> /\ UNCHANGED queue

\* A waiter is served although the holder died, without counting on its own
\* timer: the alarm hands the lock on.  One that waits for ever is one newcomers
\* overtake again and again, or the alarm of the lease it waits for was lost in a
\* persist cut short and nobody has come since.
WaitersAreServed ==
  \A p \in Takers :
    <>[](pc[p] = "parked") =>
      []<><<Overtakes>>_vars \/ <>[](holder # None /\ ~armed)

\* What the health check says when it suspends a connection: that the grant was
\* revoked at the provider.
SuspendedIsWithdrawn == status = "suspended" => ~granted
-----------------------------------------------------------------------------
(* What the properties rest on.                                            *)

\* A section that did not slip has the turn.
TurnsAreHeld ==
  ~slipped => \A p \in Inside(pc) \cap Takers : p = holder /\ p \in token /\ ~lapsed

Clean == ~slipped /\ ~crossed

\* Then there is one section, whose parent is fresh, and a stored copy that is
\* stale is about to be replaced.
OneInside == Clean => \A p, q \in Inside(pc) : p = q

CopiesAreFresh ==
  Clean /\ ~lost =>
    /\ \A p \in Procs : pc[p] \in {"spend", "store"} => seen[p] = "fresh"
    /\ custody = "stale" => \E p \in Procs : pc[p] = "store"

\* After the delete, no section has a copy to store.
NoneInFlight == swept /\ Clean => \A p \in Procs : pc[p] \notin {"spend", "store"}

\* The inductive invariant: it implies the invariants above.
IInv ==
  /\ TypeOK /\ TurnsAreHeld /\ TurnsAreExclusive /\ OneInside
  /\ CopiesAreFresh /\ ReuseNeedsASlip /\ NoneInFlight /\ ZeroizedStays
==============================================================================
