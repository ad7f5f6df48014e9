------------------------- MODULE CredentialLedgerProofs -------------------------
(***************************************************************************)
(* Whatever the tokens, the requests that die and the moments at which the *)
(* sweep reads: the ledger and the provider agree, save where a delete     *)
(* failed or a row came too late to be seen.                               *)
(***************************************************************************)
EXTENDS CredentialLedger, TLAPS

-----------------------------------------------------------------------------
(* What holds of one token.                                                *)

First(m) ==
  /\ mint[m] \in {"none", "asked"} => token[m] = "none"
  /\ mint[m] = "made" => token[m] # "none"
  /\ mint[m] \in {"none", "asked", "made"} => row[m] = "none"
  /\ row[m] # "none" \/ m \in seen \cup live \cup todo \cup {victim} => token[m] # "none"
  /\ m \in live \/ (phase = "close" /\ m \in todo) => row[m] # "none"
  /\ kill[m] # "idle" \/ mint[m] \in {"ledgered", "spoiled", "revealed"} => row[m] # "none"

\* While nothing went wrong for it.
Dead(m) ==
  m \notin met \cup spared \cup misread =>
    /\ kill[m] = "mark" \/ mint[m] = "spoiled" => token[m] # "live"
    /\ row[m] \in {"revoked", "expired", "orphaned"} /\ m \notin beyond => token[m] # "live"
    /\ mint[m] \in {"ledgered", "revealed"} /\ row[m] = "pending" /\ kill[m] = "idle" =>
         token[m] \in {"live", "expired"}

Swept(m) ==
  /\ m \notin met /\ phase = "match" /\ m \in shared \cap todo => row[m] # "pending"
  /\ m \notin met \cup misread /\ victim = m => row[m] # "pending"
  /\ m \notin met \cup misread \cup beyond =>
       /\ phase = "listed" /\ m \notin seen /\ row[m] # "none" => token[m] # "live"
       /\ phase \in {"match", "close"} /\ m \in live \ seen => token[m] # "live"
       /\ phase = "close" /\ m \in todo => m \in live \ seen

Reached(m) ==
  /\ fanned = TRUE => connected = FALSE /\ (mint[m] \in {"asked", "made"} => m \in spared)
  /\ fanned = TRUE /\ unlisted = FALSE /\ m \notin met \cup spared \cup misread \cup beyond =>
       (token[m] = "live" /\ row[m] # "none" =>
          parent = TRUE /\ row[m] = "pending" /\ kill[m] = "delete")

Good(m) == First(m) /\ Dead(m) /\ Swept(m) /\ Reached(m)

\* Between requests, whatever the tokens: a disconnected connection stays so.
Fan == fanned = TRUE => connected = FALSE

LEMMA InvIsGood == IInv <=> TypeOK /\ Fan /\ \A m \in Tokens : Good(m)
<1>1. ASSUME IInv PROVE TypeOK /\ Fan /\ \A m \in Tokens : Good(m)
  <2>1. TypeOK
    BY <1>1 DEF IInv
  <2>2. Fan
    BY <1>1 DEF IInv, FanOutReaches, Fan, TypeOK
  <2>3. \A m \in Tokens : First(m)
    BY <1>1 DEF IInv, TokenFirst, First
  <2>4. \A m \in Tokens : Dead(m)
    BY <1>1 DEF IInv, DeletedFirst, HeldIsAlive, Sound, Dead
  <2>5. \A m \in Tokens : Swept(m)
    BY <1>1 DEF IInv, SweepIsRight, Swept
  <2>6. ASSUME NEW m \in Tokens PROVE Reached(m)
    <3>1. CASE fanned = FALSE
      BY <3>1 DEF Reached
    <3>2. CASE fanned = TRUE
      <4>1. connected = FALSE /\ (mint[m] \in {"asked", "made"} => m \in spared)
        BY <1>1, <3>2 DEF IInv, FanOutReaches, TypeOK
      <4>2. ASSUME unlisted = FALSE, m \notin met \cup spared \cup misread \cup beyond,
                   token[m] = "live", row[m] # "none"
            PROVE  parent = TRUE /\ row[m] = "pending" /\ kill[m] = "delete"
        <5>1. row[m] \in {"none", "pending", "revoked", "expired", "orphaned"}
          BY <2>1 DEF TypeOK, Rows
        <5>2. row[m] = "pending"
          BY <2>4, <4>2, <5>1 DEF Dead
        <5>3. parent = TRUE
          BY <1>1, <2>1, <4>2 DEF IInv, NothingOutlivesRevoke, Living, TypeOK
        <5>4. kill[m] = "delete"
          BY <1>1, <3>2, <4>2, <5>2, <5>3 DEF IInv, FanOutReaches, Sound
        <5> QED BY <5>2, <5>3, <5>4
      <4> QED BY <4>1, <4>2 DEF Reached
    <3> QED BY <2>1, <3>1, <3>2 DEF TypeOK
  <2> QED BY <2>1, <2>2, <2>3, <2>4, <2>5, <2>6 DEF Good
<1>2. ASSUME TypeOK, Fan, \A m \in Tokens : Good(m) PROVE IInv
  <2>1. TokenFirst
    BY <1>2 DEF TokenFirst, Good, First
  <2>2. DeletedFirst /\ HeldIsAlive /\ ClosedIsDead
    BY <1>2 DEF DeletedFirst, HeldIsAlive, ClosedIsDead, Sound, Good, Dead
  <2>3. SweepIsRight
    BY <1>2 DEF SweepIsRight, Good, Swept
  <2>4. FanOutReaches
    BY <1>2 DEF FanOutReaches, Sound, Good, Reached, Fan, TypeOK
  <2>5. NothingOutlivesRevoke
    BY <1>2 DEF NothingOutlivesRevoke, Living, Good, Reached, TypeOK
  <2> QED BY <1>2, <2>1, <2>2, <2>3, <2>4, <2>5 DEF IInv
<1> QED BY <1>1, <1>2

-----------------------------------------------------------------------------
(* Steps.                                                                  *)

\* A delete at the provider: the token is gone, or it is remembered as spared.
Deletes(m) ==
  /\ token' \in [Tokens -> {"none", "live", "gone", "expired"}]
  /\ faults' \in 0 .. FaultBound /\ spared' \in {spared, spared \cup {m}}
  /\ \A k \in Tokens : k # m => token'[k] = token[k]
  /\ token'[m] = "gone" \/ (token' = token /\ m \in spared')

LEMMA DeleteEffect ==
  ASSUME TypeOK, NEW m \in Tokens, Delete(m, TRUE) \/ Delete(m, parent)
  PROVE  Deletes(m)
BY LedgerAssumption DEF Delete, Fault, TypeOK, Deletes

LEMMA DeleteSteps ==
  ASSUME TypeOK, NEW m \in Tokens
  PROVE  /\ Refuse(m) \/ RevokeToken(m) => Deletes(m)
         /\ Unusable(m) => Deletes(m) \/ UNCHANGED << token, spared, faults >>
         /\ RevokeOrphan /\ victim = m => Deletes(m)
<1>1. Delete(m, TRUE) => Deletes(m)
  BY DeleteEffect, Zenon
<1>2. Delete(m, parent) => Deletes(m)
  BY DeleteEffect, Zenon
<1>3. Refuse(m) => Delete(m, TRUE)
  BY Zenon DEF Refuse
<1>4. RevokeToken(m) => Delete(m, parent)
  BY Zenon DEF RevokeToken
<1>5. Unusable(m) => Delete(m, parent) \/ UNCHANGED << token, spared, faults >>
  BY DEF Unusable, provider, ghosts
<1>6. RevokeOrphan /\ victim = m => Delete(m, TRUE)
  BY Zenon DEF RevokeOrphan
<1> QED BY <1>1, <1>2, <1>3, <1>4, <1>5, <1>6, Zenon

LEMMA Faults == ASSUME TypeOK, Fault PROVE faults' \in 0 .. FaultBound
BY LedgerAssumption DEF Fault, TypeOK

\* Each request changes its own token's state only.
LEMMA MintTypes ==
  ASSUME TypeOK, NEW m \in Tokens,
         Ask(m) \/ Create(m) \/ Insert(m) \/ InsertFails(m) \/ Refuse(m) \/ Reveal(m)
           \/ Unusable(m) \/ MintDies(m)
  PROVE  TypeOK'
<1>1. CASE Ask(m) \/ Create(m) \/ Insert(m) \/ Reveal(m)
  BY <1>1 DEF TypeOK, Ask, Create, Insert, Reveal, Mark, Rows, provider, sweep, ghosts
<1>2. CASE InsertFails(m) \/ MintDies(m)
  BY <1>2, Faults DEF TypeOK, InsertFails, MintDies, Mark, Rows, provider, sweep, ghosts
<1>3. CASE Refuse(m)
  <2>1. Deletes(m) /\ mint' = [mint EXCEPT ![m] = "over"]
        /\ UNCHANGED << shared, beyond, parent, row, kill, connected, fanned, sweep, met, misread, unlisted >>
    BY <1>3, DeleteSteps DEF Refuse
  <2> QED BY <2>1 DEF TypeOK, Deletes, sweep
<1>4. CASE Unusable(m) /\ Deletes(m)
  <2>1. /\ mint' \in {[mint EXCEPT ![m] = "spoiled"], [mint EXCEPT ![m] = "over"]}
        /\ row' \in {row, [row EXCEPT ![m] = "orphaned"]}
        /\ UNCHANGED << shared, beyond, parent, kill, connected, fanned, sweep, met, misread, unlisted >>
    BY <1>4 DEF Unusable, Mark, provider, ghosts
  <2> QED BY <1>4, <2>1 DEF TypeOK, Rows, Deletes, sweep
<1>5. CASE Unusable(m) /\ UNCHANGED << token, spared, faults >>
  <2>1. /\ mint' \in {[mint EXCEPT ![m] = "spoiled"], [mint EXCEPT ![m] = "over"]}
        /\ row' \in {row, [row EXCEPT ![m] = "orphaned"]}
        /\ UNCHANGED << shared, beyond, parent, kill, connected, fanned, sweep, met, misread, unlisted >>
    BY <1>5 DEF Unusable, Mark, provider, ghosts
  <2> QED BY <1>5, <2>1 DEF TypeOK, Rows, sweep
<1> QED BY <1>1, <1>2, <1>3, <1>4, <1>5, DeleteSteps

LEMMA RevokeTypes ==
  ASSUME TypeOK, NEW m \in Tokens,
         RevokeAsked(m) \/ RevokeToken(m) \/ RevokeRow(m) \/ RevokeDies(m) \/ Expire(m)
  PROVE  TypeOK'
<1>1. CASE RevokeAsked(m) \/ RevokeRow(m) \/ Expire(m)
  BY <1>1 DEF TypeOK, RevokeAsked, RevokeRow, Expire, Mark, Rows, provider, sweep, ghosts
<1>2. CASE RevokeDies(m)
  BY <1>2, Faults DEF TypeOK, RevokeDies, provider, sweep, ghosts
<1>3. CASE RevokeToken(m)
  <2>1. Deletes(m) /\ kill' = [kill EXCEPT ![m] = "mark"]
        /\ UNCHANGED << shared, beyond, parent, row, mint, connected, fanned, sweep, met, misread, unlisted >>
    BY <1>3, DeleteSteps DEF RevokeToken
  <2> QED BY <2>1 DEF TypeOK, Deletes, sweep
<1> QED BY <1>1, <1>2, <1>3

LEMMA ConnectionTypes ==
  ASSUME TypeOK, Disconnect \/ FanOut \/ Zeroize \/ ExpirySweep
  PROVE  TypeOK'
<1>1. CASE Disconnect
  BY <1>1 DEF TypeOK, Disconnect, provider, sweep, ghosts
<1>2. CASE FanOut
  BY <1>2, Faults DEF TypeOK, FanOut, provider, sweep
<1>3. CASE Zeroize
  BY <1>3 DEF TypeOK, Zeroize, sweep, ghosts
<1>4. CASE ExpirySweep
  BY <1>4 DEF TypeOK, ExpirySweep, Rows, provider, sweep, ghosts
<1> QED BY <1>1, <1>2, <1>3, <1>4

LEMMA SweepTypes == ASSUME TypeOK, Sweeps PROVE TypeOK'
<1>1. CASE StartSweep \/ EndList
  BY <1>1 DEF TypeOK, StartSweep, EndList, Living, provider, ghosts
<1>2. CASE ListLive
  BY <1>2 DEF TypeOK, ListLive, Pending, provider, ghosts
<1>3. CASE StartClosing
  BY <1>3 DEF TypeOK, StartClosing, provider, ghosts
<1>7. CASE EndSweep
  BY <1>7 DEF TypeOK, EndSweep, provider, ghosts
<1>8. CASE SweepDies
  BY <1>8, Faults DEF TypeOK, SweepDies, provider, ghosts
<1>4. CASE RevokeOrphan
  <2>1. victim \in Tokens \cup {Nothing} /\ victim # Nothing
    BY <1>4 DEF RevokeOrphan, TypeOK
  <2>2. victim \in Tokens
    BY <2>1
  <2>3. Deletes(victim) /\ victim' = Nothing
        /\ UNCHANGED << shared, beyond, parent, row, mint, kill, connected, fanned, phase, seen, live,
                        todo, met, misread, unlisted >>
    BY <1>4, <2>2, DeleteSteps DEF RevokeOrphan
  <2> QED BY <2>2, <2>3 DEF TypeOK, Deletes
<1>5. ASSUME NEW m \in Tokens, Match(m) PROVE TypeOK'
  BY <1>5, Faults DEF TypeOK, Match, matched, provider
<1>6. ASSUME NEW m \in Tokens, CloseRow(m) PROVE TypeOK'
  BY <1>6, Faults DEF TypeOK, CloseRow, Mark, Rows, provider, ghosts
<1>9. ASSUME NEW m \in Tokens, ReadToken(m) \/ PageShifts(m) PROVE TypeOK'
  BY <1>9, Faults DEF TypeOK, ReadToken, PageShifts, Living, provider, ghosts
<1> QED BY <1>1, <1>2, <1>3, <1>4, <1>5, <1>6, <1>7, <1>8, <1>9 DEF Sweeps, SweepGoes

\* What the steps below need of TypeOK.
LEMMA Functions ==
  ASSUME TypeOK
  PROVE  /\ token = [m \in Tokens |-> token[m]] /\ row = [m \in Tokens |-> row[m]]
         /\ mint = [m \in Tokens |-> mint[m]] /\ kill = [m \in Tokens |-> kill[m]]
         /\ parent \in BOOLEAN /\ fanned \in BOOLEAN /\ connected \in BOOLEAN /\ unlisted \in BOOLEAN
         /\ \A m \in Tokens : row[m] \in Rows
BY DEF TypeOK

LEMMA MintGood ==
  ASSUME TypeOK, NEW k \in Tokens, Good(k), Fan, NEW m \in Tokens,
         Ask(m) \/ Create(m) \/ Insert(m) \/ InsertFails(m) \/ Refuse(m) \/ Reveal(m)
           \/ Unusable(m) \/ MintDies(m)
  PROVE  Good(k)'
<1> USE DEF Good, First, Dead, Swept, Reached, Fan, provider, sweep, ghosts
<1> USE Functions
<1>1. CASE Ask(m)
  BY <1>1 DEF Ask
<1>2. CASE Create(m)
  BY <1>2 DEF Create
<1>3. CASE Insert(m)
  <2>1. CASE k = m
    BY <1>3, <2>1 DEF Insert, Mark, Caught
  <2>2. CASE k # m
    BY <1>3, <2>2 DEF Insert, Mark
  <2> QED BY <2>1, <2>2
<1>4. CASE InsertFails(m)
  <2>1. CASE k = m
    BY <1>4, <2>1 DEF InsertFails, Mark, Caught
  <2>2. CASE k # m
    BY <1>4, <2>2 DEF InsertFails, Mark
  <2> QED BY <2>1, <2>2
<1>5. CASE Refuse(m)
  <2>1. Deletes(m) /\ mint[m] = "refuse" /\ mint' = [mint EXCEPT ![m] = "over"]
        /\ UNCHANGED << shared, beyond, parent, row, kill, connected, fanned, sweep, met, misread, unlisted >>
    BY <1>5, DeleteSteps DEF Refuse
  <2> QED BY <2>1 DEF Deletes
<1>6. CASE Reveal(m)
  BY <1>6 DEF Reveal
<1>7. CASE Unusable(m) /\ mint[m] = "ledgered"
  <2>1. Deletes(m) /\ mint' = [mint EXCEPT ![m] = "spoiled"]
        /\ UNCHANGED << shared, beyond, parent, row, kill, connected, fanned, sweep, met, misread, unlisted >>
    <3>1. Delete(m, parent) => Deletes(m)
      BY DeleteEffect, Zenon
    <3> QED BY <1>7, <3>1 DEF Unusable
  <2> QED BY <1>7, <2>1 DEF Deletes
<1>9. CASE Unusable(m) /\ mint[m] = "spoiled"
  BY <1>9 DEF Unusable, Mark
<1>8. CASE MintDies(m)
  BY <1>8 DEF MintDies
<1> QED BY <1>1, <1>2, <1>3, <1>4, <1>5, <1>6, <1>7, <1>8, <1>9 DEF Unusable

LEMMA RevokeGood ==
  ASSUME TypeOK, NEW k \in Tokens, Good(k), Fan, NEW m \in Tokens,
         RevokeAsked(m) \/ RevokeToken(m) \/ RevokeRow(m) \/ RevokeDies(m) \/ Expire(m)
  PROVE  Good(k)'
<1> USE DEF Good, First, Dead, Swept, Reached, Fan, provider, sweep, ghosts
<1> USE Functions
<1>1. CASE RevokeAsked(m)
  BY <1>1 DEF RevokeAsked
<1>2. CASE RevokeToken(m)
  <2>1. Deletes(m) /\ kill[m] = "delete" /\ kill' = [kill EXCEPT ![m] = "mark"]
        /\ UNCHANGED << shared, beyond, parent, row, mint, connected, fanned, sweep, met, misread, unlisted >>
    BY <1>2, DeleteSteps DEF RevokeToken
  <2> QED BY <2>1 DEF Deletes
<1>3. CASE RevokeRow(m)
  BY <1>3 DEF RevokeRow, Mark
<1>4. CASE RevokeDies(m)
  BY <1>4 DEF RevokeDies
<1>5. CASE Expire(m)
  BY <1>5 DEF Expire
<1> QED BY <1>1, <1>2, <1>3, <1>4, <1>5

LEMMA ConnectionGood ==
  ASSUME TypeOK, NEW k \in Tokens, Good(k), Fan, Disconnect \/ FanOut \/ Zeroize \/ ExpirySweep
  PROVE  Good(k)'
<1> USE DEF Good, First, Dead, Swept, Reached, Fan, provider, sweep, ghosts
<1> USE Functions
<1>1. CASE Disconnect
  BY <1>1 DEF Disconnect
<1>2. CASE FanOut
  BY <1>2 DEF FanOut, Pending, TypeOK, Rows
<1>3. CASE Zeroize
  BY <1>3 DEF Zeroize
<1>4. CASE ExpirySweep
  BY <1>4 DEF ExpirySweep, Pending
<1> QED BY <1>1, <1>2, <1>3, <1>4

LEMMA SweepGood ==
  ASSUME TypeOK, NEW k \in Tokens, Good(k), Fan, Sweeps
  PROVE  Good(k)'
<1> USE DEF Good, First, Dead, Swept, Reached, Fan, provider, ghosts, matched
<1> USE Functions
<1>0. k # Nothing
  BY LedgerAssumption
<1>1. CASE StartSweep \/ EndList
  BY <1>1, <1>0 DEF StartSweep, EndList, Living, TypeOK
<1>2. CASE ListLive
  BY <1>2, <1>0 DEF ListLive, Pending, TypeOK
<1>3. CASE StartClosing
  BY <1>3, <1>0 DEF StartClosing
<1>4. CASE EndSweep
  BY <1>4, <1>0 DEF EndSweep
<1>5. CASE RevokeOrphan
  <2>1. victim \in Tokens \cup {Nothing} /\ victim # Nothing
    BY <1>5 DEF RevokeOrphan, TypeOK
  <2>2. Deletes(victim) /\ victim' = Nothing /\ victim \in Tokens
        /\ UNCHANGED << shared, beyond, parent, row, mint, kill, connected, fanned, phase, seen, live,
                        todo, met, misread, unlisted >>
    BY <1>5, <2>1, DeleteSteps DEF RevokeOrphan
  <2> QED BY <1>0, <2>2 DEF Deletes
<1>8. CASE SweepDies
  BY <1>8, <1>0 DEF SweepDies
<1>9. ASSUME NEW m \in Tokens, ReadToken(m) \/ PageShifts(m) PROVE Good(k)'
  BY <1>0, <1>9 DEF ReadToken, PageShifts, Living
<1>6. ASSUME NEW m \in Tokens, Match(m) PROVE Good(k)'
  BY <1>0, <1>6 DEF Match, Pending
<1>7. ASSUME NEW m \in Tokens, CloseRow(m) PROVE Good(k)'
  <2>1. CASE k = m
    BY <1>7, <2>1 DEF CloseRow, Mark
  <2>2. CASE k # m
    BY <1>7, <2>2 DEF CloseRow, Mark
  <2> QED BY <2>1, <2>2
<1> QED BY <1>1, <1>2, <1>3, <1>4, <1>5, <1>6, <1>7, <1>8, <1>9 DEF Sweeps, SweepGoes

-----------------------------------------------------------------------------
(* The theorems.                                                           *)

LEMMA FanStays == ASSUME TypeOK, Fan, [Next]_vars PROVE Fan'
<1>1. ASSUME NEW m \in Tokens,
             Ask(m) \/ Minting(m) \/ InsertFails(m) \/ MintDies(m)
               \/ RevokeAsked(m) \/ Revoking(m) \/ RevokeDies(m) \/ Expire(m)
      PROVE  UNCHANGED << connected, fanned >>
  BY <1>1 DEF Ask, Minting, Create, Insert, Refuse, Reveal, Unusable, InsertFails, MintDies,
              RevokeAsked, Revoking, RevokeToken, RevokeRow, RevokeDies, Expire
<1>2. Zeroize \/ ExpirySweep \/ Sweeps => UNCHANGED << connected, fanned >>
  BY DEF Zeroize, ExpirySweep, Sweeps, SweepGoes, StartSweep, ReadToken, PageShifts, EndList,
         ListLive, Match, matched, RevokeOrphan, StartClosing, CloseRow, EndSweep, SweepDies
<1>3. Disconnect => fanned' = fanned /\ connected' = FALSE
  BY DEF Disconnect
<1>4. FanOut => connected = FALSE /\ connected' = connected
  BY Functions DEF FanOut
<1> QED BY <1>1, <1>2, <1>3, <1>4 DEF Next, vars, Fan

LEMMA InitInv == Init => IInv
<1> SUFFICES ASSUME Init PROVE TypeOK /\ Fan /\ \A m \in Tokens : Good(m)
  BY InvIsGood
<1>1. TypeOK
  <2>1. token \in [Tokens -> {"none"}] /\ row \in [Tokens -> {"none"}]
        /\ mint \in [Tokens -> {"none"}] /\ kill \in [Tokens -> {"idle"}]
    BY DEF Init
  <2>2. connected \in BOOLEAN /\ parent \in BOOLEAN /\ fanned \in BOOLEAN /\ (parent \/ fanned)
    BY DEF Init
  <2>3. faults \in 0 .. FaultBound
    BY LedgerAssumption DEF Init
  <2> QED BY <2>1, <2>2, <2>3 DEF Init, TypeOK, Rows
<1>2. Fan
  BY DEF Init, Fan
<1>3. \A m \in Tokens : Good(m)
  BY LedgerAssumption DEF Init, Good, First, Dead, Swept, Reached
<1> QED BY <1>1, <1>2, <1>3

LEMMA StepInv == ASSUME IInv, [Next]_vars PROVE IInv'
<1>1. TypeOK /\ Fan /\ \A m \in Tokens : Good(m)
  BY InvIsGood
<1>2. TypeOK' /\ \A k \in Tokens : Good(k)'
  <2>1. ASSUME NEW m \in Tokens,
               Ask(m) \/ Minting(m) \/ InsertFails(m) \/ MintDies(m)
        PROVE  TypeOK' /\ \A k \in Tokens : Good(k)'
    BY <1>1, <2>1, MintTypes, MintGood DEF Minting
  <2>2. ASSUME NEW m \in Tokens,
               RevokeAsked(m) \/ Revoking(m) \/ RevokeDies(m) \/ Expire(m)
        PROVE  TypeOK' /\ \A k \in Tokens : Good(k)'
    BY <1>1, <2>2, RevokeTypes, RevokeGood DEF Revoking
  <2>3. CASE Disconnect \/ FanOut \/ Zeroize \/ ExpirySweep
    BY <1>1, <2>3, ConnectionTypes, ConnectionGood
  <2>4. CASE Sweeps
    BY <1>1, <2>4, SweepTypes, SweepGood
  <2>5. CASE UNCHANGED vars
    <3>1. TypeOK'
      BY <1>1, <2>5, Zenon DEF vars, provider, sweep, ghosts, TypeOK
    <3>2. \A k \in Tokens : Good(k)'
      BY <1>1, <2>5 DEF vars, provider, sweep, ghosts, Good, First, Dead, Swept, Reached
    <3> QED BY <3>1, <3>2
  <2> QED BY <2>1, <2>2, <2>3, <2>4, <2>5 DEF Next
<1>3. (TypeOK /\ Fan /\ \A m \in Tokens : Good(m))'
  BY <1>1, <1>2, FanStays
<1> QED BY <1>3, InvIsGood, PTL

\* The ledger, the provider, the sweep and the revokes stay related as IInv says.
THEOREM Invariance == Spec => []IInv
<1>1. Init => IInv
  BY InitInv
<1>2. IInv /\ [Next]_vars => IInv'
  BY StepInv
<1> QED BY <1>1, <1>2, PTL DEF Spec

\* runOrphanSweep: what it reads, in the order it reads it, condemns no credential
\* that somebody holds.
THEOREM SweepSpares == Spec => []HeldIsAlive
<1>1. IInv => HeldIsAlive
  BY DEF IInv
<1> QED BY <1>1, Invariance, PTL

\* A closed row's token is dead, save where a delete failed or a row came late.
THEOREM ClosedAreDead == Spec => []ClosedIsDead
<1>1. IInv => ClosedIsDead
  BY DEF IInv
<1> QED BY <1>1, Invariance, PTL

\* handleRevokeIntegration: the fan-out before the parent is deleted reaches every
\* live token that has a row.
THEOREM RevokeReaches == Spec => []NothingOutlivesRevoke
<1>1. IInv => NothingOutlivesRevoke
  BY DEF IInv
<1> QED BY <1>1, Invariance, PTL
==============================================================================
