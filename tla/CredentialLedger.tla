--------------------------- MODULE CredentialLedger ---------------------------
(***************************************************************************)
(* The ledger of minted credentials of one connection: a mint creates a    *)
(* token at the provider and then a row; revokes delete the one and close  *)
(* the other; the daily orphan sweep reads both sides, one after the other,*)
(* and reconciles them while all the rest goes on.                         *)
(*                                                                         *)
(* The parent is one that was pasted: its deletion does not delete tokens. *)
(***************************************************************************)
EXTENDS Integers, FiniteSets

CONSTANTS
  Tokens,       \* mint ids; a provider token carries its mint id in its name
  Nothing,
  FaultBound    \* bound: dead workers and sweeps, failed reads, writes and deletes

ASSUME LedgerAssumption ==
  Nothing \notin Tokens /\ FaultBound \in Nat

VARIABLES
  shared,                    \* mints asked by another org than the connection's
  beyond,                    \* tokens past the tenth page of the provider's list
  token, row,                \* at the provider; in minted_credentials
  mint, kill,                \* the request that mints it; the one that revokes it
  connected, parent,         \* the connection is active; custody has its parent
  fanned,                    \* the revoke of the connection has listed its mints
  phase, seen, live, todo, victim,   \* the sweep and what it has read
  met,     \* ghost: its row came while a sweep could no longer see it
  spared,  \* ghost: a delete failed, or the fan-out came too early for it
  misread,    \* ghost: a page passed it over, or its row could not be read again
  unlisted,   \* ghost: the fan-out could not list the mints
  faults

provider == << token, parent, shared, beyond >>
sweep    == << phase, seen, live, todo, victim >>
ghosts   == << met, spared, misread, unlisted >>
vars     == << provider, row, mint, kill, connected, fanned, sweep, ghosts, faults >>

Init ==
  /\ shared \in SUBSET Tokens /\ beyond \in SUBSET Tokens
  /\ token = [m \in Tokens |-> "none"] /\ row = [m \in Tokens |-> "none"]
  /\ mint = [m \in Tokens |-> "none"] /\ kill = [m \in Tokens |-> "idle"]
  /\ connected = TRUE /\ parent = TRUE /\ fanned = FALSE
  /\ phase = "idle" /\ seen = {} /\ live = {} /\ todo = {} /\ victim = Nothing
  /\ met = {} /\ spared = {} /\ misread = {} /\ unlisted = FALSE /\ faults = 0

Pending == { m \in Tokens : row[m] = "pending" }
Living  == { m \in Tokens : token[m] = "live" }

Fault == faults < FaultBound /\ faults' = faults + 1

Mark(m, to) == row' = [row EXCEPT ![m] = to]

\* broker.revokeCredential: false without a parent, or when the call fails.
Delete(m, bearer) ==
  \/ /\ bearer
     /\ token' = [token EXCEPT ![m] = "gone"]
     /\ UNCHANGED << spared, faults >>
  \/ /\ IF bearer THEN Fault ELSE UNCHANGED faults
     /\ spared' = spared \cup {m}
     /\ UNCHANGED token

-----------------------------------------------------------------------------
(* A mint.                                                                 *)

Ask(m) ==
  /\ mint[m] = "none" /\ connected
  /\ mint' = [mint EXCEPT ![m] = "asked"]
  /\ UNCHANGED << provider, row, kill, connected, fanned, sweep, ghosts, faults >>

\* broker.mintCredential; without a parent the request fails.
Create(m) ==
  /\ mint[m] = "asked"
  /\ IF parent
       THEN /\ token' = [token EXCEPT ![m] = "live"]
            /\ mint' = [mint EXCEPT ![m] = "made"]
       ELSE mint' = [mint EXCEPT ![m] = "over"] /\ UNCHANGED token
  /\ UNCHANGED << shared, beyond, parent, row, kill, connected, fanned, sweep, ghosts, faults >>

\* A row that comes after the sweep has listed the tokens without this one, or
\* has looked for the row.
Caught(m) ==
  \/ phase = "listed" /\ m \notin seen \cup beyond
  \/ victim = m \/ token[m] # "live"
  \/ m \in shared \cap todo

\* insertMintedCredential, before the value is revealed.
Insert(m) ==
  /\ mint[m] = "made"
  /\ Mark(m, "pending")
  /\ mint' = [mint EXCEPT ![m] = "ledgered"]
  /\ met' = IF Caught(m) THEN met \cup {m} ELSE met
  /\ UNCHANGED << provider, kill, connected, fanned, sweep, spared, misread, unlisted, faults >>

\* The insert fails, or is committed and reported as failed.
InsertFails(m) ==
  /\ mint[m] = "made"
  /\ Fault
  /\ \/ Mark(m, "pending") /\ met' = IF Caught(m) THEN met \cup {m} ELSE met
     \/ UNCHANGED << row, met >>
  /\ mint' = [mint EXCEPT ![m] = "refuse"]
  /\ UNCHANGED << provider, kill, connected, fanned, sweep, spared, misread, unlisted >>

\* ... and the token is deleted, best effort.
Refuse(m) ==
  /\ mint[m] = "refuse"
  /\ Delete(m, TRUE)
  /\ mint' = [mint EXCEPT ![m] = "over"]
  /\ UNCHANGED << shared, beyond, parent, row, kill, connected, fanned, sweep, met, misread, unlisted >>

Reveal(m) ==
  /\ mint[m] = "ledgered"
  /\ mint' = [mint EXCEPT ![m] = "revealed"]
  /\ UNCHANGED << provider, row, kill, connected, fanned, sweep, ghosts, faults >>

\* The internal mint got a credential of several values: deleted and orphaned.
Unusable(m) ==
  \/ /\ mint[m] = "ledgered"
     /\ Delete(m, parent)
     /\ mint' = [mint EXCEPT ![m] = "spoiled"]
     /\ UNCHANGED << shared, beyond, parent, row, kill, connected, fanned, sweep, met, misread, unlisted >>
  \/ /\ mint[m] = "spoiled"
     /\ Mark(m, "orphaned")
     /\ mint' = [mint EXCEPT ![m] = "over"]
     /\ UNCHANGED << provider, kill, connected, fanned, sweep, ghosts, faults >>

MintDies(m) ==
  /\ mint[m] \in {"asked", "made", "ledgered", "refuse", "spoiled"}
  /\ Fault
  /\ mint' = [mint EXCEPT ![m] = "over"]
  /\ UNCHANGED << provider, row, kill, connected, fanned, sweep, ghosts >>

-----------------------------------------------------------------------------
(* Revokes.                                                                *)

\* handleRevokeMintedCredential, or the connection's fan-out: the token, ...
RevokeAsked(m) ==
  /\ kill[m] = "idle" /\ row[m] \notin {"none", "revoked"}
  /\ kill' = [kill EXCEPT ![m] = "delete"]
  /\ UNCHANGED << provider, row, mint, connected, fanned, sweep, ghosts, faults >>

Bug_RevokeRowOnly(m) ==
  /\ kill[m] = "delete"
  /\ kill' = [kill EXCEPT ![m] = "mark"]
  /\ UNCHANGED << provider, row, mint, connected, fanned, sweep, ghosts, faults >>

RevokeToken(m) ==
  /\ kill[m] = "delete"
  /\ Delete(m, parent)
  /\ kill' = [kill EXCEPT ![m] = "mark"]
  /\ UNCHANGED << shared, beyond, parent, row, mint, connected, fanned, sweep, met, misread, unlisted >>

\* ... then the row, whether or not the token could be deleted.
RevokeRow(m) ==
  /\ kill[m] = "mark"
  /\ Mark(m, "revoked")
  /\ kill' = [kill EXCEPT ![m] = "idle"]
  /\ UNCHANGED << provider, mint, connected, fanned, sweep, ghosts, faults >>

RevokeDies(m) ==
  /\ kill[m] # "idle"
  /\ Fault
  /\ kill' = [kill EXCEPT ![m] = "idle"] /\ spared' = spared \cup {m}
  /\ UNCHANGED << provider, row, mint, connected, fanned, sweep, met, misread, unlisted >>

Disconnect ==
  /\ connected /\ connected' = FALSE
  /\ UNCHANGED << provider, row, mint, kill, fanned, sweep, ghosts, faults >>

\* revokeLiveMintsForConnection lists the pending rows and revokes each; when it
\* cannot list them, none.
FanOut ==
  /\ ~connected /\ ~fanned /\ fanned' = TRUE
  /\ \/ /\ kill' = [m \in Tokens |->
                      IF m \in Pending /\ kill[m] = "idle" THEN "delete" ELSE kill[m]]
        /\ UNCHANGED << unlisted, faults >>
     \/ Fault /\ unlisted' = TRUE /\ UNCHANGED kill
  /\ spared' = spared \cup { m \in Tokens : mint[m] \in {"asked", "made"} }
  /\ UNCHANGED << provider, row, mint, connected, sweep, met, misread >>

Bug_ZeroizeEarly ==
  /\ ~connected /\ parent
  /\ parent' = FALSE
  /\ UNCHANGED << shared, beyond, token, row, mint, kill, connected, fanned, sweep, ghosts, faults >>

Zeroize ==
  /\ fanned /\ parent /\ \A m \in Tokens : kill[m] = "idle"
  /\ parent' = FALSE
  /\ UNCHANGED << shared, beyond, token, row, mint, kill, connected, fanned, sweep, ghosts, faults >>

-----------------------------------------------------------------------------
(* Time and the sweeps.                                                    *)

\* The provider drops a token at its expiry, and the expiry sweep closes the row.
Expire(m) ==
  /\ token[m] = "live" /\ mint[m] \in {"revealed", "over"}
  /\ token' = [token EXCEPT ![m] = "expired"]
  /\ UNCHANGED << shared, beyond, parent, row, mint, kill, connected, fanned, sweep, ghosts, faults >>

ExpirySweep ==
  /\ \E m \in Pending : token[m] = "expired"
  /\ row' = [m \in Tokens |->
               IF m \in Pending /\ token[m] = "expired" THEN "expired" ELSE row[m]]
  /\ UNCHANGED << provider, mint, kill, connected, fanned, sweep, ghosts, faults >>

\* runOrphanSweep, for an active connection of the batch: the provider's tokens
\* are read page by page.  todo has those that were alive when it began.
StartSweep ==
  /\ phase = "idle" /\ connected
  /\ phase' = "pages" /\ todo' = Living
  /\ UNCHANGED << provider, row, mint, kill, connected, fanned, seen, live, victim, ghosts, faults >>

\* One that was created meanwhile may still be on a page to come.
ReadToken(m) ==
  /\ phase = "pages" /\ m \in Living \ (seen \cup beyond)
  /\ seen' = seen \cup {m} /\ todo' = todo \ {m}
  /\ UNCHANGED << provider, row, mint, kill, connected, fanned, phase, live, victim, ghosts, faults >>

\* The list moves up between two pages, and a token is on neither.
PageShifts(m) ==
  /\ phase = "pages" /\ m \in todo \ seen
  /\ Fault
  /\ todo' = todo \ {m} /\ misread' = misread \cup {m}
  /\ UNCHANGED << provider, row, mint, kill, connected, fanned, phase, seen, live, victim, met, spared, unlisted >>

\* The last page, or the tenth.
EndList ==
  /\ phase = "pages" /\ todo \cap Living \subseteq beyond
  /\ phase' = "listed" /\ todo' = {}
  /\ met' = met \cup { m \in Living \ (seen \cup beyond \cup misread) : row[m] # "none" }
  /\ UNCHANGED << provider, row, mint, kill, connected, fanned, seen, live, victim, spared, misread, unlisted, faults >>

\* ... then the pending rows.
ListLive ==
  /\ phase = "listed"
  /\ phase' = "match" /\ live' = Pending /\ todo' = seen \ Pending
  /\ UNCHANGED << provider, row, mint, kill, connected, fanned, seen, victim, ghosts, faults >>

\* What Match leaves alone.
matched == << provider, row, mint, kill, connected, fanned, phase, seen, live, met, spared, unlisted >>

Bug_MatchNoReread(m) ==
  /\ phase = "match" /\ victim = Nothing /\ m \in todo
  /\ todo' = todo \ {m} /\ victim' = m
  /\ UNCHANGED << matched, misread, faults >>

Bug_MatchAnyRow(m) ==
  /\ phase = "match" /\ victim = Nothing /\ m \in todo
  /\ todo' = todo \ {m}
  /\ victim' = IF row[m] # "none" THEN Nothing ELSE m
  /\ UNCHANGED << matched, misread, faults >>

\* A token without a listed row is read again, under the org of the connection:
\* the row of another org is not found.  A read that fails spares nothing.
Match(m) ==
  /\ phase = "match" /\ victim = Nothing /\ m \in todo
  /\ todo' = todo \ {m}
  /\ \/ /\ victim' = IF m \in Pending \ shared THEN Nothing ELSE m
        /\ UNCHANGED << misread, faults >>
     \/ /\ m \in Pending \ shared
        /\ Fault
        /\ victim' = m /\ misread' = misread \cup {m}
  /\ UNCHANGED matched

RevokeOrphan ==
  /\ victim # Nothing
  /\ Delete(victim, TRUE)
  /\ victim' = Nothing
  /\ UNCHANGED << shared, beyond, parent, row, mint, kill, connected, fanned, phase, seen, live, todo, met, misread, unlisted >>

StartClosing ==
  /\ phase = "match" /\ todo = {} /\ victim = Nothing
  /\ phase' = "close" /\ todo' = live \ seen
  /\ UNCHANGED << provider, row, mint, kill, connected, fanned, seen, live, victim, ghosts, faults >>

\* A listed row whose token was not in the earlier list is closed, best effort.
CloseRow(m) ==
  /\ phase = "close" /\ m \in todo
  /\ todo' = todo \ {m}
  /\ \/ Mark(m, "revoked") /\ UNCHANGED faults
     \/ Fault /\ UNCHANGED row
  /\ UNCHANGED << provider, mint, kill, connected, fanned, phase, seen, live, victim, ghosts >>

EndSweep ==
  /\ phase = "close" /\ todo = {}
  /\ phase' = "idle" /\ seen' = {} /\ live' = {}
  /\ UNCHANGED << provider, row, mint, kill, connected, fanned, todo, victim, ghosts, faults >>

\* A page or the rows cannot be read, or the invocation ends.
SweepDies ==
  /\ phase # "idle"
  /\ Fault
  /\ phase' = "idle" /\ seen' = {} /\ live' = {} /\ todo' = {} /\ victim' = Nothing
  /\ UNCHANGED << provider, row, mint, kill, connected, fanned, ghosts >>

Minting(m) == Create(m) \/ Insert(m) \/ Refuse(m) \/ Reveal(m) \/ Unusable(m)
Revoking(m) == RevokeToken(m) \/ RevokeRow(m)
SweepGoes ==
  \/ EndList \/ ListLive \/ RevokeOrphan \/ StartClosing \/ EndSweep
  \/ \E m \in Tokens : ReadToken(m) \/ Match(m) \/ CloseRow(m)
Sweeps == StartSweep \/ SweepGoes \/ SweepDies \/ \E m \in Tokens : PageShifts(m)

Next ==
  \/ \E m \in Tokens :
       \/ Ask(m) \/ Minting(m) \/ InsertFails(m) \/ MintDies(m)
       \/ RevokeAsked(m) \/ Revoking(m) \/ RevokeDies(m)
       \/ Expire(m)
  \/ Disconnect \/ FanOut \/ Zeroize \/ ExpirySweep \/ Sweeps

(* A worker that lives goes on, and so does a sweep.  That the cron's batch *)
(* reaches this connection is not assumed, nor that a token expires or that *)
(* anybody asks for a revoke.                                              *)
Spec ==
  /\ Init /\ [][Next]_vars
  /\ WF_vars(SweepGoes)
  /\ \A m \in Tokens : WF_vars(Minting(m)) /\ WF_vars(Revoking(m))

-----------------------------------------------------------------------------
Rows == {"none", "pending", "revoked", "expired", "orphaned"}

TypeOK ==
  /\ shared \subseteq Tokens /\ beyond \subseteq Tokens
  /\ token \in [Tokens -> {"none", "live", "gone", "expired"}]
  /\ row \in [Tokens -> Rows]
  /\ mint \in [Tokens -> {"none", "asked", "made", "ledgered", "refuse", "spoiled",
                          "revealed", "over"}]
  /\ kill \in [Tokens -> {"idle", "delete", "mark"}]
  /\ connected \in BOOLEAN /\ fanned \in BOOLEAN /\ parent \in BOOLEAN
  /\ parent \/ fanned
  /\ phase \in {"idle", "pages", "listed", "match", "close"}
  /\ seen \subseteq Tokens /\ live \subseteq Tokens /\ todo \subseteq Tokens
  /\ phase = "idle" => todo = {}
  /\ victim # Nothing => phase = "match"
  /\ victim \in Tokens \cup {Nothing}
  /\ met \subseteq Tokens /\ spared \subseteq Tokens /\ misread \subseteq Tokens
  /\ unlisted \in BOOLEAN /\ faults \in 0 .. FaultBound

\* The sweep takes no credential away that somebody holds: one that was revealed
\* and is pending is alive or has expired.  It is spared because the sweep reads
\* the tokens before the rows, and the row once more before it deletes; the
\* mints it still catches are those whose row comes at the moments of Caught, or
\* could not be read again.
HeldIsAlive ==
  \A m \in Tokens \ (met \cup misread) :
    mint[m] = "revealed" /\ row[m] = "pending" /\ kill[m] = "idle" /\ m \notin spared =>
      token[m] \in {"live", "expired"}

\* A closed row means a dead token, as far as the provider's deletes succeeded,
\* no sweep caught the mint half done, and the sweep's list had the token.
ClosedIsDead ==
  \A m \in Tokens \ (met \cup spared \cup misread \cup beyond) :
    row[m] = "revoked" => token[m] # "live"

\* When a connection's parent has been deleted, the tokens that are left alive
\* are those whose delete failed, that were under way, that the sweep closed
\* wrongly or that no row knows of; all of them, if the mints were not listed.
NothingOutlivesRevoke ==
  ~parent /\ ~unlisted =>
    \A m \in Living : m \in spared \cup met \cup misread \cup beyond \/ row[m] = "none"

\* If the sweep comes to this connection again and again, a token whose request
\* is over and that the ledger does not hold as pending is deleted, as long as
\* the connection is active and the token is on the pages the sweep reads: also
\* one whose request died before its row, and one a revoke could not delete.
OrphansGo ==
  []<><<StartSweep>>_vars =>
    \A m \in Tokens :
      (token[m] = "live" /\ row[m] # "pending" /\ mint[m] \in {"over", "revealed"})
        ~> (token[m] # "live" \/ ~connected \/ m \in beyond)
-----------------------------------------------------------------------------
(* What the properties rest on.                                            *)

\* A token comes before its row, and both after the request.
TokenFirst ==
  \A m \in Tokens :
    /\ mint[m] \in {"none", "asked"} => token[m] = "none"
    /\ mint[m] = "made" => token[m] # "none"
    /\ mint[m] \in {"none", "asked", "made"} => row[m] = "none"
    /\ row[m] # "none" \/ m \in seen \cup live \cup todo \cup {victim} => token[m] # "none"
    /\ m \in live \/ (phase = "close" /\ m \in todo) => row[m] # "none"
    /\ kill[m] # "idle" \/ mint[m] \in {"ledgered", "spoiled", "revealed"} => row[m] # "none"

\* The tokens nothing went wrong for.
Sound == Tokens \ (met \cup spared \cup misread)

\* A revoke, and a mint that is spoiled, take the token first.
DeletedFirst ==
  \A m \in Sound :
    /\ kill[m] = "mark" \/ mint[m] = "spoiled" => token[m] # "live"
    /\ row[m] \in {"revoked", "expired", "orphaned"} /\ m \notin beyond => token[m] # "live"
    /\ mint[m] = "ledgered" /\ row[m] = "pending" /\ kill[m] = "idle" =>
         token[m] \in {"live", "expired"}

\* What the sweep holds against a token is so, and against a row too.
SweepIsRight ==
  /\ \A m \in Tokens \ met :
       phase = "match" /\ m \in shared \cap todo => row[m] # "pending"
  /\ \A m \in Tokens \ (met \cup misread) : victim = m => row[m] # "pending"
  /\ \A m \in Tokens \ (met \cup misread \cup beyond) :
       /\ phase = "listed" /\ m \notin seen /\ row[m] # "none" => token[m] # "live"
       /\ phase \in {"match", "close"} /\ m \in live \ seen => token[m] # "live"
       /\ phase = "close" /\ m \in todo => m \in live \ seen

\* The fan-out of a revoke leaves a live row only to a revoke under way.
FanOutReaches ==
  fanned =>
    /\ ~ connected
    /\ \A m \in Tokens : mint[m] \in {"asked", "made"} => m \in spared
    /\ parent /\ ~unlisted =>
         \A m \in Sound \ beyond : row[m] = "pending" /\ token[m] = "live" => kill[m] = "delete"

\* The inductive invariant: it implies the invariants above.
IInv ==
  /\ TypeOK /\ TokenFirst /\ DeletedFirst /\ SweepIsRight /\ FanOutReaches
  /\ HeldIsAlive /\ ClosedIsDead /\ NothingOutlivesRevoke
==============================================================================
