------------------------ MODULE RunCoordinatorLedger ------------------------
(***************************************************************************)
(* RunCoordinator implements JobLedger: the phases of a job map to the     *)
(* ledger's states, its holder to the owner and its attempt to the turn.   *)
(***************************************************************************)
EXTENDS RunCoordinator

StatusOf(phase) ==
  CASE phase = "queued"      -> "open"
    [] phase = "claimed"     -> "held"
    [] phase \in JobSuccess  -> "won"
    [] phase \in JobFailure  -> "lost"
    [] phase = "canceled"    -> "dropped"

ledgerStatus == [j \in Jobs |-> StatusOf(job[j].phase)]
ledgerOwner  == [j \in Jobs |-> job[j].holder]
ledgerTurn   == [j \in Jobs |-> job[j].attempt]

Ledger == INSTANCE JobLedger WITH
  Nobody <- NoRunner,
  status <- ledgerStatus, owner <- ledgerOwner, turn <- ledgerTurn

\* The phase the shard derives from its stream is the one its jobs determine:
\* the cancellation flag and the job phases never tell two stories.
PhaseIsTheLedgers == created /\ Jobs # {} => Phase = Ledger!RunStatus

\* Through races, takeovers, sweeps, retried alarms and late requests the
\* shard does what the ledger does: one holder per job and turn, jobs given
\* out in dependency order, turns that only grow, and ends that are final.
ImplementsLedger == Ledger!Spec
=============================================================================
