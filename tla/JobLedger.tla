----------------------------- MODULE JobLedger -----------------------------
(***************************************************************************)
(* What a run's coordination shard promises its callers, with no clock, no *)
(* alarm, no requests and no event stream: every job is open, held by one  *)
(* runner, or done, and it has a turn number that fences its holders.      *)
(* RunCoordinator implements it.                                           *)
(***************************************************************************)
EXTENDS Integers

CONSTANTS Jobs, Deps, Runners, Nobody

VARIABLES
  status,  \* "open", "held", "won", "lost" or "dropped"
  owner,   \* the runner holding the job, or Nobody
  turn     \* the number of the job's current turn

ledger == << status, owner, turn >>

Done == {"won", "lost", "dropped"}

\* The run's own state, which its jobs determine.
RunStatus ==
  IF \E j \in Jobs : status[j] = "dropped" THEN "canceled"
  ELSE IF \E j \in Jobs : status[j] = "lost" THEN "failed"
  ELSE IF \A j \in Jobs : status[j] = "won" THEN "succeeded"
  ELSE "running"

Ready(j) == \A d \in Deps[j] : status[d] = "won"

Init ==
  /\ status = [j \in Jobs |-> "open"]
  /\ owner = [j \in Jobs |-> Nobody]
  /\ turn = [j \in Jobs |-> 1]

\* A ready job nobody holds is given to one runner.
Give(j, r) ==
  /\ status[j] = "open" /\ Ready(j)
  /\ status' = [status EXCEPT ![j] = "held"]
  /\ owner' = [owner EXCEPT ![j] = r]
  /\ UNCHANGED turn

\* A held job passes from its holder to another runner, in a new turn.
Pass(j, r) ==
  /\ status[j] = "held" /\ owner[j] # r
  /\ owner' = [owner EXCEPT ![j] = r]
  /\ turn' = [turn EXCEPT ![j] = @ + 1]
  /\ UNCHANGED status

\* A ready job is won from a recorded result, a held one as its holder says.
Adopt(j) ==
  /\ status[j] = "open" /\ Ready(j)
  /\ status' = [status EXCEPT ![j] = "won"]
  /\ UNCHANGED << owner, turn >>

Finish(j, result) ==
  /\ status[j] = "held"
  /\ status' = [status EXCEPT ![j] = result]
  /\ owner' = [owner EXCEPT ![j] = Nobody]
  /\ UNCHANGED turn

\* Some holders are given up on: each of their jobs is lost, or open again in
\* a new turn.
Expire(gone, lost) ==
  /\ \A j \in gone : status[j] = "held"
  /\ status' = [j \in Jobs |-> IF j \notin gone THEN status[j]
                               ELSE IF j \in lost THEN "lost" ELSE "open"]
  /\ owner' = [j \in Jobs |-> IF j \in gone THEN Nobody ELSE owner[j]]
  /\ turn' = [j \in Jobs |-> IF j \in gone \ lost THEN turn[j] + 1 ELSE turn[j]]

\* A mistake for the mutants: a cancel that an ended run accepts too.
Bug_DropAnyTime ==
  /\ status' = [j \in Jobs |-> IF status[j] \in Done THEN status[j] ELSE "dropped"]
  /\ owner' = [j \in Jobs |-> Nobody]
  /\ UNCHANGED turn

\* A run that has not ended is called off: whatever is not done is dropped.
Drop ==
  /\ RunStatus = "running"
  /\ status' = [j \in Jobs |-> IF status[j] \in Done THEN status[j] ELSE "dropped"]
  /\ owner' = [j \in Jobs |-> Nobody]
  /\ UNCHANGED turn

\* What somebody asks for, and what time alone does.
Request ==
  \/ \E j \in Jobs, r \in Runners : Give(j, r) \/ Pass(j, r)
  \/ \E j \in Jobs : Adopt(j) \/ \E result \in {"won", "lost"} : Finish(j, result)
  \/ Drop

Timeout == \E gone \in SUBSET Jobs : \E lost \in SUBSET gone : Expire(gone, lost)

Next == Request \/ Timeout

Spec == Init /\ [][Next]_ledger
=============================================================================
