--------------------------- MODULE ProjectionSweep ---------------------------
(***************************************************************************)
(* The scheduled sweep over all runs (projection-sweep.ts): each tick      *)
(* projects a bounded batch of the runs whose row is still open, the ones  *)
(* whose row was updated longest ago first.  A projection that finds no    *)
(* new event in the shard leaves the row, and so its place in that order,  *)
(* as it was.                                                              *)
(***************************************************************************)
EXTENDS Integers, Sequences, FiniteSets, SequencesExt

CONSTANTS
  Runs,       \* the runs that were created, of every tenant
  Forsaken,   \* those among them that no runner ever comes for
  Batch,      \* PROJECTION_BATCH
  SeqBound    \* bound: the events of one run's stream

ASSUME SweepAssumption ==
  /\ Forsaken \subseteq Runs
  /\ Batch \in Nat \ {0}
  /\ SeqBound \in Nat \ {0}

VARIABLES
  seq,     \* each shard's fold.lastSeq
  over,    \* the runs whose shard is in a terminal phase
  row,     \* state.runs: last_seq, and whether the status is terminal
  oldest,  \* the rows in updated_at order
  batch    \* the runs this tick still has to project

vars == << seq, over, row, oldest, batch >>

\* createRun inserts the rows one after the other, at last_seq 0.
Init ==
  /\ seq = [r \in Runs |-> 1]
  /\ over = {}
  /\ row = [r \in Runs |-> [seq |-> 0, closed |-> FALSE]]
  /\ oldest \in SetToSeqs(Runs)
  /\ batch = << >>

\* A run's jobs move on, and no verb's own projection gets through.
Progress(r) ==
  /\ r \notin Forsaken \cup over
  /\ seq[r] < SeqBound
  /\ seq' = [seq EXCEPT ![r] = @ + 1]
  /\ UNCHANGED << over, row, oldest, batch >>

\* The run's last job is done, or timed out by the alarm.
Ends(r) ==
  /\ r \notin Forsaken \cup over
  /\ seq' = [seq EXCEPT ![r] = @ + 1]
  /\ over' = over \cup {r}
  /\ UNCHANGED << row, oldest, batch >>

\* The seq-guarded update, which alone moves updated_at.
Projected(r) ==
  IF seq[r] > row[r].seq
    THEN /\ row' = [row EXCEPT ![r] = [seq |-> seq[r], closed |-> r \in over]]
         /\ oldest' = Append(Remove(oldest, r), r)
    ELSE UNCHANGED << row, oldest >>

\* A verb's projection that does get through.
VerbProjects(r) ==
  /\ r \notin Forsaken
  /\ Projected(r)
  /\ UNCHANGED << seq, over, batch >>

OpenRows == SelectSeq(oldest, LAMBDA r : ~row[r].closed)

Smaller(a, b) == IF a < b THEN a ELSE b

Bug_AllRows == SubSeq(oldest, 1, Smaller(Batch, Len(oldest)))

\* SELECT ... WHERE status IN ('pending', 'running') ORDER BY updated_at LIMIT.
Selected == SubSeq(OpenRows, 1, Smaller(Batch, Len(OpenRows)))

TickStarts ==
  /\ batch = << >>
  /\ batch' = Selected
  /\ UNCHANGED << seq, over, row, oldest >>

\* The tick projects its batch run by run; a run that fails is only logged.
TickProjects(r) ==
  /\ batch # << >> /\ Head(batch) = r
  /\ Projected(r)
  /\ batch' = Tail(batch)
  /\ UNCHANGED << seq, over >>

TickFails ==
  /\ batch # << >>
  /\ batch' = Tail(batch)
  /\ UNCHANGED << seq, over, row, oldest >>

Next ==
  \/ \E r \in Runs : Progress(r) \/ Ends(r) \/ VerbProjects(r) \/ TickProjects(r)
  \/ TickStarts
  \/ TickFails

(* The cron ticks, its projections do not fail for ever, and a run that    *)
(* has runners ends.                                                       *)
Spec ==
  /\ Init /\ [][Next]_vars
  /\ WF_vars(TickStarts)
  /\ WF_vars(\E r \in Runs : TickProjects(r))
  /\ \A r \in Runs : SF_vars(TickProjects(r)) /\ WF_vars(Ends(r))

-----------------------------------------------------------------------------
\* projection-sweep.ts:1-7: the end of every run reaches its row, whatever the
\* runs around it do and with no verb.
EndsSurface == \A r \in Runs : r \in over ~> row[r].closed
=============================================================================
