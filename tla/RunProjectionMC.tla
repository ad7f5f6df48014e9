--------------------------- MODULE RunProjectionMC ---------------------------
(***************************************************************************)
(* A small plan for TLC: `build', `lint' beside it, one runner and two     *)
(* projections at a time.                                                  *)
(***************************************************************************)
EXTENDS RunProjection, TLC

CONSTANTS build, lint, r1, p1, p2

MCJobs == {build, lint}
MCJobOrder == << build, lint >>
MCDeps == [j \in MCJobs |-> {}]
MCRunners == {r1}
MCWorkers == {p1, p2}
MCOneWorker == {p1}
=============================================================================
