-------------------------- MODULE ProjectionSweepMC --------------------------
(***************************************************************************)
(* Three runs and batches of two; one of the runs is forsaken.         *)
(***************************************************************************)
EXTENDS ProjectionSweep

CONSTANTS r1, r2, r3

MCRuns == {r1, r2, r3}
MCFewForsaken == {r1}
=============================================================================
