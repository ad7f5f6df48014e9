-------------------------- MODULE RunCoordinatorMC --------------------------
(***************************************************************************)
(* A small plan for TLC: `build', and `deploy' that needs it.              *)
(***************************************************************************)
EXTENDS RunCoordinatorLedger, TLC

CONSTANTS build, deploy, r1, r2

MCJobs == {build, deploy}
MCDeps == (build :> {}) @@ (deploy :> {build})
MCRunners == {r1, r2}
=============================================================================
