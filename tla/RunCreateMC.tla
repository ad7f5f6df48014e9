----------------------------- MODULE RunCreateMC -----------------------------
(***************************************************************************)
(* Two independent jobs, one runner, and two clients that send the request.*)
(***************************************************************************)
EXTENDS RunCreate

CONSTANTS build, lint, r1, c1, c2

MCJobs == {build, lint}
MCDeps == [j \in MCJobs |-> {}]
MCRunners == {r1}
MCClients == {c1, c2}
==============================================================================
