----------------------------- MODULE ShardStoreMC -----------------------------
(***************************************************************************)
(* Two jobs in a chain, two runners; snapshots every three events, two     *)
(* events per put; shards that start empty, or with an old log of three.   *)
(***************************************************************************)
EXTENDS ShardStore

CONSTANTS build, deploy, r1, r2

MCJobs == {build, deploy}
MCDeps == (build :> {}) @@ (deploy :> {build})
MCRunners == {r1, r2}
MCOldLogs ==
  { << RunEvent("RunCreated"), Event("JobClaimed", build, r1, 1),
       Event("succeeded", build, r1, 1) >> }
==============================================================================
