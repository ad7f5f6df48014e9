------------------------------ MODULE MintLockMC ------------------------------
(***************************************************************************)
(* Two mints, one revoke and one health check of a connection; or three    *)
(* mints, so that newcomers can pass one that waits.                       *)
(***************************************************************************)
EXTENDS MintLock

CONSTANTS m1, m2, m3, revoke, check

MCMints == {m1, m2, m3}
MCRevokes == {revoke}
MCChecks == {check}

MCCrowds ==
  {[who |-> {m1, m2, revoke, check}, faults |-> 1], [who |-> {m1, m2, m3}, faults |-> 2]}
MCNoFault == {[who |-> {m1, m2, revoke, check}, faults |-> 0]}
==============================================================================
