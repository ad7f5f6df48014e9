------------------------------ MODULE EventLaneMC ------------------------------
(***************************************************************************)
(* Two overlapping ticks and a replay over two events: of one story, with  *)
(* and without an escalation, or one of them of no story.                  *)
(***************************************************************************)
EXTENDS EventLane

CONSTANTS k1, k2, r1

MCEvents  == 1 .. 2
MCKinds   == { [e \in MCEvents |-> 1], [e \in MCEvents |-> e], [e \in MCEvents |-> 2 - e] }
MCTicks   == {k1, k2}
MCReplays == {r1}
==============================================================================
