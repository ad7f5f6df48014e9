--------------------------- MODULE WebhookDeliveryMC ---------------------------
(***************************************************************************)
(* Two ticks that may overlap and a replay; a delivery is given up after   *)
(* its second failure, and an endpoint after two deliveries.  One event    *)
(* with a replay and two odds, or two events with one odd; and, where only *)
(* the replay is the question, two events with neither fault nor overlap.  *)
(***************************************************************************)
EXTENDS WebhookDelivery

CONSTANTS k1, k2, u1

MCEvents == 1 .. 2
MCRows   == 1 .. 4
MCTicks  == {k1, k2}
MCUsers  == {u1}

MCBudgets == { [events |-> {1}, replays |-> 1, odds |-> 2],
               [events |-> {1, 2}, replays |-> 0, odds |-> 1] }
MCReplay  == { [events |-> {1, 2}, replays |-> 1, odds |-> 0] }
==============================================================================
