----------------------------- MODULE MCBrokerCycle -----------------------------
(* Two cycles over a box of two directories: a Worker that connects twice, an  *)
(* orphan's directory beside that of the next Worker.  What a Worker sends is  *)
(* clean, or carries a failed test suite; any part of it may get lost.         *)
EXTENDS BrokerCycle

CONSTANTS cron, manual

MCCycles == {cron, manual}
Clean == [gates |-> [g \in GateNames |-> 0], counts |-> {1},
          pf |-> [written |-> TRUE, results |-> {}]]
MCShipments == [clean |-> Clean,
                red   |-> [Clean EXCEPT !.gates.pytest = 1]]
================================================================================
