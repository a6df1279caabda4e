----------------------------- MODULE BrokerLink -----------------------------
(* What the RabbitMQ client promises of its connection to the broker: one  *)
(* connection at a time.  The client waits for its retry timer, dials,     *)
(* and waits again or is connected; a connection that is lost is wound up  *)
(* before the timer is set again.  The process may end at any time, and    *)
(* winding up may take for ever.                                           *)
VARIABLE phase

Phases == {"waiting", "dialing", "up", "lost", "dead"}

Init == phase = "waiting"

Dial == phase = "waiting" /\ phase' = "dialing"
Refused == phase = "dialing" /\ phase' = "waiting"
Accepted == phase = "dialing" /\ phase' = "up"
Lose == phase = "up" /\ phase' = "lost"
WoundUp == phase = "lost" /\ phase' = "waiting"
Die == phase' = "dead"

Next == Dial \/ Refused \/ Accepted \/ Lose \/ WoundUp \/ Die

Safe == Init /\ [][Next]_phase

\* A client that waits dials, and dialing ends.
Spec == /\ Safe
        /\ WF_phase(Dial)
        /\ WF_phase(Refused \/ Accepted)

=============================================================================
