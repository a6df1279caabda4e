--------------------------- MODULE MCSessionPeers ---------------------------
(* TLC's instances of SessionPeers.                                        *)
EXTENDS SessionPeers, TLC

CONSTANTS t1, t2, u1, pod1

\* The publisher's commands come through one receiver, all others through
\* another.
OwnerTwo == [w \in Subs \cup {Pub} |-> IF w = Pub THEN t1 ELSE t2]

Symmetric == Permutations(Peers)
=============================================================================
