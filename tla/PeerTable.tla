----------------------------- MODULE PeerTable ------------------------------
(* What a session promises of its peers: a table of connections, each in   *)
(* one slot and each slot with one at most.  A connection is not put in    *)
(* the place of another: that one is closed first.  A subscriber's has its *)
(* descriptions set once, the session's offer and then the answer to it; a *)
(* publisher's may be set again and again.  Connections may be closed at   *)
(* any time, several at once, and all of them when the process ends.       *)
CONSTANTS PubSlots, SubSlots, Ids

\* The slots that are in use, each with its connection and how far its descriptions
\* are set.
VARIABLE table

Used == DOMAIN table

Init == table = [s \in {} |-> {}]

\* A connection that is in no slot yet.
Open(s, id) ==
  /\ s \notin Used
  /\ \A r \in Used : table[r].id # id
  /\ table' = [r \in Used \cup {s} |-> IF r = s THEN [id |-> id, sig |-> "new"] ELSE table[r]]

Describe(s, sig) ==
  /\ s \in Used
  /\ table' = [table EXCEPT ![s] = [id |-> table[s].id, sig |-> sig]]

Offer(s) == s \in SubSlots /\ table[s].sig = "new" /\ Describe(s, "offered")
Answered(s) == s \in SubSlots /\ table[s].sig = "offered" /\ Describe(s, "stable")
Publish(s) == s \in PubSlots /\ Describe(s, "stable")

Close(ss) == table' = [s \in Used \ ss |-> table[s]]

Next == \/ \E ss \in SUBSET Used : Close(ss)
        \/ \E s \in PubSlots \cup SubSlots, id \in Ids : Open(s, id)
        \/ \E s \in Used : Offer(s) \/ Answered(s) \/ Publish(s)

Spec == Init /\ [][Next]_table

=============================================================================
