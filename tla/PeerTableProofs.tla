-------------------------- MODULE PeerTableProofs ---------------------------
(* SessionPeers implements PeerTable, for any peer ids, users, pods, peer  *)
(* objects and receivers.                                                  *)
EXTENDS SessionPeersProofs

\* The peer that receiver t is about to describe is, if it is still open, the one of
\* its message's slot; a sub describes it for the first time.
InHandOK(t) ==
  /\ pc[t] = "fetch" => Cmd(t) = "offer"
  /\ pc[t] = "apply" /\ peer[cur[t]].open
       => /\ peer[cur[t]].slot = Slot(t)
          /\ Cmd(t) = "sub" => peer[cur[t]].sig = "new"

InHand == \A t \in Receivers : InHandOK(t)

TInv == IInv /\ InHand

\* A step of the session as PeerTable sees it.
TableStep == [Table!Next]_Entries

-----------------------------------------------------------------------------
(* What a step does to the table.                                          *)

Held == {s \in Slots : held[s] # Nil}

\* An entry of the table, and the entries all together.
LEMMA EntriesFacts ==
  /\ DOMAIN Entries = Held /\ Table!Used = Held
  /\ \A s \in Held : Entries[s] = [id |-> held[s], sig |-> peer[held[s]].sig]
BY DEF Entries, Held, Table!Used

LEMMA EntriesAre ==
  ASSUME NEW f, DOMAIN f = {s \in Slots : held'[s] # Nil}, f = [s \in DOMAIN f |-> f[s]],
         \A s \in Slots : held'[s] # Nil => f[s] = [id |-> held'[s], sig |-> peer'[held'[s]].sig]
  PROVE  Entries' = f
BY DEF Entries

\* Nothing, if the maps and the descriptions of the peers in them stay.
LEMMA TableSame ==
  ASSUME TypeOK, PeersHeld, held' = held,
         \A p \in Peers : peer[p].open => peer'[p].sig = peer[p].sig
  PROVE  TableStep
<1>1. \A s \in Slots : held[s] # Nil => peer'[held[s]].sig = peer[held[s]].sig
  BY DEF TypeOK, PeersHeld
<1>2. Entries' = Entries
  BY <1>1 DEF Entries
<1> QED  BY <1>2 DEF TableStep

\* Slots that are emptied, the other entries as they were.
LEMMA TableClose ==
  ASSUME TypeOK, PeersHeld, NEW ss \in SUBSET Slots,
         \A s \in Slots : held'[s] = IF s \in ss THEN Nil ELSE held[s],
         \A s \in Slots \ ss : held[s] # Nil => peer'[held[s]] = peer[held[s]]
  PROVE  TableStep
<1>1. {s \in Slots : held'[s] # Nil} = Held \ ss
  BY DEF Held
<1>2. Entries' = [s \in Held \ ss |-> Entries[s]]
  <2> DEFINE f == [s \in Held \ ss |-> Entries[s]]
  <2>1. DOMAIN f = {s \in Slots : held'[s] # Nil} /\ f = [s \in DOMAIN f |-> f[s]]
    BY <1>1
  <2>2. \A s \in Slots : held'[s] # Nil => f[s] = [id |-> held'[s], sig |-> peer'[held'[s]].sig]
    BY <1>1, EntriesFacts DEF Held
  <2> QED  BY <2>1, <2>2, EntriesAre
<1>3. Table!Close(ss \cap Held)
  <2>1. Held \ ss = Held \ (ss \cap Held)  OBVIOUS
  <2> QED  BY <1>2, <2>1, EntriesFacts DEF Table!Close
<1> QED  BY <1>3, EntriesFacts DEF TableStep, Table!Next

LEMMA TablePanic == ASSUME TypeOK, PeersHeld, Panic PROVE TableStep
<1>1. \A s \in Slots : held'[s] = Nil  BY DEF Panic
<1> QED  BY <1>1, TableClose

LEMMA TableRelease ==
  ASSUME TypeOK, PeersHeld, NEW ss \in SUBSET Slots, Release(ss) PROVE TableStep
<1>1. /\ \A s \in Slots : held'[s] = IF s \in ss THEN Nil ELSE held[s]
      /\ \A p \in Peers : peer'[p].open => peer'[p] = peer[p]
      /\ PeersHeld'
  BY ReleaseFacts
<1>2. \A s \in Slots \ ss : held[s] # Nil => peer'[held[s]] = peer[held[s]]
  BY <1>1 DEF TypeOK, PeersHeld
<1> QED  BY <1>1, <1>2, TableClose

\* A peer that is in no slot yet is put in a free one.
LEMMA TableOpen ==
  ASSUME TypeOK, PeersHeld, NEW s \in Slots, held[s] = Nil, NEW p \in Peers, ~peer[p].open,
         peer' = [peer EXCEPT ![p] = NewPeer(s)], held' = [held EXCEPT ![s] = p]
  PROVE  TableStep
<1>1. {r \in Slots : held'[r] # Nil} = Held \cup {s} /\ s \notin Held
  BY NilAssumption DEF Held, TypeOK
<1>2. \A r \in Held : held[r] # p /\ held'[r] = held[r] /\ peer'[held[r]] = peer[held[r]]
  BY DEF Held, TypeOK, PeersHeld
<1>3. held'[s] = p /\ peer'[p].sig = "new"
  BY DEF TypeOK, NewPeer
<1> DEFINE f == [r \in Held \cup {s} |-> IF r = s THEN [id |-> p, sig |-> "new"] ELSE Entries[r]]
<1>4. Entries' = f
  <2>1. DOMAIN f = {r \in Slots : held'[r] # Nil} /\ f = [r \in DOMAIN f |-> f[r]]
    BY <1>1
  <2>2. \A r \in Slots : held'[r] # Nil => f[r] = [id |-> held'[r], sig |-> peer'[held'[r]].sig]
    BY <1>1, <1>2, <1>3, EntriesFacts
  <2> HIDE DEF f
  <2> QED  BY <2>1, <2>2, EntriesAre
<1>5. Table!Open(s, p)
  BY <1>1, <1>2, <1>4, EntriesFacts DEF Table!Open
<1> QED  BY <1>5 DEF TableStep, Table!Next, Slots

\* The descriptions of the peer in a slot are set.
LEMMA TableDescribe ==
  ASSUME TypeOK, PeersHeld, NEW p \in Peers, peer[p].open,
         NEW sig \in {"offered", "stable"}, peer' = [peer EXCEPT ![p].sig = sig], held' = held,
         \/ peer[p].slot \in SubSlots /\ peer[p].sig = "new" /\ sig = "offered"
         \/ peer[p].slot \in SubSlots /\ peer[p].sig = "offered" /\ sig = "stable"
         \/ peer[p].slot \in PubSlots /\ sig = "stable"
  PROVE  TableStep
<1> DEFINE s == peer[p].slot
<1>1. peer[p] \in Peer  BY DEF TypeOK, Destroyed
<1>2. s \in Held /\ held[s] = p
  <2>1. s \in Slots  BY <1>1 DEF Peer
  <2>2. held[s] = p  BY DEF PeersHeld
  <2> QED  BY <2>1, <2>2, NilAssumption DEF Held
<1>3. \A r \in Held : r # s => held[r] # p
  BY DEF PeersHeld, Held
<1>4. peer'[p].sig = sig /\ \A q \in Peers \ {p} : peer'[q] = peer[q]
  BY <1>1 DEF TypeOK, Peer
<1>5. \/ s \in SubSlots /\ peer[p].sig = "new" /\ sig = "offered"
      \/ s \in SubSlots /\ peer[p].sig = "offered" /\ sig = "stable"
      \/ s \in PubSlots /\ sig = "stable"
  OBVIOUS
<1> HIDE DEF s
<1> DEFINE f == [Entries EXCEPT ![s] = [id |-> Entries[s].id, sig |-> sig]]
<1>6. Entries[s].id = p /\ Entries[s].sig = peer[p].sig
  BY <1>2, EntriesFacts
<1>7. Entries' = f
  <2>1. DOMAIN f = {r \in Slots : held'[r] # Nil} /\ f = [r \in DOMAIN f |-> f[r]]
    BY EntriesFacts DEF Held, Entries
  <2>2. ASSUME NEW r \in Held PROVE f[r] = [id |-> held[r], sig |-> peer'[held[r]].sig]
    <3>1. CASE r = s  BY <1>2, <1>4, <1>6, <3>1, EntriesFacts
    <3>2. CASE r # s
      <4>1. peer'[held[r]] = peer[held[r]]  BY <1>3, <1>4, <3>2 DEF TypeOK, Held
      <4> QED  BY <3>2, <4>1, EntriesFacts
    <3> QED  BY <3>1, <3>2
  <2> HIDE DEF f
  <2> QED  BY <2>1, <2>2, EntriesAre DEF Held
<1>8. s \in Table!Used  BY <1>2, EntriesFacts
<1> HIDE DEF Table!Used
<1> QED
  BY <1>5, <1>6, <1>7, <1>8
  DEF TableStep, Table!Next, Table!Offer, Table!Answered, Table!Publish, Table!Describe

-----------------------------------------------------------------------------
(* What a step does to the peers in hand.                                  *)

\* Receivers that a step leaves alone, if it does not describe the peers they have
\* in hand, or destroys them.
LEMMA OtherInHand ==
  ASSUME TInv, NEW T \in SUBSET Receivers,
         \A t \in T : pc'[t] = pc[t] /\ msg'[t] = msg[t] /\ cur'[t] = cur[t],
         \A t \in T : pc[t] = "apply" /\ peer'[cur[t]].open
                        => /\ peer[cur[t]].open /\ peer'[cur[t]].slot = peer[cur[t]].slot
                           /\ Cmd(t) = "sub" => peer'[cur[t]].sig = peer[cur[t]].sig
  PROVE  \A t \in T : InHandOK(t)'
<1>1. \A t \in T : pc'[t] = "fetch" => msg'[t].cmd = "offer"
  BY DEF TInv, InHand, InHandOK, Cmd
<1> SUFFICES ASSUME NEW t \in T, pc'[t] = "apply", peer'[cur'[t]].open
             PROVE  /\ peer'[cur'[t]].slot = msg'[t].slot
                    /\ msg'[t].cmd = "sub" => peer'[cur'[t]].sig = "new"
  BY <1>1 DEF InHandOK, Slot, Cmd
<1>2. t \in Receivers /\ pc[t] = "apply" /\ cur'[t] = cur[t] /\ msg'[t] = msg[t]
  OBVIOUS
<1>3. InHandOK(t)  BY <1>2 DEF TInv, InHand
<1>4. /\ peer[cur[t]].open /\ peer'[cur[t]].slot = peer[cur[t]].slot
      /\ Cmd(t) = "sub" => peer'[cur[t]].sig = peer[cur[t]].sig
  BY <1>2
<1> QED  BY <1>2, <1>3, <1>4 DEF InHandOK, Slot, Cmd

LEMMA InHandPanic == ASSUME Panic PROVE InHand'
BY DEF Panic, InHand, InHandOK

\* Peers are destroyed at most, and no receiver but t moves, which comes to have no
\* peer in hand that it will describe.
LEMMA InHandDrop ==
  ASSUME TInv, NEW t \in Receivers, pc'[t] # "apply", pc'[t] = "fetch" => msg'[t].cmd = "offer",
         \A r \in Receivers \ {t} : pc'[r] = pc[r] /\ msg'[r] = msg[r] /\ cur'[r] = cur[r],
         \A p \in Peers : peer'[p].open => peer'[p] = peer[p]
  PROVE  InHand'
<1>1. \A r \in Receivers \ {t} : pc[r] = "apply" => cur[r] \in Peers
  BY DEF TInv, IInv, ReceiversOK, ReceiverOK
<1>2. \A r \in Receivers \ {t} : InHandOK(r)'
  BY <1>1, OtherInHand
<1>3. InHandOK(t)'  BY DEF InHandOK, Cmd
<1> QED  BY <1>2, <1>3 DEF InHand

LEMMA InHandCalm ==
  ASSUME TInv, UNCHANGED recv, \A p \in Peers : peer'[p].open => peer'[p] = peer[p]
  PROVE  InHand'
<1>1. \A r \in Receivers : pc[r] = "apply" => cur[r] \in Peers
  BY DEF TInv, IInv, ReceiversOK, ReceiverOK
<1>2. \A r \in Receivers : InHandOK(r)'
  BY <1>1, OtherInHand DEF recv
<1> QED  BY <1>2 DEF InHand

\* A goroutine, not a receiver, releases slots.
LEMMA ReleaseTable ==
  ASSUME TInv, NEW ss \in SUBSET Slots, Release(ss), UNCHANGED recv
  PROVE  InHand' /\ TableStep
<1>1. \A p \in Peers : peer'[p].open => peer'[p] = peer[p]
  BY ReleaseFacts DEF TInv, IInv
<1> QED  BY <1>1, InHandCalm, TableRelease DEF TInv, IInv

\* Nothing happens to the peers and their slots.
LEMMA QuietTable ==
  ASSUME TInv, UNCHANGED <<held, peer>>, NEW t \in Receivers, pc'[t] # "apply",
         pc'[t] = "fetch" => msg'[t].cmd = "offer",
         \A r \in Receivers \ {t} : pc'[r] = pc[r] /\ msg'[r] = msg[r] /\ cur'[r] = cur[r]
  PROVE  InHand' /\ TableStep
BY InHandDrop, TableSame DEF TInv, IInv

LEMMA CalmTable ==
  ASSUME TInv, UNCHANGED <<held, peer, recv>> PROVE InHand' /\ TableStep
BY InHandCalm, TableSame DEF TInv, IInv

-----------------------------------------------------------------------------
(* One lemma per action, the receivers' first.                             *)

\* Where a receiver's step leaves every other receiver.
LEMMA Others ==
  ASSUME TypeOK, NEW t \in Receivers,
         \/ Return(t)
         \/ /\ \E l \in PC : GoTo(t, l)
            /\ msg' = msg \/ \E m : msg' = [msg EXCEPT ![t] = m]
            /\ cur' = cur \/ \E p : cur' = [cur EXCEPT ![t] = p]
  PROVE  \A r \in Receivers \ {t} : pc'[r] = pc[r] /\ msg'[r] = msg[r] /\ cur'[r] = cur[r]
BY DEF TypeOK, Return, GoTo

\* The steps that look, and the ends of HandleMessage.
LEMMA LookTable ==
  ASSUME TInv, NEW t \in Receivers,
         \/ Receive(t) \/ LookPublish(t) \/ CreateFails(t) \/ LookStop(t) \/ LookSub(t)
         \/ LookOldSub(t) \/ StopSub(t) \/ LookOffer(t)
  PROVE  InHand' /\ TableStep
<1>1. UNCHANGED <<held, peer>>
  BY DEF Receive, LookPublish, CreateFails, LookStop, LookSub, LookOldSub, StopSub, LookOffer
<1>2. \/ Return(t)
      \/ /\ \E l \in PC \ {"apply"} : GoTo(t, l)
         /\ msg' = msg \/ \E m : msg' = [msg EXCEPT ![t] = m]
         /\ cur' = cur \/ \E p : cur' = [cur EXCEPT ![t] = p]
  BY DEF Receive, LookPublish, CreateFails, LookStop, LookSub, LookOldSub, StopSub, LookOffer, PC
<1>3. pc'[t] # "apply"
  BY <1>2 DEF TInv, IInv, TypeOK, Return, GoTo
<1>4. \A r \in Receivers \ {t} : pc'[r] = pc[r] /\ msg'[r] = msg[r] /\ cur'[r] = cur[r]
  BY <1>2, Others DEF TInv, IInv
<1>5. pc'[t] = "fetch" => msg'[t].cmd = "offer"
  BY DEF TInv, IInv, TypeOK, Return, GoTo, Cmd, Receive, LookPublish, CreateFails, LookStop, LookSub,
         LookOldSub, StopSub, LookOffer
<1> QED  BY <1>1, <1>3, <1>4, <1>5, QuietTable

LEMMA ReadSdpTable ==
  ASSUME TInv, NEW t \in Receivers, ReadSdp(t) PROVE InHand' /\ TableStep
<1>1. CASE Panic  BY <1>1, InHandPanic, TablePanic DEF TInv, IInv
<1>2. CASE ~Panic
  <2>1. UNCHANGED <<held, peer, msg, cur>> /\ pc' = [pc EXCEPT ![t] = "sublook"]
    BY <1>2 DEF ReadSdp, GoTo
  <2>2. /\ \A r \in Receivers \ {t} : pc'[r] = pc[r] /\ msg'[r] = msg[r] /\ cur'[r] = cur[r]
        /\ pc'[t] = "sublook"
    BY <2>1 DEF TInv, IInv, TypeOK
  <2> QED  BY <2>1, <2>2, QuietTable
<1> QED  BY <1>1, <1>2

\* The peer that the slot holds is taken in hand.
LEMMA FetchTable ==
  ASSUME TInv, NEW t \in Receivers, Fetch(t) PROVE InHand' /\ TableStep
<1>1. CASE Panic  BY <1>1, InHandPanic, TablePanic DEF TInv, IInv
<1>2. CASE ~Panic
  <2>1. /\ held[Slot(t)] # Nil /\ UNCHANGED <<held, peer, msg>>
        /\ cur' = [cur EXCEPT ![t] = held[Slot(t)]] /\ pc' = [pc EXCEPT ![t] = "apply"]
    BY <1>2 DEF Fetch, GoTo
  <2>2. Slot(t) \in Slots  BY BusyFacts DEF Fetch, TInv, IInv
  <2>3. peer[held[Slot(t)]].slot = Slot(t)  BY <2>1, <2>2 DEF TInv, IInv, PeersHeld
  <2>4. /\ \A r \in Receivers \ {t} : pc'[r] = pc[r] /\ msg'[r] = msg[r] /\ cur'[r] = cur[r]
        /\ pc'[t] = "apply" /\ cur'[t] = held[Slot(t)] /\ msg'[t] = msg[t]
    BY <2>1 DEF TInv, IInv, TypeOK
  <2>5. InHandOK(t)'
    <3>1. Cmd(t) = "offer"  BY DEF Fetch, TInv, InHand, InHandOK
    <3> QED  BY <2>1, <2>3, <2>4, <3>1 DEF InHandOK, Slot, Cmd
  <2>6. \A r \in Receivers \ {t} : InHandOK(r)'
    BY <2>1, <2>4, OtherInHand
  <2> QED  BY <2>1, <2>5, <2>6, TableSame DEF InHand, TInv, IInv
<1> QED  BY <1>1, <1>2

\* The peer in hand, or the one in the slot, is destroyed and its slot emptied.
LEMMA DropTable ==
  ASSUME TInv, NEW t \in Receivers, pc[t] \in {"replace", "stop"}, peer[cur[t]].open,
         Destroy({cur[t]}), held' = [held EXCEPT ![Slot(t)] = Nil],
         pc'[t] \in {"insert", "idle"},
         \A r \in Receivers \ {t} : pc'[r] = pc[r] /\ msg'[r] = msg[r] /\ cur'[r] = cur[r]
  PROVE  InHand' /\ TableStep
<1>1. cur[t] \in Peers /\ peer[cur[t]].slot = Slot(t) /\ Slot(t) \in Slots
  BY BusyFacts DEF TInv, IInv, ReceiversOK, ReceiverOK
<1>2. held[Slot(t)] = cur[t]
  BY <1>1 DEF TInv, IInv, PeersHeld
<1>3. {held[s] : s \in {Slot(t)}} \ {Nil} = {cur[t]}
  BY <1>1, <1>2, NilAssumption
<1>4. held' = [s \in Slots |-> IF s \in {Slot(t)} THEN Nil ELSE held[s]]
  BY <1>1 DEF TInv, IInv, TypeOK
<1>5. Release({Slot(t)})
  BY <1>3, <1>4 DEF Release
<1>6. \A p \in Peers : peer'[p].open => peer'[p] = peer[p]
  BY <1>1, <1>5, ReleaseFacts DEF TInv, IInv
<1> QED  BY <1>1, <1>5, <1>6, InHandDrop, TableRelease DEF TInv, IInv

LEMMA ReplaceTable ==
  ASSUME TInv, NEW t \in Receivers, Replace(t) \/ StopPush(t) PROVE InHand' /\ TableStep
<1>1. CASE Panic  BY <1>1, InHandPanic, TablePanic DEF TInv, IInv
<1>2. CASE ~Panic
  <2>1. /\ pc[t] \in {"replace", "stop"} /\ peer[cur[t]].open
        /\ Destroy({cur[t]}) /\ held' = [held EXCEPT ![Slot(t)] = Nil]
    BY <1>2 DEF Replace, StopPush
  <2>2. /\ pc'[t] \in {"insert", "idle"}
        /\ \A r \in Receivers \ {t} : pc'[r] = pc[r] /\ msg'[r] = msg[r] /\ cur'[r] = cur[r]
    BY <1>2 DEF Replace, StopPush, Return, GoTo, TInv, IInv, TypeOK
  <2> QED  BY <2>1, <2>2, DropTable
<1> QED  BY <1>1, <1>2

LEMMA DropOldSubTable ==
  ASSUME TInv, NEW t \in Receivers, DropOldSub(t) PROVE InHand' /\ TableStep
<1>1. CASE Panic  BY <1>1, InHandPanic, TablePanic DEF TInv, IInv
<1>2. CASE ~Panic
  <2>1. Release({Slot(t)}) /\ UNCHANGED <<msg, cur>> /\ pc' = [pc EXCEPT ![t] = "insert"]
    BY <1>2 DEF DropOldSub, GoTo
  <2>2. /\ \A r \in Receivers \ {t} : pc'[r] = pc[r] /\ msg'[r] = msg[r] /\ cur'[r] = cur[r]
        /\ pc'[t] = "insert"
    BY <2>1 DEF TInv, IInv, TypeOK
  <2>3. {Slot(t)} \in SUBSET Slots  BY BusyFacts DEF DropOldSub, TInv, IInv
  <2>4. \A p \in Peers : peer'[p].open => peer'[p] = peer[p]
    BY <2>1, <2>3, ReleaseFacts DEF TInv, IInv
  <2> QED  BY <2>1, <2>2, <2>3, <2>4, InHandDrop, TableRelease DEF TInv, IInv
<1> QED  BY <1>1, <1>2

\* A new peer has nothing described yet.
LEMMA InsertTable ==
  ASSUME TInv, NEW t \in Receivers, Insert(t) PROVE InHand' /\ TableStep
<1>1. PICK p \in Peers :
        /\ Fresh(p)
        /\ peer' = [peer EXCEPT ![p] = NewPeer(Slot(t))]
        /\ held' = [held EXCEPT ![Slot(t)] = p]
        /\ \/ Cmd(t) = "publish" /\ Return(t)
           \/ /\ Cmd(t) # "publish"
              /\ cur' = [cur EXCEPT ![t] = p]
              /\ GoTo(t, "apply")
              /\ UNCHANGED <<msg, hasSdp>>
  BY DEF Insert
<1>2. pc[t] = "insert" /\ Slot(t) \in Slots /\ held[Slot(t)] = Nil
  BY BusyFacts DEF Insert, TInv, IInv, ReceiversOK, ReceiverOK
<1>3. TableStep
  BY <1>1, <1>2, TableOpen DEF Fresh, TInv, IInv
<1>4. /\ peer'[p] = NewPeer(Slot(t))
      /\ \A q \in Peers \ {p} : peer'[q] = peer[q]
  BY <1>1 DEF TInv, IInv, TypeOK
<1>5. \A r \in Receivers \ {t} : pc'[r] = pc[r] /\ msg'[r] = msg[r] /\ cur'[r] = cur[r]
  BY <1>1 DEF Return, GoTo, TInv, IInv, TypeOK
<1>6. \A r \in Receivers \ {t} : pc[r] = "apply" => cur[r] \in Peers \ {p}
  BY <1>1 DEF Fresh, TInv, IInv, ReceiversOK, ReceiverOK
<1>7. \A r \in Receivers \ {t} : InHandOK(r)'
  BY <1>4, <1>5, <1>6, OtherInHand
<1>8. InHandOK(t)'
  <2>1. CASE Return(t)
    BY <2>1 DEF InHandOK, Return, GoTo, TInv, IInv, TypeOK
  <2>2. CASE ~Return(t)
    <3>1. pc'[t] = "apply" /\ cur'[t] = p /\ msg' = msg
      BY <1>1, <2>2 DEF GoTo, TInv, IInv, TypeOK
    <3>2. peer'[p].slot = Slot(t) /\ peer'[p].sig = "new"  BY <1>4 DEF NewPeer
    <3> QED  BY <3>1, <3>2 DEF InHandOK, Slot, Cmd
  <2> QED  BY <2>1, <2>2
<1> QED  BY <1>3, <1>7, <1>8 DEF InHand

\* Receiver t describes the peer p of its message's slot.  The other receivers have
\* other slots, and so other peers, in hand.
LEMMA SigTable ==
  ASSUME TInv, NEW t \in Receivers, pc[t] \notin {"idle", "dead"}, NEW p \in Peers,
         peer[p].open, peer[p].slot = Slot(t),
         NEW sig \in {"offered", "stable"}, peer' = [peer EXCEPT ![p].sig = sig], held' = held,
         Return(t),
         \/ peer[p].slot \in SubSlots /\ peer[p].sig = "new" /\ sig = "offered"
         \/ peer[p].slot \in SubSlots /\ peer[p].sig = "offered" /\ sig = "stable"
         \/ peer[p].slot \in PubSlots /\ sig = "stable"
  PROVE  InHand' /\ TableStep
<1>1. TableStep  BY TableDescribe DEF TInv, IInv
<1>2. \A r \in Receivers \ {t} : pc'[r] = pc[r] /\ msg'[r] = msg[r] /\ cur'[r] = cur[r]
  BY DEF Return, GoTo, TInv, IInv, TypeOK
<1>3. \A q \in Peers \ {p} : peer'[q] = peer[q]
  BY DEF TInv, IInv, TypeOK
<1>4. ASSUME NEW r \in Receivers \ {t}, pc[r] = "apply" PROVE cur[r] \in Peers \ {p}
  <2>1. cur[r] \in Peers /\ Owner[Slot(r)[1]] = r
    BY <1>4 DEF TInv, IInv, ReceiversOK, ReceiverOK
  <2>2. Owner[Slot(t)[1]] = t
    BY DEF TInv, IInv, ReceiversOK, ReceiverOK
  <2>3. cur[r] = p => peer[p].slot = Slot(r)
    BY <1>4 DEF TInv, InHand, InHandOK
  <2> QED  BY <2>1, <2>2, <2>3
<1>5. \A r \in Receivers \ {t} : InHandOK(r)'
  BY <1>2, <1>3, <1>4, OtherInHand
<1>6. InHandOK(t)'
  BY DEF InHandOK, Return, GoTo, TInv, IInv, TypeOK
<1> QED  BY <1>1, <1>5, <1>6 DEF InHand

\* The commands of subscribers are about their slots, and those of publishers.
LEMMA CommandSlots ==
  ASSUME TInv, NEW t \in Receivers, pc[t] \notin {"idle", "dead"}
  PROVE  /\ Cmd(t) \in {"sub", "answer"} => Slot(t) \in SubSlots
         /\ Cmd(t) \in {"offer", "fakeoffer"} => Slot(t) \in PubSlots
<1>1. msg[t] \in Message  BY DEF TInv, IInv, ReceiversOK, ReceiverOK
<1> QED  BY <1>1 DEF Message, Cmd, Slot, PubCommands

\* The peers' own handlers.
LEMMA ApplyTable ==
  ASSUME TInv, NEW t \in Receivers,
         \/ HandleSubscribe(t) \/ HandleFakeSubscribe(t)
         \/ HandleRemoteOffer(t) \/ HandleFakeOffer(t)
  PROVE  InHand' /\ TableStep
<1>1. CASE Panic  BY <1>1, InHandPanic, TablePanic DEF TInv, IInv
<1>2. CASE ~Panic
  <2>1. PICK sig \in {"offered", "stable"} :
          /\ SetDescriptions(t, sig) /\ pc[t] = "apply"
          /\ sig = "offered" => Cmd(t) = "sub"
          /\ sig = "stable" => Cmd(t) \in {"offer", "fakeoffer"}
    BY <1>2 DEF HandleSubscribe, HandleFakeSubscribe, HandleRemoteOffer, HandleFakeOffer
  <2>2. /\ peer[cur[t]].open /\ peer' = [peer EXCEPT ![cur[t]].sig = sig]
        /\ Return(t) /\ held' = held
    BY <2>1 DEF SetDescriptions
  <2>3. cur[t] \in Peers  BY <2>1 DEF TInv, IInv, ReceiversOK, ReceiverOK
  <2>4. peer[cur[t]].slot = Slot(t) /\ (Cmd(t) = "sub" => peer[cur[t]].sig = "new")
    BY <2>1, <2>2 DEF TInv, InHand, InHandOK
  <2>5. /\ sig = "offered" => Slot(t) \in SubSlots
        /\ sig = "stable" => Slot(t) \in PubSlots
    BY <2>1, CommandSlots
  <2> QED  BY <2>1, <2>2, <2>3, <2>4, <2>5, SigTable
<1> QED  BY <1>1, <1>2

LEMMA AnswerTable ==
  ASSUME TInv, NEW t \in Receivers, Answer(t) PROVE InHand' /\ TableStep
<1>1. CASE Panic  BY <1>1, InHandPanic, TablePanic DEF TInv, IInv
<1>2. CASE held[Slot(t)] = Nil /\ ~Panic
  <2>1. Return(t) /\ UNCHANGED <<held, peer>>  BY <1>2 DEF Answer
  <2>2. \A r \in Receivers \ {t} : pc'[r] = pc[r] /\ msg'[r] = msg[r] /\ cur'[r] = cur[r]
    BY <2>1, Others DEF TInv, IInv
  <2>3. pc'[t] = "idle"  BY <2>1 DEF Return, GoTo, TInv, IInv, TypeOK
  <2> QED  BY <2>1, <2>2, <2>3, QuietTable
<1>3. CASE held[Slot(t)] # Nil /\ ~Panic
  <2> DEFINE p == held[Slot(t)]
  <2>1. /\ pc[t] = "look" /\ Cmd(t) = "answer" /\ peer[p].sig = "offered"
        /\ peer' = [peer EXCEPT ![p].sig = "stable"] /\ Return(t) /\ held' = held
    BY <1>3 DEF Answer, HandleRemoteAnswer
  <2>2. Slot(t) \in Slots /\ Slot(t) \in SubSlots
    BY <2>1, BusyFacts, CommandSlots DEF TInv, IInv
  <2>3. p \in Peers /\ peer[p].open /\ peer[p].slot = Slot(t)
    BY <1>3, <2>2 DEF TInv, IInv, TypeOK, PeersHeld
  <2> HIDE DEF p
  <2> QED  BY <2>1, <2>2, <2>3, SigTable
<1> QED  BY <1>1, <1>2, <1>3

\* ICE reports a failure: the descriptions stay.
LEMMA IceFailsTable ==
  ASSUME TInv, NEW p \in Peers, IceFails(p) PROVE InHand' /\ TableStep
<1>1. peer[p] \in Peer  BY DEF IceFails, TInv, IInv, TypeOK, Destroyed
<1>2. \A q \in Peers : /\ peer'[q].open <=> peer[q].open
                       /\ peer[q].open => peer'[q].slot = peer[q].slot /\ peer'[q].sig = peer[q].sig
  BY <1>1 DEF IceFails, TInv, IInv, TypeOK, Peer
<1>3. \A r \in Receivers : pc[r] = "apply" => cur[r] \in Peers
  BY DEF TInv, IInv, ReceiversOK, ReceiverOK
<1>4. \A r \in Receivers : InHandOK(r)'
  BY <1>2, <1>3, OtherInHand DEF IceFails, recv
<1>5. TableStep
  BY <1>2, TableSame DEF IceFails, TInv, IInv
<1> QED  BY <1>4, <1>5 DEF InHand

\* The release goroutines and DoLeave.
LEMMA ReleasesTable ==
  ASSUME TInv,
         \/ \E pid \in Pids : ReleasePublisher(pid) \/ ReleaseSubscribers(pid)
         \/ \E s \in SubSlots : ReleaseSubscriberPeer(s)
         \/ \E u \in Users : ReleaseLeaver(u)
         \/ LeavePublishers \/ LeaveSubscribers
  PROVE  InHand' /\ TableStep
<1>1. \/ UNCHANGED <<held, peer, recv>>
      \/ \E ss \in SUBSET Slots : Release(ss) /\ UNCHANGED recv
  <2>1. ASSUME NEW pid \in Pids, ReleasePublisher(pid)
        PROVE  \/ UNCHANGED <<held, peer, recv>>
               \/ Release({PubSlot(pid)}) /\ UNCHANGED recv /\ {PubSlot(pid)} \subseteq Slots
    BY <2>1, SlotFacts DEF ReleasePublisher
  <2>2. ASSUME NEW pid \in Pids, ReleaseSubscribers(pid)
        PROVE  LET ss == {s \in SubSlots : s[2] = pid}
               IN  Release(ss) /\ UNCHANGED recv /\ ss \subseteq Slots
    BY <2>2, SlotFacts DEF ReleaseSubscribers
  <2>3. ASSUME NEW s \in SubSlots, ReleaseSubscriberPeer(s)
        PROVE  Release({s}) /\ UNCHANGED recv /\ {s} \subseteq Slots
    BY <2>3, SlotFacts DEF ReleaseSubscriberPeer
  <2>4. ASSUME NEW u \in Users, ReleaseLeaver(u)
        PROVE  \E ss \in SUBSET Slots : Release(ss) /\ UNCHANGED recv
    <3>1. PICK j \in jobs : j.job = "leftsubs" /\ Release({u} \X j.pids) /\ UNCHANGED recv
      BY <2>4 DEF ReleaseLeaver
    <3>2. j.pids \subseteq Pids  BY <3>1 DEF TInv, IInv, TypeOK, Jobs
    <3>3. ({u} \X j.pids) \subseteq Slots  BY <3>2 DEF Slots, SubSlots, Subs
    <3> QED  BY <3>1, <3>3
  <2>5. CASE LeavePublishers
    BY <2>5, SlotFacts DEF LeavePublishers
  <2>6. CASE LeaveSubscribers
    BY <2>6, SlotFacts DEF LeaveSubscribers
  <2> QED  BY <2>1, <2>2, <2>3, <2>4, <2>5, <2>6
<1> QED  BY <1>1, CalmTable, ReleaseTable

-----------------------------------------------------------------------------

LEMMA NextTable == ASSUME TInv, [Next]_vars PROVE InHand' /\ TableStep
<1>1. ASSUME NEW t \in Receivers, Receive(t) \/ Step(t) PROVE InHand' /\ TableStep
  BY <1>1, LookTable, ReplaceTable, InsertTable, ReadSdpTable, DropOldSubTable, FetchTable,
     AnswerTable, ApplyTable DEF Step
<1>2. ASSUME NEW p \in Peers, IceFails(p) \/ Callback(p) PROVE InHand' /\ TableStep
  BY <1>2, IceFailsTable, CalmTable DEF Callback
<1>3. ASSUME NEW pid \in Pids,
             OnIce(pid) \/ ReleasePublisher(pid) \/ ReleaseSubscribers(pid)
      PROVE  InHand' /\ TableStep
  BY <1>3, ReleasesTable, CalmTable DEF OnIce
<1>4. ASSUME NEW s \in SubSlots, ReleaseSubscriberPeer(s) PROVE InHand' /\ TableStep
  BY <1>4, ReleasesTable
<1>5. ASSUME NEW u \in Users, UserLeaves(u) \/ ListPublishers(u) \/ ReleaseLeaver(u)
      PROVE  InHand' /\ TableStep
  BY <1>5, ReleasesTable, CalmTable DEF UserLeaves, ListPublishers
<1>6. CASE LeavePublishers \/ LeaveSubscribers  BY <1>6, ReleasesTable
<1>7. CASE MapRace  BY <1>7, InHandPanic, TablePanic DEF MapRace, TInv, IInv
<1>8. CASE UNCHANGED vars  BY <1>8, CalmTable DEF vars
<1> QED  BY <1>1, <1>2, <1>3, <1>4, <1>5, <1>6, <1>7, <1>8 DEF Next

\* The session implements PeerTable: whatever commands, callbacks, releases and
\* DoLeave interleave (session.go), its maps change by opening a connection in a free
\* slot, by describing the one that is there in the order of offer and answer, and by
\* closing; given only that the commands about one slot come through one receiver.
THEOREM TableImplemented == Spec => KeepsTable
<1>1. Init => TInv /\ Table!Init
  <2>1. Init => InHand  BY DEF Init, InHand, InHandOK
  <2>2. ASSUME Init PROVE Table!Init
    <3>1. {s \in Slots : held[s] # Nil} = {}  BY <2>2 DEF Init
    <3> QED  BY <3>1 DEF Table!Init, Entries
  <2> QED  BY <2>1, <2>2, InitIInv DEF TInv
<1>2. TInv /\ [Next]_vars => TInv' /\ [Table!Next]_Entries
  BY NextIInv, NextTable DEF TInv, TableStep
<1> QED  BY <1>1, <1>2, PTL DEF Spec, KeepsTable, Table!Spec

=============================================================================
