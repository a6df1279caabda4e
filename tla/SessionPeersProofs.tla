------------------------- MODULE SessionPeersProofs -------------------------
(* Proofs about SessionPeers, for any sets of peer ids, users, pods, peer  *)
(* objects and receivers.                                                  *)
EXTENDS SessionPeers, TLAPS

\* Receiver t has a message of its own once it is past Receive; the peer it is
\* to replace or stop, if still open, is the one of its message's slot; and the
\* slot it is to insert into is free.
ReceiverOK(t) ==
  /\ pc[t] \notin {"idle", "dead"} => msg[t] \in Message /\ Owner[Slot(t)[1]] = t
  /\ pc[t] \in {"replace", "stop"}
       => /\ cur[t] \in Peers
          /\ peer[cur[t]].open => peer[cur[t]].slot = Slot(t)
  /\ pc[t] = "apply" => cur[t] \in Peers
  /\ pc[t] = "insert" => held[Slot(t)] = Nil

ReceiversOK == \A t \in Receivers : ReceiverOK(t)

IInv == TypeOK /\ PeersHeld /\ ReceiversOK

-----------------------------------------------------------------------------
(* Facts about slots and messages.                                         *)

LEMMA SlotFacts ==
  /\ \A s \in Slots : s[1] \in Subs \cup {Pub} /\ s[2] \in Pids
  /\ \A s, r \in Slots : s[1] = r[1] /\ s[2] = r[2] => s = r
  /\ PubSlots \subseteq Slots /\ SubSlots \subseteq Slots
  /\ \A pid \in Pids : PubSlot(pid) \in PubSlots
BY DEF Slots, PubSlots, SubSlots, PubSlot

\* A message is about a slot, and stopsub about a user's.
LEMMA MessageFacts ==
  \A m \in Message : /\ m.slot \in Slots
                     /\ m.cmd = "stopsub" => m.slot \in SubSlots
BY DEF Message, Slots, SubSlots, PubSlots, Subs, PubCommands

LEMMA BusyFacts ==
  ASSUME ReceiversOK, NEW t \in Receivers, pc[t] \notin {"idle", "dead"}
  PROVE  /\ msg[t] \in Message /\ Owner[Slot(t)[1]] = t
         /\ Slot(t) \in Slots /\ Pid(t) \in Pids
         /\ PubSlot(Pid(t)) \in Slots
         /\ Cmd(t) = "stopsub" => Slot(t) \in SubSlots
BY SlotFacts, MessageFacts DEF ReceiversOK, ReceiverOK, Slot, Pid, Cmd

\* The initial state, and the state a panic leaves.
LEMMA PanicStep == TypeOK /\ Panic => IInv'
<1> SUFFICES ASSUME TypeOK, Panic PROVE IInv'
  OBVIOUS
<1>1. TypeOK'
  BY DEF TypeOK, Panic, PC
<1>2. PeersHeld'
  BY DEF PeersHeld, Panic, Destroyed
<1>3. ReceiversOK'
  BY DEF ReceiversOK, ReceiverOK, Panic
<1> QED BY <1>1, <1>2, <1>3 DEF IInv

LEMMA InitIInv == Init => IInv
<1> SUFFICES ASSUME Init PROVE IInv
  OBVIOUS
<1>1. TypeOK
  BY DEF TypeOK, Init, PC
<1>2. PeersHeld
  BY DEF PeersHeld, Init, Destroyed
<1>3. ReceiversOK
  BY DEF ReceiversOK, ReceiverOK, Init
<1> QED BY <1>1, <1>2, <1>3 DEF IInv

\* The receivers that a step leaves alone stay as they should be, if it opens
\* no peer they point to, keeps the slots of those, and fills no slot they are
\* about to fill.
LEMMA OtherReceivers ==
  ASSUME ReceiversOK, NEW T \in SUBSET Receivers,
         \A t \in T : pc'[t] = pc[t] /\ msg'[t] = msg[t] /\ cur'[t] = cur[t],
         \A t \in T : cur[t] \in Peers /\ peer'[cur[t]].open
                        => peer[cur[t]].open /\ peer'[cur[t]].slot = peer[cur[t]].slot,
         \A t \in T : pc[t] = "insert" => held'[Slot(t)] = Nil
  PROVE  \A t \in T : ReceiverOK(t)'
BY DEF ReceiversOK, ReceiverOK, Slot

\* Destroying open peers.
LEMMA DestroyFacts ==
  ASSUME TypeOK, NEW ps \in SUBSET Peers, \A p \in ps : peer[p].open, Destroy(ps)
  PROVE  /\ peer' \in [Peers -> Peer \cup {Destroyed}]
         /\ calls' \subseteq Pids
         /\ \A p \in Peers : peer'[p] = IF p \in ps THEN Destroyed ELSE peer[p]
<1>1. \A p \in ps : peer[p] \in Peer
  BY DEF TypeOK, Destroyed
<1>2. {peer[p].slot[2] : p \in {q \in ps : peer[q].slot[1] = Pub}} \subseteq Pids
  <2>1. \A p \in ps : peer[p].slot \in Slots
    BY <1>1 DEF Peer
  <2> QED BY <2>1, SlotFacts
<1>3. calls' \subseteq Pids
  BY <1>2 DEF Destroy, TypeOK
<1>4. /\ peer' \in [Peers -> Peer \cup {Destroyed}]
      /\ \A p \in Peers : peer'[p] = IF p \in ps THEN Destroyed ELSE peer[p]
  BY DEF Destroy, TypeOK
<1> QED BY <1>3, <1>4

\* Releasing slots keeps what PeersHeld says.
LEMMA ReleaseFacts ==
  ASSUME TypeOK, PeersHeld, NEW ss \in SUBSET Slots, Release(ss)
  PROVE  /\ held' \in [Slots -> Peers \cup {Nil}]
         /\ peer' \in [Peers -> Peer \cup {Destroyed}]
         /\ calls' \subseteq Pids
         /\ PeersHeld'
         /\ \A s \in Slots : held'[s] = IF s \in ss THEN Nil ELSE held[s]
         /\ \A p \in Peers : peer'[p].open => peer'[p] = peer[p]
<1> DEFINE ps == {held[s] : s \in ss} \ {Nil}
<1>1. ps \subseteq Peers /\ \A p \in ps : peer[p].open
  BY DEF TypeOK, PeersHeld
<1>2. Destroy(ps)
  BY DEF Release
<1>3. /\ peer' \in [Peers -> Peer \cup {Destroyed}]
      /\ calls' \subseteq Pids
      /\ \A p \in Peers : peer'[p] = IF p \in ps THEN Destroyed ELSE peer[p]
  BY <1>1, <1>2, DestroyFacts
<1>4. /\ held' \in [Slots -> Peers \cup {Nil}]
      /\ \A s \in Slots : held'[s] = IF s \in ss THEN Nil ELSE held[s]
  BY DEF Release, TypeOK
<1>5. \A s \in Slots : held'[s] # Nil => peer'[held'[s]].open /\ peer'[held'[s]].slot = s
  <2> SUFFICES ASSUME NEW s \in Slots, held'[s] # Nil
               PROVE  peer'[held'[s]].open /\ peer'[held'[s]].slot = s
    OBVIOUS
  <2>1. s \notin ss /\ held'[s] = held[s] /\ held[s] \in Peers
    BY <1>4 DEF TypeOK
  <2>2. peer[held[s]].open /\ peer[held[s]].slot = s
    BY <2>1 DEF PeersHeld
  <2>3. held[s] \notin ps
    BY <2>1, <2>2 DEF PeersHeld
  <2> QED BY <1>3, <2>1, <2>2, <2>3
<1>6. \A p \in Peers : peer'[p].open => held'[peer'[p].slot] = p
  <2> SUFFICES ASSUME NEW p \in Peers, peer'[p].open PROVE held'[peer'[p].slot] = p
    OBVIOUS
  <2>1. p \notin ps /\ peer'[p] = peer[p]
    BY <1>3 DEF Destroyed
  <2>2. peer[p] \in Peer
    BY <2>1 DEF TypeOK, Destroyed
  <2>3. peer[p].slot \in Slots /\ held[peer[p].slot] = p
    BY <2>1, <2>2 DEF PeersHeld, Peer
  <2>4. peer[p].slot \notin ss
    BY <2>1, <2>3, NilAssumption
  <2> QED BY <1>4, <2>1, <2>3, <2>4
<1>7. \A p \in Peers : peer'[p].open => peer'[p] = peer[p]
  BY <1>3 DEF Destroyed
<1> QED BY <1>3, <1>4, <1>5, <1>6, <1>7 DEF PeersHeld


\* A step of receiver t that leaves the peers alone.
LEMMA QuietStep ==
  ASSUME IInv, TypeOK', UNCHANGED <<held, peer>>, NEW t \in Receivers,
         \A r \in Receivers \ {t} : pc'[r] = pc[r] /\ msg'[r] = msg[r] /\ cur'[r] = cur[r],
         ReceiverOK(t)'
  PROVE  IInv'
<1>1. PeersHeld'
  BY DEF IInv, PeersHeld
<1>2. \A r \in Receivers \ {t} : pc[r] = "insert" => held'[Slot(r)] = Nil
  BY DEF IInv, ReceiversOK, ReceiverOK
<1>3. \A r \in Receivers \ {t} : ReceiverOK(r)'
  BY <1>2, OtherReceivers DEF IInv
<1> QED BY <1>1, <1>3 DEF IInv, ReceiversOK

\* A step that touches neither peers nor receivers.
LEMMA CalmStep ==
  ASSUME IInv, TypeOK', UNCHANGED <<held, peer, recv>>
  PROVE  IInv'
BY DEF IInv, PeersHeld, ReceiversOK, ReceiverOK, Slot, recv

\* A goroutine, not a receiver, releases slots.
LEMMA ReleaseStep ==
  ASSUME IInv, NEW ss \in SUBSET Slots, Release(ss), UNCHANGED <<recv, failing, wedged>>,
         jobs' \subseteq Jobs, leave' \in {"no", "subs", "done"}
  PROVE  IInv'
<1>1. /\ held' \in [Slots -> Peers \cup {Nil}]
      /\ peer' \in [Peers -> Peer \cup {Destroyed}]
      /\ calls' \subseteq Pids
      /\ PeersHeld'
      /\ \A s \in Slots : held'[s] = IF s \in ss THEN Nil ELSE held[s]
      /\ \A p \in Peers : peer'[p].open => peer'[p] = peer[p]
  BY ReleaseFacts DEF IInv
<1>2. TypeOK'
  BY <1>1 DEF IInv, TypeOK, recv
<1>3. \A t \in Receivers : pc[t] = "insert" => held'[Slot(t)] = Nil
  BY <1>1, BusyFacts DEF IInv, ReceiversOK, ReceiverOK
<1>4. ReceiversOK'
  BY <1>1, <1>3, OtherReceivers DEF IInv, ReceiversOK, recv
<1> QED BY <1>1, <1>2, <1>4 DEF IInv

-----------------------------------------------------------------------------
(* One lemma per action, the receivers' first.                             *)

LEMMA ReceiveStep ==
  ASSUME IInv, NEW t \in Receivers, Receive(t) PROVE IInv'
<1>1. PICK m \in Message : Owner[m.slot[1]] = t /\ msg' = [msg EXCEPT ![t] = m]
  BY DEF Receive
<1>2. TypeOK'
  BY <1>1 DEF IInv, TypeOK, Receive, GoTo, PC
<1>3. ReceiverOK(t)'
  BY <1>1 DEF IInv, TypeOK, Receive, GoTo, ReceiverOK, Slot
<1> QED BY <1>1, <1>2, <1>3, QuietStep DEF Receive, GoTo, IInv, TypeOK

LEMMA LookPublishStep ==
  ASSUME IInv, NEW t \in Receivers, LookPublish(t) PROVE IInv'
<1> USE DEF LookPublish, GoTo
<1>1. msg[t] \in Message /\ Owner[Slot(t)[1]] = t /\ Slot(t) \in Slots
  BY BusyFacts DEF IInv
<1>2. TypeOK'
  BY <1>1 DEF IInv, TypeOK, PC
<1>3. held[Slot(t)] # Nil => held[Slot(t)] \in Peers /\ peer[held[Slot(t)]].slot = Slot(t)
  BY <1>1 DEF IInv, PeersHeld, TypeOK
<1>4. ReceiverOK(t)'
  BY <1>1, <1>3 DEF IInv, TypeOK, ReceiverOK, Slot
<1> QED BY <1>2, <1>4, QuietStep DEF IInv, TypeOK

\* A receiver destroys the peer it has in hand, which is open, and so deletes it
\* from its slot; it goes on to a step l with nothing in hand.
LEMMA DropCurrent ==
  ASSUME IInv, NEW t \in Receivers, pc[t] \in {"replace", "stop"}, peer[cur[t]].open,
         Destroy({cur[t]}), held' = [held EXCEPT ![Slot(t)] = Nil]
  PROVE  /\ held' \in [Slots -> Peers \cup {Nil}]
         /\ peer' \in [Peers -> Peer \cup {Destroyed}]
         /\ calls' \subseteq Pids
         /\ PeersHeld'
         /\ held'[Slot(t)] = Nil
         /\ \A s \in Slots : held[s] = Nil => held'[s] = Nil
         /\ \A p \in Peers : peer'[p].open => peer'[p] = peer[p]
<1>1. cur[t] \in Peers /\ peer[cur[t]].slot = Slot(t) /\ Slot(t) \in Slots
  BY BusyFacts DEF IInv, ReceiversOK, ReceiverOK
<1>2. held[Slot(t)] = cur[t]
  BY <1>1 DEF IInv, PeersHeld
<1>3. {held[s] : s \in {Slot(t)}} \ {Nil} = {cur[t]}
  BY <1>1, <1>2, NilAssumption
<1>4. held' = [s \in Slots |-> IF s \in {Slot(t)} THEN Nil ELSE held[s]]
  BY <1>1 DEF IInv, TypeOK
<1>5. Release({Slot(t)})
  BY <1>3, <1>4 DEF Release
<1> QED BY <1>1, <1>5, ReleaseFacts DEF IInv

LEMMA ReplaceStep ==
  ASSUME IInv, NEW t \in Receivers, Replace(t) PROVE IInv'
<1> USE DEF Replace
<1>1. CASE ~peer[cur[t]].open
  BY <1>1, PanicStep DEF IInv
<1>2. CASE peer[cur[t]].open
  <2>1. /\ held' \in [Slots -> Peers \cup {Nil}]
        /\ peer' \in [Peers -> Peer \cup {Destroyed}]
        /\ calls' \subseteq Pids
        /\ PeersHeld'
        /\ held'[Slot(t)] = Nil
        /\ \A s \in Slots : held[s] = Nil => held'[s] = Nil
        /\ \A p \in Peers : peer'[p].open => peer'[p] = peer[p]
    BY <1>2, DropCurrent
  <2>2. TypeOK'
    BY <1>2, <2>1 DEF IInv, TypeOK, PC, GoTo
  <2>3. \A r \in Receivers : pc[r] = "insert" => held'[Slot(r)] = Nil
    BY <2>1, BusyFacts DEF IInv, ReceiversOK, ReceiverOK
  <2>4. \A r \in Receivers \ {t} : pc'[r] = pc[r] /\ msg'[r] = msg[r] /\ cur'[r] = cur[r]
    BY <1>2 DEF GoTo, IInv, TypeOK
  <2>5. \A r \in Receivers \ {t} : ReceiverOK(r)'
    BY <2>1, <2>3, <2>4, OtherReceivers DEF IInv
  <2>6. ReceiverOK(t)'
    BY <1>2, <2>1, BusyFacts DEF GoTo, IInv, TypeOK, ReceiverOK, Slot
  <2> QED BY <2>1, <2>2, <2>5, <2>6 DEF IInv, ReceiversOK
<1> QED BY <1>1, <1>2

LEMMA StopPushStep ==
  ASSUME IInv, NEW t \in Receivers, StopPush(t) PROVE IInv'
<1> USE DEF StopPush
<1>1. CASE Panic
  BY <1>1, PanicStep DEF IInv
<1>2. CASE ~Panic
  <2>1. /\ held' \in [Slots -> Peers \cup {Nil}]
        /\ peer' \in [Peers -> Peer \cup {Destroyed}]
        /\ calls' \subseteq Pids
        /\ PeersHeld'
        /\ held'[Slot(t)] = Nil
        /\ \A s \in Slots : held[s] = Nil => held'[s] = Nil
        /\ \A p \in Peers : peer'[p].open => peer'[p] = peer[p]
    BY <1>2, DropCurrent
  <2>2. TypeOK'
    BY <1>2, <2>1 DEF IInv, TypeOK, PC, Return, GoTo
  <2>3. \A r \in Receivers : pc[r] = "insert" => held'[Slot(r)] = Nil
    BY <2>1, BusyFacts DEF IInv, ReceiversOK, ReceiverOK
  <2>4. \A r \in Receivers \ {t} : pc'[r] = pc[r] /\ msg'[r] = msg[r] /\ cur'[r] = cur[r]
    BY <1>2 DEF Return, GoTo, IInv, TypeOK
  <2>5. \A r \in Receivers \ {t} : ReceiverOK(r)'
    BY <2>1, <2>3, <2>4, OtherReceivers DEF IInv
  <2>6. ReceiverOK(t)'
    BY <1>2 DEF Return, GoTo, IInv, TypeOK, ReceiverOK
  <2> QED BY <2>1, <2>2, <2>5, <2>6 DEF IInv, ReceiversOK
<1> QED BY <1>1, <1>2


\* HandleMessage ends, the peers as they were.
LEMMA ReturnStep ==
  ASSUME IInv, NEW t \in Receivers, Return(t), jobs' \subseteq Jobs,
         UNCHANGED <<held, peer, failing, calls, leave, wedged>>
  PROVE  IInv'
<1>1. TypeOK'
  BY DEF IInv, TypeOK, Return, GoTo, PC
<1>2. ReceiverOK(t)'
  BY DEF IInv, TypeOK, Return, GoTo, ReceiverOK
<1> QED BY <1>1, <1>2, QuietStep DEF Return, GoTo, IInv, TypeOK

LEMMA CreateFailsStep ==
  ASSUME IInv, NEW t \in Receivers, CreateFails(t) PROVE IInv'
BY ReturnStep DEF CreateFails, IInv, TypeOK

\* The new peer's slot is free, and this receiver is the only one that may fill
\* it.
LEMMA InsertStep ==
  ASSUME IInv, NEW t \in Receivers, Insert(t) PROVE IInv'
<1>1. PICK p \in Peers :
        /\ Fresh(p)
        /\ peer' = [peer EXCEPT ![p] = NewPeer(Slot(t))]
        /\ held' = [held EXCEPT ![Slot(t)] = p]
        /\ \/ Cmd(t) = "publish" /\ Return(t)
           \/ /\ Cmd(t) # "publish"
              /\ cur' = [cur EXCEPT ![t] = p]
              /\ GoTo(t, "apply")
              /\ UNCHANGED <<msg, hasSdp>>
  BY DEF Insert
<1>2. /\ pc[t] = "insert" /\ UNCHANGED <<failing, calls, jobs, leave, wedged>>
      /\ msg[t] \in Message /\ Owner[Slot(t)[1]] = t /\ Slot(t) \in Slots
      /\ held[Slot(t)] = Nil
  BY BusyFacts DEF Insert, IInv, ReceiversOK, ReceiverOK
<1>3. NewPeer(Slot(t)) \in Peer /\ NewPeer(Slot(t)).open /\ NewPeer(Slot(t)).slot = Slot(t)
  BY <1>2 DEF NewPeer, Peer
<1>4. TypeOK'
  <2>1. /\ held' \in [Slots -> Peers \cup {Nil}]
        /\ peer' \in [Peers -> Peer \cup {Destroyed}]
    BY <1>1, <1>2, <1>3 DEF IInv, TypeOK
  <2>2. pc' \in [Receivers -> PC] /\ msg' \in [Receivers -> Message \cup {NoMsg}]
    BY <1>1 DEF IInv, TypeOK, Return, GoTo, PC
  <2>3. cur' \in [Receivers -> Peers \cup {Nil}] /\ hasSdp' \in [Receivers -> BOOLEAN]
    BY <1>1 DEF IInv, TypeOK, Return
  <2> QED BY <1>2, <2>1, <2>2, <2>3 DEF IInv, TypeOK
<1>5. PeersHeld'
  <2>1. \A s \in Slots : held'[s] # Nil => peer'[held'[s]].open /\ peer'[held'[s]].slot = s
    <3> SUFFICES ASSUME NEW s \in Slots, held'[s] # Nil
                 PROVE  peer'[held'[s]].open /\ peer'[held'[s]].slot = s
      OBVIOUS
    <3>1. CASE s = Slot(t)
      BY <1>1, <1>2, <1>3, <3>1 DEF IInv, TypeOK
    <3>2. CASE s # Slot(t)
      <4>1. held'[s] = held[s] /\ held[s] \in Peers
        BY <1>1, <1>2, <3>2 DEF IInv, TypeOK
      <4>2. peer[held[s]].open /\ peer[held[s]].slot = s
        BY <4>1 DEF IInv, PeersHeld
      <4>3. held[s] # p
        BY <1>1, <4>2 DEF Fresh
      <4> QED BY <1>1, <4>1, <4>2, <4>3 DEF IInv, TypeOK
    <3> QED BY <3>1, <3>2
  <2>2. \A q \in Peers : peer'[q].open => held'[peer'[q].slot] = q
    <3> SUFFICES ASSUME NEW q \in Peers, peer'[q].open PROVE held'[peer'[q].slot] = q
      OBVIOUS
    <3>1. CASE q = p
      BY <1>1, <1>2, <1>3, <3>1 DEF IInv, TypeOK
    <3>2. CASE q # p
      <4>1. peer'[q] = peer[q] /\ peer[q] \in Peer
        BY <1>1, <3>2 DEF IInv, TypeOK, Destroyed
      <4>2. peer[q].slot \in Slots /\ held[peer[q].slot] = q
        BY <4>1 DEF IInv, PeersHeld, Peer
      <4>3. peer[q].slot # Slot(t)
        BY <1>2, <4>2, NilAssumption
      <4> QED BY <1>1, <1>2, <4>1, <4>2, <4>3 DEF IInv, TypeOK
    <3> QED BY <3>1, <3>2
  <2> QED BY <2>1, <2>2 DEF PeersHeld
<1>6. \A r \in Receivers \ {t} : pc'[r] = pc[r] /\ msg'[r] = msg[r] /\ cur'[r] = cur[r]
  BY <1>1 DEF Return, GoTo, IInv, TypeOK
<1>7. \A r \in Receivers : cur[r] # p
  BY <1>1 DEF Fresh
<1>8. \A r \in Receivers \ {t} : cur[r] \in Peers => peer'[cur[r]] = peer[cur[r]]
  BY <1>1, <1>7 DEF IInv, TypeOK
<1>9. \A r \in Receivers \ {t} : pc[r] = "insert" => held'[Slot(r)] = Nil
  <2> SUFFICES ASSUME NEW r \in Receivers \ {t}, pc[r] = "insert" PROVE held'[Slot(r)] = Nil
    OBVIOUS
  <2>1. Slot(r) \in Slots /\ Owner[Slot(r)[1]] = r /\ held[Slot(r)] = Nil
    BY BusyFacts DEF IInv, ReceiversOK, ReceiverOK
  <2>2. Slot(r) # Slot(t)
    BY <1>2, <2>1
  <2> QED BY <1>1, <1>2, <2>1, <2>2 DEF IInv, TypeOK
<1>10. \A r \in Receivers \ {t} : ReceiverOK(r)'
  BY <1>6, <1>8, <1>9, OtherReceivers DEF IInv
<1>11. ReceiverOK(t)'
  BY <1>1, <1>2 DEF IInv, TypeOK, Return, GoTo, ReceiverOK, Slot
<1> QED BY <1>4, <1>5, <1>10, <1>11 DEF IInv, ReceiversOK

LEMMA LookStopStep ==
  ASSUME IInv, NEW t \in Receivers, LookStop(t) PROVE IInv'
<1> USE DEF LookStop
<1>1. CASE held[Slot(t)] = Nil
  BY <1>1, ReturnStep DEF IInv, TypeOK
<1>2. CASE held[Slot(t)] # Nil
  <2>1. msg[t] \in Message /\ Owner[Slot(t)[1]] = t /\ Slot(t) \in Slots
    BY BusyFacts DEF IInv
  <2>2. held[Slot(t)] \in Peers /\ peer[held[Slot(t)]].slot = Slot(t)
    BY <1>2, <2>1 DEF IInv, PeersHeld, TypeOK
  <2>3. TypeOK'
    BY <1>2, <2>2 DEF IInv, TypeOK, PC, GoTo
  <2>4. ReceiverOK(t)'
    BY <1>2, <2>1, <2>2 DEF IInv, TypeOK, ReceiverOK, Slot, GoTo
  <2> QED BY <1>2, <2>3, <2>4, QuietStep DEF IInv, TypeOK, GoTo
<1> QED BY <1>1, <1>2

\* A step that only moves on, to a place that asks for nothing but the message.
LEMMA MoveStep ==
  ASSUME IInv, NEW t \in Receivers, pc[t] \notin {"idle", "dead"},
         NEW l \in {"fetch", "sdp", "sublook", "subdrop"}, GoTo(t, l), TypeOK',
         UNCHANGED <<held, peer, msg, cur>>
  PROVE  IInv'
<1>1. msg[t] \in Message /\ Owner[Slot(t)[1]] = t
  BY BusyFacts DEF IInv
<1>2. ReceiverOK(t)'
  BY <1>1 DEF IInv, TypeOK, ReceiverOK, Slot, GoTo
<1> QED BY <1>2, QuietStep DEF IInv, TypeOK, GoTo

LEMMA LookSubStep ==
  ASSUME IInv, NEW t \in Receivers, LookSub(t) PROVE IInv'
<1> USE DEF LookSub
<1>1. CASE held[PubSlot(Pid(t))] = Nil
  BY <1>1, ReturnStep DEF IInv, TypeOK
<1>2. CASE held[PubSlot(Pid(t))] # Nil
  <2>1. TypeOK'
    BY <1>2 DEF IInv, TypeOK, GoTo, PC
  <2> QED BY <1>2, <2>1, MoveStep
<1> QED BY <1>1, <1>2

LEMMA ReadSdpStep ==
  ASSUME IInv, NEW t \in Receivers, ReadSdp(t) PROVE IInv'
<1> USE DEF ReadSdp
<1>1. CASE held[PubSlot(Pid(t))] = Nil
  BY <1>1, PanicStep DEF IInv
<1>2. CASE held[PubSlot(Pid(t))] # Nil
  <2>1. TypeOK'
    BY <1>2 DEF IInv, TypeOK, GoTo, PC
  <2> QED BY <1>2, <2>1, MoveStep
<1> QED BY <1>1, <1>2

LEMMA LookOldSubStep ==
  ASSUME IInv, NEW t \in Receivers, LookOldSub(t) PROVE IInv'
<1> USE DEF LookOldSub
<1>1. TypeOK'
  BY DEF IInv, TypeOK, GoTo, PC
<1>2. msg[t] \in Message /\ Owner[Slot(t)[1]] = t
  BY BusyFacts DEF IInv
<1>3. ReceiverOK(t)'
  BY <1>2 DEF IInv, TypeOK, ReceiverOK, Slot, GoTo
<1> QED BY <1>1, <1>3, QuietStep DEF IInv, TypeOK, GoTo

LEMMA DropOldSubStep ==
  ASSUME IInv, NEW t \in Receivers, DropOldSub(t) PROVE IInv'
<1> USE DEF DropOldSub
<1>1. CASE held[Slot(t)] = Nil
  BY <1>1, PanicStep DEF IInv
<1>2. CASE held[Slot(t)] # Nil
  <2>1. msg[t] \in Message /\ Owner[Slot(t)[1]] = t /\ Slot(t) \in Slots
    BY BusyFacts DEF IInv
  <2>2. /\ held' \in [Slots -> Peers \cup {Nil}]
        /\ peer' \in [Peers -> Peer \cup {Destroyed}]
        /\ calls' \subseteq Pids
        /\ PeersHeld'
        /\ \A s \in Slots : held'[s] = IF s \in {Slot(t)} THEN Nil ELSE held[s]
        /\ \A p \in Peers : peer'[p].open => peer'[p] = peer[p]
    BY <1>2, <2>1, ReleaseFacts DEF IInv
  <2>3. TypeOK'
    BY <1>2, <2>2 DEF IInv, TypeOK, PC, GoTo
  <2>4. \A r \in Receivers : pc[r] = "insert" => held'[Slot(r)] = Nil
    BY <2>2, BusyFacts DEF IInv, ReceiversOK, ReceiverOK
  <2>5. \A r \in Receivers \ {t} : pc'[r] = pc[r] /\ msg'[r] = msg[r] /\ cur'[r] = cur[r]
    BY <1>2 DEF GoTo, IInv, TypeOK
  <2>6. \A r \in Receivers \ {t} : ReceiverOK(r)'
    BY <2>2, <2>4, <2>5, OtherReceivers DEF IInv
  <2>7. ReceiverOK(t)'
    BY <1>2, <2>1, <2>2 DEF GoTo, IInv, TypeOK, ReceiverOK, Slot
  <2> QED BY <2>2, <2>3, <2>6, <2>7 DEF IInv, ReceiversOK
<1> QED BY <1>1, <1>2

LEMMA StopSubStep ==
  ASSUME IInv, NEW t \in Receivers, StopSub(t) PROVE IInv'
<1>1. Slot(t) \in SubSlots
  BY BusyFacts DEF StopSub, IInv
<1>2. jobs' \subseteq Jobs
  BY <1>1 DEF StopSub, Jobs, IInv, TypeOK
<1> QED BY <1>2, ReturnStep DEF StopSub

LEMMA LookOfferStep ==
  ASSUME IInv, NEW t \in Receivers, LookOffer(t) PROVE IInv'
<1> USE DEF LookOffer
<1>1. CASE held[Slot(t)] = Nil
  BY <1>1, ReturnStep DEF IInv, TypeOK
<1>2. CASE held[Slot(t)] # Nil
  <2>1. TypeOK'
    BY <1>2 DEF IInv, TypeOK, GoTo, PC
  <2> QED BY <1>2, <2>1, MoveStep
<1> QED BY <1>1, <1>2

LEMMA FetchStep ==
  ASSUME IInv, NEW t \in Receivers, Fetch(t) PROVE IInv'
<1> USE DEF Fetch
<1>1. CASE held[Slot(t)] = Nil
  BY <1>1, PanicStep DEF IInv
<1>2. CASE held[Slot(t)] # Nil
  <2>1. msg[t] \in Message /\ Owner[Slot(t)[1]] = t /\ Slot(t) \in Slots
    BY BusyFacts DEF IInv
  <2>2. held[Slot(t)] \in Peers
    BY <1>2, <2>1 DEF IInv, TypeOK
  <2>3. TypeOK'
    BY <1>2, <2>2 DEF IInv, TypeOK, PC, GoTo
  <2>4. ReceiverOK(t)'
    BY <1>2, <2>1, <2>2 DEF IInv, TypeOK, ReceiverOK, Slot, GoTo
  <2> QED BY <1>2, <2>3, <2>4, QuietStep DEF IInv, TypeOK, GoTo
<1> QED BY <1>1, <1>2


\* A receiver sets the descriptions of an open peer, and is done.
LEMMA SigStep ==
  ASSUME IInv, NEW t \in Receivers, NEW p \in Peers, peer[p].open,
         NEW s \in {"new", "offered", "stable"},
         peer' = [peer EXCEPT ![p].sig = s], Return(t),
         UNCHANGED <<held, failing, calls, jobs, leave, wedged>>
  PROVE  IInv'
<1>1. peer[p] \in Peer
  BY DEF IInv, TypeOK, Destroyed
<1>2. peer' \in [Peers -> Peer \cup {Destroyed}]
  BY <1>1 DEF IInv, TypeOK, Peer
<1>3. \A q \in Peers : /\ peer'[q].open <=> peer[q].open
                       /\ peer[q].open => peer'[q].slot = peer[q].slot
  BY <1>1 DEF IInv, TypeOK, Peer
<1>4. TypeOK'
  <2>1. pc' \in [Receivers -> PC] /\ msg' \in [Receivers -> Message \cup {NoMsg}]
    BY DEF IInv, TypeOK, Return, GoTo, PC
  <2>2. cur' \in [Receivers -> Peers \cup {Nil}] /\ hasSdp' \in [Receivers -> BOOLEAN]
    BY DEF IInv, TypeOK, Return
  <2> QED BY <1>2, <2>1, <2>2 DEF IInv, TypeOK
<1>5. PeersHeld'
  BY <1>3 DEF IInv, PeersHeld, TypeOK
<1>6. \A r \in Receivers \ {t} : pc'[r] = pc[r] /\ msg'[r] = msg[r] /\ cur'[r] = cur[r]
  BY DEF Return, GoTo, IInv, TypeOK
<1>7. \A r \in Receivers \ {t} : pc[r] = "insert" => held'[Slot(r)] = Nil
  BY DEF IInv, ReceiversOK, ReceiverOK
<1>8. \A r \in Receivers \ {t} : ReceiverOK(r)'
  BY <1>3, <1>6, <1>7, OtherReceivers DEF IInv
<1>9. ReceiverOK(t)'
  BY DEF IInv, TypeOK, Return, GoTo, ReceiverOK
<1> QED BY <1>4, <1>5, <1>8, <1>9 DEF IInv, ReceiversOK

\* The peers' own handlers.
LEMMA ApplySteps ==
  ASSUME IInv, NEW t \in Receivers,
         \/ HandleSubscribe(t) \/ HandleFakeSubscribe(t)
         \/ HandleRemoteOffer(t) \/ HandleFakeOffer(t)
  PROVE  IInv'
<1>1. \/ Panic
      \/ \E s \in {"offered", "stable"} : SetDescriptions(t, s)
  BY DEF HandleSubscribe, HandleFakeSubscribe, HandleRemoteOffer, HandleFakeOffer
<1>2. CASE Panic
  BY <1>2, PanicStep DEF IInv
<1>3. ASSUME NEW s \in {"offered", "stable"}, SetDescriptions(t, s) PROVE IInv'
  <2>1. pc[t] = "apply"
    BY DEF HandleSubscribe, HandleFakeSubscribe, HandleRemoteOffer, HandleFakeOffer
  <2>2. cur[t] \in Peers
    BY <2>1 DEF IInv, ReceiversOK, ReceiverOK
  <2> QED BY <1>3, <2>2, SigStep DEF SetDescriptions
<1> QED BY <1>1, <1>2, <1>3

LEMMA AnswerStep ==
  ASSUME IInv, NEW t \in Receivers, Answer(t) PROVE IInv'
<1> USE DEF Answer
<1>1. CASE held[Slot(t)] = Nil
  BY <1>1, ReturnStep DEF IInv, TypeOK
<1>2. CASE held[Slot(t)] # Nil /\ Panic
  BY <1>2, PanicStep DEF IInv
<1>3. CASE held[Slot(t)] # Nil /\ ~Panic
  <2>1. Slot(t) \in Slots
    BY BusyFacts DEF IInv
  <2>2. held[Slot(t)] \in Peers /\ peer[held[Slot(t)]].open
    BY <1>3, <2>1 DEF IInv, TypeOK, PeersHeld
  <2> QED BY <1>3, <2>2, SigStep DEF HandleRemoteAnswer
<1> QED BY <1>1, <1>2, <1>3

-----------------------------------------------------------------------------
(* Callbacks, goroutines and DoLeave.                                      *)

LEMMA IceFailsStep ==
  ASSUME IInv, NEW p \in Peers, IceFails(p) PROVE IInv'
<1> USE DEF IceFails
<1>1. peer[p] \in Peer
  BY DEF IInv, TypeOK, Destroyed
<1>2. peer' \in [Peers -> Peer \cup {Destroyed}]
  BY <1>1 DEF IInv, TypeOK, Peer
<1>3. \A q \in Peers : /\ peer'[q].open <=> peer[q].open
                       /\ peer[q].open => peer'[q].slot = peer[q].slot
  BY <1>1 DEF IInv, TypeOK, Peer
<1>4. TypeOK'
  BY <1>2 DEF IInv, TypeOK, recv
<1>5. PeersHeld'
  BY <1>3 DEF IInv, PeersHeld, TypeOK
<1>6. \A r \in Receivers : pc[r] = "insert" => held'[Slot(r)] = Nil
  BY DEF IInv, ReceiversOK, ReceiverOK
<1>7. ReceiversOK'
  BY <1>3, <1>6, OtherReceivers DEF IInv, ReceiversOK, recv
<1> QED BY <1>4, <1>5, <1>7 DEF IInv

LEMMA CallbackStep ==
  ASSUME IInv, NEW p \in Peers, Callback(p) PROVE IInv'
<1>1. peer[p].open => peer[p].slot[2] \in Pids
  <2> SUFFICES ASSUME peer[p].open PROVE peer[p].slot[2] \in Pids
    OBVIOUS
  <2>1. peer[p] \in Peer
    BY DEF IInv, TypeOK, Destroyed
  <2>2. peer[p].slot \in Slots
    BY <2>1 DEF Peer
  <2> QED BY <2>2, SlotFacts
<1>2. TypeOK'
  BY <1>1 DEF IInv, TypeOK, Callback, recv
<1> QED BY <1>2, CalmStep DEF Callback

LEMMA OnIceStep ==
  ASSUME IInv, NEW pid \in Pids, OnIce(pid) PROVE IInv'
<1>1. [job |-> "relpub", pid |-> pid] \in Jobs
  BY DEF Jobs
<1>2. TypeOK'
  BY <1>1 DEF IInv, TypeOK, OnIce, recv
<1> QED BY <1>2, CalmStep DEF OnIce

LEMMA ReleasePublisherStep ==
  ASSUME IInv, NEW pid \in Pids, ReleasePublisher(pid) PROVE IInv'
<1> USE DEF ReleasePublisher
<1>1. CASE leave = "done"
  <2>1. TypeOK'
    BY <1>1 DEF IInv, TypeOK, recv
  <2> QED BY <1>1, <2>1, CalmStep
<1>2. CASE leave # "done"
  <2>1. [job |-> "relsubs", pid |-> pid] \in Jobs
    BY DEF Jobs
  <2>2. jobs' \subseteq Jobs /\ leave' \in {"no", "subs", "done"}
    BY <1>2, <2>1 DEF IInv, TypeOK
  <2>3. {PubSlot(pid)} \subseteq Slots
    BY SlotFacts
  <2> QED BY <1>2, <2>2, <2>3, ReleaseStep
<1> QED BY <1>1, <1>2

LEMMA ReleaseSubscribersStep ==
  ASSUME IInv, NEW pid \in Pids, ReleaseSubscribers(pid) PROVE IInv'
<1>1. jobs' \subseteq Jobs /\ leave' \in {"no", "subs", "done"}
  BY DEF IInv, TypeOK, ReleaseSubscribers
<1>2. {s \in SubSlots : s[2] = pid} \subseteq Slots
  BY SlotFacts
<1> QED BY <1>1, <1>2, ReleaseStep DEF ReleaseSubscribers

LEMMA ReleaseSubscriberPeerStep ==
  ASSUME IInv, NEW s \in SubSlots, ReleaseSubscriberPeer(s) PROVE IInv'
<1>1. jobs' \subseteq Jobs /\ leave' \in {"no", "subs", "done"}
  BY DEF IInv, TypeOK, ReleaseSubscriberPeer
<1>2. {s} \subseteq Slots
  BY SlotFacts
<1> QED BY <1>1, <1>2, ReleaseStep DEF ReleaseSubscriberPeer

LEMMA UserLeavesStep ==
  ASSUME IInv, NEW u \in Users, UserLeaves(u) PROVE IInv'
<1>1. [job |-> "left", user |-> u] \in Jobs
  BY DEF Jobs
<1>2. TypeOK'
  BY <1>1 DEF IInv, TypeOK, UserLeaves, recv
<1> QED BY <1>2, CalmStep DEF UserLeaves

LEMMA ListPublishersStep ==
  ASSUME IInv, NEW u \in Users, ListPublishers(u) PROVE IInv'
<1> DEFINE now == {pid \in Pids : held[PubSlot(pid)] # Nil}
<1>1. [job |-> "leftsubs", user |-> u, pids |-> now] \in Jobs
  BY DEF Jobs
<1>2. jobs' \subseteq Jobs
  BY <1>1 DEF IInv, TypeOK, ListPublishers
<1>3. TypeOK'
  BY <1>2 DEF IInv, TypeOK, ListPublishers, recv
<1> QED BY <1>3, CalmStep DEF ListPublishers

LEMMA ReleaseLeaverStep ==
  ASSUME IInv, NEW u \in Users, ReleaseLeaver(u) PROVE IInv'
<1>1. PICK j \in jobs : /\ j.job = "leftsubs" /\ jobs' = jobs \ {j}
                        /\ Release({u} \X j.pids)
                        /\ UNCHANGED <<recv, failing, leave, wedged>>
  BY DEF ReleaseLeaver
<1>2. j.pids \subseteq Pids
  BY <1>1 DEF IInv, TypeOK, Jobs
<1>3. ({u} \X j.pids) \subseteq Slots
  BY <1>2 DEF Slots, SubSlots, Subs
<1>4. jobs' \subseteq Jobs /\ leave' \in {"no", "subs", "done"}
  BY <1>1 DEF IInv, TypeOK
<1> QED BY <1>1, <1>3, <1>4, ReleaseStep

LEMMA LeaveSteps ==
  ASSUME IInv, LeavePublishers \/ LeaveSubscribers PROVE IInv'
<1>1. jobs' \subseteq Jobs /\ leave' \in {"no", "subs", "done"}
  BY DEF IInv, TypeOK, LeavePublishers, LeaveSubscribers
<1>2. PubSlots \subseteq Slots /\ SubSlots \subseteq Slots
  BY SlotFacts
<1>3. CASE LeavePublishers
  BY <1>1, <1>2, <1>3, ReleaseStep DEF LeavePublishers
<1>4. CASE LeaveSubscribers
  BY <1>1, <1>2, <1>4, ReleaseStep DEF LeaveSubscribers
<1> QED BY <1>3, <1>4

-----------------------------------------------------------------------------

LEMMA NextIInv == IInv /\ [Next]_vars => IInv'
<1> SUFFICES ASSUME IInv, [Next]_vars PROVE IInv'
  OBVIOUS
<1>1. ASSUME NEW t \in Receivers, Receive(t) PROVE IInv'
  BY <1>1, ReceiveStep
<1>2. ASSUME NEW t \in Receivers, Step(t) PROVE IInv'
  BY <1>2, LookPublishStep, ReplaceStep, CreateFailsStep, InsertStep, LookStopStep,
     StopPushStep, LookSubStep, ReadSdpStep, LookOldSubStep, DropOldSubStep,
     StopSubStep, LookOfferStep, FetchStep, AnswerStep, ApplySteps DEF Step
<1>3. ASSUME NEW p \in Peers, IceFails(p) \/ Callback(p) PROVE IInv'
  BY <1>3, IceFailsStep, CallbackStep
<1>4. ASSUME NEW pid \in Pids,
             OnIce(pid) \/ ReleasePublisher(pid) \/ ReleaseSubscribers(pid)
      PROVE  IInv'
  BY <1>4, OnIceStep, ReleasePublisherStep, ReleaseSubscribersStep
<1>5. ASSUME NEW s \in SubSlots, ReleaseSubscriberPeer(s) PROVE IInv'
  BY <1>5, ReleaseSubscriberPeerStep
<1>6. ASSUME NEW u \in Users, UserLeaves(u) \/ ListPublishers(u) \/ ReleaseLeaver(u)
      PROVE  IInv'
  BY <1>6, UserLeavesStep, ListPublishersStep, ReleaseLeaverStep
<1>7. CASE LeavePublishers \/ LeaveSubscribers
  BY <1>7, LeaveSteps
<1>8. CASE MapRace
  BY <1>8, PanicStep DEF MapRace, IInv
<1>9. CASE UNCHANGED vars
  <2>1. TypeOK'
    BY <1>9 DEF IInv, TypeOK, vars, recv
  <2> QED BY <1>9, <2>1, CalmStep DEF vars
<1> QED BY <1>1, <1>2, <1>3, <1>4, <1>5, <1>6, <1>7, <1>8, <1>9 DEF Next

\* A peer connection is open exactly while the session's map holds it under its
\* key, whatever commands, callbacks, releases and DoLeave interleave
\* (session.go, peer.Destroy): given only that the commands about one slot come
\* through one receiver.
THEOREM PeersHeldHolds == Spec => []PeersHeld
<1>1. Init => IInv
  BY InitIInv
<1>2. IInv /\ [Next]_vars => IInv'
  BY NextIInv
<1>3. IInv => PeersHeld
  BY DEF IInv
<1> QED BY <1>1, <1>2, <1>3, PTL DEF Spec

\* The types of SessionPeers are kept by every step of HandleMessage, the
\* callbacks and the release goroutines, and a receiver about to insert a peer
\* finds its slot free.
THEOREM SessionPeersTyped == Spec => [](TypeOK /\ ReceiversOK)
<1>1. Init => IInv
  BY InitIInv
<1>2. IInv /\ [Next]_vars => IInv'
  BY NextIInv
<1>3. IInv => TypeOK /\ ReceiversOK
  BY DEF IInv
<1> QED BY <1>1, <1>2, <1>3, PTL DEF Spec

=============================================================================
