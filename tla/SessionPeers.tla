---------------------------- MODULE SessionPeers ----------------------------
(* One session's peers (session.go, peer.go): the maps of publisher and    *)
(* subscriber peers, as they are changed by the receivers that hand the    *)
(* session its commands, by the ICE callbacks of the peer connections, and *)
(* by the goroutines that release peers or make the session leave.         *)
(*                                                                         *)
(* A slot is a key of one of the two maps: <<Pub, pid>> of publishers,     *)
(* <<w, pid>> of subscribers, where w is a subscribing user or, for        *)
(* fakesubscribe, another pod (the key concatenates the names; distinct    *)
(* slots are taken to have distinct keys).  A critical section of pubsmux  *)
(* or subsmux is one step; the reads made outside them are steps of their  *)
(* own.  Media is left out, signalling but for whether a peer's            *)
(* descriptions are set, and so are the messages sent to clients.          *)
EXTENDS Naturals

CONSTANTS
  Pids,        \* peer ids
  Users, Pods, \* who may subscribe: users, and other pods (fakesubscribe)
  Pub,         \* marks the slots of the publishers map
  Peers,       \* the addresses of peer objects
  Receivers,   \* goroutines that run HandleMessage
  Owner,       \* the receiver that the commands about a slot come through
  Commands,    \* the commands this kind of session is sent
  Nil

Subs == Users \cup Pods
PubSlots == {Pub} \X Pids
SubSlots == Subs \X Pids
Slots == PubSlots \cup SubSlots
PubSlot(pid) == <<Pub, pid>>

PubCommands == {"publish", "stoppush", "offer", "fakeoffer"}
SubCommands == {"sub", "stopsub", "answer"}

ASSUME PubAssumption == Pub \notin Subs
ASSUME NilAssumption == Nil \notin Peers
ASSUME OwnerAssumption == Owner \in [Subs \cup {Pub} -> Receivers]
ASSUME CommandsAssumption == Commands \subseteq PubCommands \cup SubCommands

\* open: exitCh and the connection are open; sig: the session descriptions, none,
\* the local offer only, or both; failed: ICE has reported a failure.  Nothing
\* but open is read of a peer that has been destroyed.
Peer == [open: {TRUE}, slot: Slots, failed: BOOLEAN,
         sig: {"new", "offered", "stable"}]
Destroyed == [open |-> FALSE]

\* "sub" and "answer" of a pod are fakesubscribe and fakeanswer.
Message == [cmd: PubCommands \cap Commands, slot: PubSlots]
           \cup [cmd: {"sub", "answer"} \cap Commands, slot: SubSlots]
           \cup [cmd: {"stopsub"} \cap Commands, slot: Users \X Pids]
NoMsg == [cmd |-> "none"]

PC == {"idle", "look", "replace", "stop", "fetch", "apply", "sdp", "sublook",
       "subdrop", "insert", "dead"}

\* The goroutines that release peers, by what they have still to do:
\* ReleasePublisher in its two critical sections, ReleaseSubscriberPeer, and
\* HandleSubscriberLeaved before and after it has listed the publishers.
Jobs == [job: {"relpub", "relsubs"}, pid: Pids]
        \cup [job: {"relsub"}, slot: SubSlots]
        \cup [job: {"left"}, user: Users]
        \cup [job: {"leftsubs"}, user: Users, pids: SUBSET Pids]

VARIABLES
  held,      \* slot -> peer in the session's map, or nil
  peer,      \* peer object -> its fields
  pc, msg,   \* receiver -> step of HandleMessage, message in hand
  cur,       \* receiver -> peer pointer in hand
  hasSdp,    \* receiver -> the publisher it read has a local description
  failing,   \* publishers whose "failed" callback has not run yet
  calls,     \* pids with an OnIceFailed or OnIceClosed call past the nil check
  jobs,      \* release goroutines under way
  leave,     \* progress of DoLeave: "no", "subs" (publishers done), "done"
  wedged     \* pubsmux is write-locked for ever

recv == <<pc, msg, cur, hasSdp>>
vars == <<held, peer, recv, failing, calls, jobs, leave, wedged>>

TypeOK ==
  /\ held \in [Slots -> Peers \cup {Nil}]
  /\ peer \in [Peers -> Peer \cup {Destroyed}]
  /\ pc \in [Receivers -> PC]
  /\ msg \in [Receivers -> Message \cup {NoMsg}]
  /\ cur \in [Receivers -> Peers \cup {Nil}]
  /\ hasSdp \in [Receivers -> BOOLEAN]
  /\ failing \subseteq Peers
  /\ calls \subseteq Pids
  /\ jobs \subseteq Jobs
  /\ leave \in {"no", "subs", "done"}
  /\ wedged \in BOOLEAN

NewPeer(s) == [open |-> TRUE, slot |-> s, failed |-> FALSE, sig |-> "new"]

\* The session is in its room and has no peers yet.
Init ==
  /\ held = [s \in Slots |-> Nil]
  /\ peer = [p \in Peers |-> Destroyed]
  /\ pc = [t \in Receivers |-> "idle"]
  /\ msg = [t \in Receivers |-> NoMsg]
  /\ cur = [t \in Receivers |-> Nil]
  /\ hasSdp = [t \in Receivers |-> FALSE]
  /\ failing = {} /\ calls = {} /\ jobs = {}
  /\ leave = "no" /\ wedged = FALSE

Crashed == \E t \in Receivers : pc[t] = "dead"

-----------------------------------------------------------------------------
(* Helpers.                                                                *)

Cmd(t) == msg[t].cmd
Slot(t) == msg[t].slot
Pid(t) == Slot(t)[2]

\* An address that no pointer refers to any more.
Fresh(p) == /\ ~peer[p].open
            /\ \A t \in Receivers : cur[t] # p
            /\ p \notin failing

GoTo(t, l) == pc' = [pc EXCEPT ![t] = l]

\* End of HandleMessage.
Return(t) == /\ GoTo(t, "idle")
             /\ msg' = [msg EXCEPT ![t] = NoMsg]
             /\ cur' = [cur EXCEPT ![t] = Nil]
             /\ hasSdp' = [hasSdp EXCEPT ![t] = FALSE]

\* A panic ends the process: a nil dereference, a second close(exitCh), an
\* explicit panic(err), or a fatal error of the runtime.
Panic ==
  /\ held' = [s \in Slots |-> Nil]
  /\ peer' = [p \in Peers |-> Destroyed]
  /\ pc' = [t \in Receivers |-> "dead"]
  /\ msg' = [t \in Receivers |-> NoMsg]
  /\ cur' = [t \in Receivers |-> Nil]
  /\ hasSdp' = [t \in Receivers |-> FALSE]
  /\ failing' = {} /\ calls' = {} /\ jobs' = {}
  /\ UNCHANGED <<leave, wedged>>

\* peer.Destroy of ps, all open: exitCh and the connections are closed.  pion
\* reports "closed" from a goroutine of its own, which may pass the callback's
\* nil check before peerConnection is set to nil; a publisher's then goes on to
\* OnIceClosed.
Destroy(ps) ==
  /\ peer' = [p \in Peers |-> IF p \in ps THEN Destroyed ELSE peer[p]]
  /\ \E c \in SUBSET {peer[p].slot[2] : p \in {q \in ps : peer[q].slot[1] = Pub}} :
       calls' = calls \cup c

\* The peers in the slots ss are destroyed and deleted from their map.
Release(ss) ==
  /\ Destroy({held[s] : s \in ss} \ {Nil})
  /\ held' = [s \in Slots |-> IF s \in ss THEN Nil ELSE held[s]]

-----------------------------------------------------------------------------
(* session.HandleMessage, in a receiver's goroutine.                       *)

\* room.HandleMessage has found this session and calls it.  (What it finds between the
\* end of DoLeave and its delete from the room may as well have been found before: it
\* has yet to be handled.)
Receive(t) ==
  /\ pc[t] = "idle" /\ leave # "done"
  /\ \E m \in Message : /\ Owner[m.slot[1]] = t
                        /\ msg' = [msg EXCEPT ![t] = m]
  /\ GoTo(t, "look")
  /\ UNCHANGED <<held, peer, cur, hasSdp, failing, calls, jobs, leave, wedged>>

\* publish, fakeoffer: the publisher to replace is read without the lock.
LookPublish(t) ==
  /\ pc[t] = "look" /\ Cmd(t) \in {"publish", "fakeoffer"}
  /\ cur' = [cur EXCEPT ![t] = held[Slot(t)]]
  /\ GoTo(t, IF held[Slot(t)] = Nil THEN "insert" ELSE "replace")
  /\ UNCHANGED <<held, peer, msg, hasSdp, failing, calls, jobs, leave, wedged>>

\* The peer that was read is destroyed, under the lock: a second close(exitCh)
\* if it has been released since.
Replace(t) ==
  /\ pc[t] = "replace" /\ ~wedged
  /\ \/ ~peer[cur[t]].open /\ Panic
     \/ /\ peer[cur[t]].open
        /\ Destroy({cur[t]})
        /\ held' = [held EXCEPT ![Slot(t)] = Nil]
        /\ GoTo(t, "insert")
        /\ cur' = [cur EXCEPT ![t] = Nil]
        /\ UNCHANGED <<msg, hasSdp, failing, jobs, leave, wedged>>

\* CreatePublishPeer or CreateSubscribePeer returns an error.
CreateFails(t) ==
  /\ pc[t] = "insert"
  /\ Return(t)
  /\ UNCHANGED <<held, peer, failing, calls, jobs, leave, wedged>>

\* Mutant: the new peer records its peer id for its key.
Insert_KeyIsPid(t) ==
  /\ pc[t] = "insert"
  /\ Cmd(t) # "sub" => ~wedged
  /\ \E p \in Peers :
       /\ Fresh(p)
       /\ peer' = [peer EXCEPT ![p] = NewPeer(Pid(t))]
       /\ held' = [held EXCEPT ![Slot(t)] = p]
  /\ Return(t)
  /\ UNCHANGED <<failing, calls, jobs, leave, wedged>>

\* A new peer is put in the map.  publish is done then; sub and fakeoffer go on
\* to the peer's own handler.
Insert(t) ==
  /\ pc[t] = "insert"
  /\ Cmd(t) # "sub" => ~wedged
  /\ \E p \in Peers :
       /\ Fresh(p)
       /\ peer' = [peer EXCEPT ![p] = NewPeer(Slot(t))]
       /\ held' = [held EXCEPT ![Slot(t)] = p]
       /\ \/ Cmd(t) = "publish" /\ Return(t)
          \/ /\ Cmd(t) # "publish"
             /\ cur' = [cur EXCEPT ![t] = p]
             /\ GoTo(t, "apply")
             /\ UNCHANGED <<msg, hasSdp>>
  /\ UNCHANGED <<failing, calls, jobs, leave, wedged>>

\* stoppush: as for publish, the publisher is read without the lock.
LookStop(t) ==
  /\ pc[t] = "look" /\ Cmd(t) = "stoppush"
  /\ \/ held[Slot(t)] = Nil /\ Return(t)
     \/ /\ held[Slot(t)] # Nil
        /\ cur' = [cur EXCEPT ![t] = held[Slot(t)]]
        /\ GoTo(t, "stop")
        /\ UNCHANGED <<msg, hasSdp>>
  /\ UNCHANGED <<held, peer, failing, calls, jobs, leave, wedged>>

\* Lock, destroy, delete, then RUnlock where Unlock was meant.  That is a fatal
\* error, unless a reader waits: then the count of readers lets it pass, and
\* the write lock is never given back.  There may always be a reader: callbacks, other
\* commands, logins that ask for the publishers, application data.
StopPush(t) ==
  /\ pc[t] = "stop" /\ ~wedged
  /\ \/ Panic
     \/ /\ peer[cur[t]].open
        /\ Destroy({cur[t]})
        /\ held' = [held EXCEPT ![Slot(t)] = Nil]
        /\ wedged' = TRUE
        /\ Return(t)
        /\ UNCHANGED <<failing, jobs, leave>>

\* sub, fakesubscribe: is the stream published?
LookSub(t) ==
  /\ pc[t] = "look" /\ Cmd(t) = "sub"
  /\ \/ held[PubSlot(Pid(t))] = Nil /\ Return(t)
     \/ held[PubSlot(Pid(t))] # Nil /\ GoTo(t, "sdp") /\ UNCHANGED <<msg, cur, hasSdp>>
  /\ UNCHANGED <<held, peer, failing, calls, jobs, leave, wedged>>

\* The publisher is looked up again, under the lock, for its description and
\* codecs: a nil dereference if it has gone since.
ReadSdp(t) ==
  LET p == held[PubSlot(Pid(t))]
  IN /\ pc[t] = "sdp" /\ ~wedged
     /\ \/ p = Nil /\ Panic
        \/ /\ p # Nil
           /\ hasSdp' = [hasSdp EXCEPT ![t] = peer[p].sig = "stable"]
           /\ GoTo(t, "sublook")
           /\ UNCHANGED <<held, peer, msg, cur, failing, calls, jobs, leave, wedged>>

\* Mutant: a second sub does not look for the first.
LookOldSub_Skipped(t) ==
  /\ pc[t] = "sublook"
  /\ GoTo(t, "insert")
  /\ UNCHANGED <<held, peer, msg, cur, hasSdp, failing, calls, jobs, leave, wedged>>

\* Is the user subscribed already?
LookOldSub(t) ==
  /\ pc[t] = "sublook"
  /\ GoTo(t, IF held[Slot(t)] = Nil THEN "insert" ELSE "subdrop")
  /\ UNCHANGED <<held, peer, msg, cur, hasSdp, failing, calls, jobs, leave, wedged>>

\* The old subscription is looked up again and destroyed, under the lock.
DropOldSub(t) ==
  /\ pc[t] = "subdrop"
  /\ \/ held[Slot(t)] = Nil /\ Panic
     \/ /\ held[Slot(t)] # Nil
        /\ Release({Slot(t)})
        /\ GoTo(t, "insert")
        /\ UNCHANGED <<msg, cur, hasSdp, failing, jobs, leave, wedged>>

\* stopsub: if subscribed, go ReleaseSubscriberPeer.
StopSub(t) ==
  /\ pc[t] = "look" /\ Cmd(t) = "stopsub"
  /\ jobs' = IF held[Slot(t)] = Nil THEN jobs
             ELSE jobs \cup {[job |-> "relsub", slot |-> Slot(t)]}
  /\ Return(t)
  /\ UNCHANGED <<held, peer, failing, calls, leave, wedged>>

\* offer: it is subsmux that is held here, so the publishers map is read twice
\* without its lock.
LookOffer(t) ==
  /\ pc[t] = "look" /\ Cmd(t) = "offer"
  /\ \/ held[Slot(t)] = Nil /\ Return(t)
     \/ held[Slot(t)] # Nil /\ GoTo(t, "fetch") /\ UNCHANGED <<msg, cur, hasSdp>>
  /\ UNCHANGED <<held, peer, failing, calls, jobs, leave, wedged>>

Fetch(t) ==
  /\ pc[t] = "fetch"
  /\ \/ held[Slot(t)] = Nil /\ Panic
     \/ /\ held[Slot(t)] # Nil
        /\ cur' = [cur EXCEPT ![t] = held[Slot(t)]]
        /\ GoTo(t, "apply")
        /\ UNCHANGED <<held, peer, msg, hasSdp, failing, calls, jobs, leave, wedged>>

\* The peer's own handlers, on the connection of the peer in hand: a panic if it
\* has been destroyed meanwhile.
SetDescriptions(t, s) ==
  /\ peer[cur[t]].open
  /\ peer' = [peer EXCEPT ![cur[t]].sig = s]
  /\ Return(t)
  /\ UNCHANGED <<held, failing, calls, jobs, leave, wedged>>

\* An offer is made from the publisher's description: a panic if that is nil.
HandleSubscribe(t) ==
  /\ pc[t] = "apply" /\ Cmd(t) = "sub" /\ Slot(t)[1] \in Users
  /\ \/ hasSdp[t] /\ SetDescriptions(t, "offered")
     \/ ~(hasSdp[t] /\ peer[cur[t]].open) /\ Panic

HandleFakeSubscribe(t) ==
  /\ pc[t] = "apply" /\ Cmd(t) = "sub" /\ Slot(t)[1] \in Pods
  /\ \/ hasSdp[t] /\ SetDescriptions(t, "offered")
     \/ ~(hasSdp[t] /\ peer[cur[t]].open) /\ Panic

\* The offer is set as the remote description, an answer as the local one.
HandleRemoteOffer(t) ==
  /\ pc[t] = "apply" /\ Cmd(t) = "offer"
  /\ \/ SetDescriptions(t, "stable")
     \/ ~peer[cur[t]].open /\ Panic

HandleFakeOffer(t) ==
  /\ pc[t] = "apply" /\ Cmd(t) = "fakeoffer"
  /\ \/ SetDescriptions(t, "stable")
     \/ ~peer[cur[t]].open /\ Panic

\* An answer to no outstanding offer is an error of SetRemoteDescription, hence a
\* panic.
HandleRemoteAnswer(t, p) ==
  \/ peer[p].sig # "offered" /\ Panic
  \/ /\ peer[p].sig = "offered"
     /\ peer' = [peer EXCEPT ![p].sig = "stable"]
     /\ Return(t)
     /\ UNCHANGED <<held, failing, calls, jobs, leave, wedged>>

\* answer, fakeanswer, all of it under subsmux.
Answer(t) ==
  LET p == held[Slot(t)]
  IN /\ pc[t] = "look" /\ Cmd(t) = "answer"
     /\ \/ p = Nil /\ Return(t) /\ UNCHANGED <<held, peer, failing, calls, jobs, leave, wedged>>
        \/ p # Nil /\ HandleRemoteAnswer(t, p)

-----------------------------------------------------------------------------
(* ICE.  Only a publisher's failure and closing change the session: the    *)
(* subscribers' handlers look a peer id up among longer keys, and find     *)
(* nothing.                                                                *)

\* pion gives a publisher's connection up, and starts the callback.
IceFails(p) ==
  /\ peer[p].open /\ peer[p].slot[1] = Pub
  /\ peer[p].sig = "stable" /\ ~peer[p].failed
  /\ peer' = [peer EXCEPT ![p].failed = TRUE]
  /\ failing' = failing \cup {p}
  /\ UNCHANGED <<held, recv, calls, jobs, leave, wedged>>

\* Mutant: the nil check the wrong way round.
Callback_Inverted(p) ==
  /\ p \in failing
  /\ failing' = failing \ {p}
  /\ calls' = calls \cup (IF peer[p].open THEN {} ELSE Pids)
  /\ UNCHANGED <<held, peer, recv, jobs, leave, wedged>>

\* The callback: nothing if Destroy has set peerConnection to nil.
Callback(p) ==
  /\ p \in failing
  /\ failing' = failing \ {p}
  /\ calls' = calls \cup (IF peer[p].open THEN {peer[p].slot[2]} ELSE {})
  /\ UNCHANGED <<held, peer, recv, jobs, leave, wedged>>

\* OnIceFailed, OnIceClosed: if the peer id is published, go ReleasePublisher.
OnIce(pid) ==
  /\ pid \in calls /\ ~wedged
  /\ calls' = calls \ {pid}
  /\ jobs' = jobs \cup (IF held[PubSlot(pid)] = Nil THEN {}
                        ELSE {[job |-> "relpub", pid |-> pid]})
  /\ UNCHANGED <<held, peer, recv, failing, leave, wedged>>

-----------------------------------------------------------------------------
(* Release goroutines.                                                     *)

\* Mutant: the publisher is destroyed and stays in the map.
ReleasePublisher_NoDelete(pid) ==
  LET j == [job |-> "relpub", pid |-> pid]
  IN /\ j \in jobs /\ ~wedged
     /\ Destroy({held[PubSlot(pid)]} \ {Nil})
     /\ jobs' = (jobs \ {j}) \cup {[job |-> "relsubs", pid |-> pid]}
     /\ UNCHANGED <<held, recv, failing, leave, wedged>>

\* ReleasePublisher, if the session is still in its room.
ReleasePublisher(pid) ==
  LET j == [job |-> "relpub", pid |-> pid]
  IN /\ j \in jobs
     /\ \/ /\ leave = "done"
           /\ jobs' = jobs \ {j}
           /\ UNCHANGED <<held, peer, calls>>
        \/ /\ leave # "done" /\ ~wedged
           /\ Release({PubSlot(pid)})
           /\ jobs' = (jobs \ {j}) \cup {[job |-> "relsubs", pid |-> pid]}
     /\ UNCHANGED <<recv, failing, leave, wedged>>

\* Its second critical section: those who subscribe to that peer.
ReleaseSubscribers(pid) ==
  LET j == [job |-> "relsubs", pid |-> pid]
  IN /\ j \in jobs
     /\ jobs' = jobs \ {j}
     /\ Release({s \in SubSlots : s[2] = pid})
     /\ UNCHANGED <<recv, failing, leave, wedged>>

ReleaseSubscriberPeer(s) ==
  LET j == [job |-> "relsub", slot |-> s]
  IN /\ j \in jobs
     /\ jobs' = jobs \ {j}
     /\ Release({s})
     /\ UNCHANGED <<recv, failing, leave, wedged>>

\* KickoutFromRoom of another user: go HandleSubscriberLeaved.
UserLeaves(u) ==
  /\ leave # "done" /\ ~Crashed
  /\ \A j \in jobs : ~(j.job \in {"left", "leftsubs"} /\ j.user = u)
  /\ jobs' = jobs \cup {[job |-> "left", user |-> u]}
  /\ UNCHANGED <<held, peer, recv, failing, calls, leave, wedged>>

\* HandleSubscriberLeaved lists the peer ids published now ...
ListPublishers(u) ==
  LET j == [job |-> "left", user |-> u]
      now == {pid \in Pids : held[PubSlot(pid)] # Nil}
  IN /\ j \in jobs /\ ~wedged
     /\ jobs' = (jobs \ {j}) \cup {[job |-> "leftsubs", user |-> u, pids |-> now]}
     /\ UNCHANGED <<held, peer, recv, failing, calls, leave, wedged>>

\* ... and then releases the user's subscriptions to those.
ReleaseLeaver(u) ==
  \E j \in jobs :
    /\ j.job = "leftsubs" /\ j.user = u
    /\ jobs' = jobs \ {j}
    /\ Release({u} \X j.pids)
    /\ UNCHANGED <<recv, failing, leave, wedged>>

\* DoLeave, called once, for a logout, a kickout, a new login of the same user or
\* the end of the room.
LeavePublishers ==
  /\ leave = "no" /\ ~wedged /\ ~Crashed
  /\ Release(PubSlots)
  /\ leave' = "subs"
  /\ UNCHANGED <<recv, failing, jobs, wedged>>

LeaveSubscribers ==
  /\ leave = "subs" /\ ~Crashed
  /\ Release(SubSlots)
  /\ leave' = "done"
  /\ UNCHANGED <<recv, failing, jobs, wedged>>

-----------------------------------------------------------------------------
(* The maps are read in places without their lock.  The runtime may notice *)
(* a map access during a map write, and ends the process.                  *)

WritesPub == \/ \E t \in Receivers : pc[t] \in {"replace", "stop", "insert"} /\ Cmd(t) # "sub"
             \/ \E pid \in Pids : [job |-> "relpub", pid |-> pid] \in jobs
WritesSub(t) == \/ \E w \in Receivers \ {t} : \/ pc[w] = "subdrop"
                                              \/ pc[w] = "insert" /\ Cmd(w) = "sub"
                \/ \E j \in jobs : j.job \in {"relsubs", "relsub", "leftsubs"}

MapRace ==
  /\ \E t \in Receivers :
       \/ pc[t] \in {"look", "fetch"} /\ Cmd(t) \notin {"stopsub", "answer"} /\ WritesPub
       \/ pc[t] = "sublook" /\ WritesSub(t)
  /\ Panic

-----------------------------------------------------------------------------

Step(t) == \/ LookPublish(t) \/ Replace(t) \/ CreateFails(t) \/ Insert(t)
           \/ LookStop(t) \/ StopPush(t)
           \/ LookSub(t) \/ ReadSdp(t) \/ LookOldSub(t) \/ DropOldSub(t)
           \/ StopSub(t) \/ LookOffer(t) \/ Fetch(t) \/ Answer(t)
           \/ HandleSubscribe(t) \/ HandleFakeSubscribe(t)
           \/ HandleRemoteOffer(t) \/ HandleFakeOffer(t)

Next ==
  \/ \E t \in Receivers : Receive(t) \/ Step(t)
  \/ \E p \in Peers : IceFails(p) \/ Callback(p)
  \/ \E pid \in Pids : OnIce(pid) \/ ReleasePublisher(pid) \/ ReleaseSubscribers(pid)
  \/ \E s \in SubSlots : ReleaseSubscriberPeer(s)
  \/ \E u \in Users : UserLeaves(u) \/ ListPublishers(u) \/ ReleaseLeaver(u)
  \/ LeavePublishers \/ LeaveSubscribers
  \/ MapRace

Spec == Init /\ [][Next]_vars

\* Goroutines that can run do run.  That commands come, that connections fail,
\* that users leave, is left open.
Fairness ==
  /\ \A t \in Receivers : WF_vars(Step(t))
  /\ \A p \in Peers : WF_vars(Callback(p))
  /\ \A pid \in Pids : /\ WF_vars(OnIce(pid))
                       /\ WF_vars(ReleasePublisher(pid))
                       /\ WF_vars(ReleaseSubscribers(pid))
  /\ \A s \in SubSlots : WF_vars(ReleaseSubscriberPeer(s))
  /\ \A u \in Users : WF_vars(ListPublishers(u)) /\ WF_vars(ReleaseLeaver(u))
  /\ WF_vars(LeaveSubscribers)

FairSpec == Spec /\ Fairness

-----------------------------------------------------------------------------
(* Properties.                                                             *)

\* A peer connection is open exactly while the session's map holds it, under
\* the key it was created for: no interleaving of commands, callbacks and
\* releases leaks a connection out of the maps (it could never be closed), or
\* leaves in a map one that has been closed (Destroy would close exitCh twice).
PeersHeld ==
  /\ \A s \in Slots : held[s] # Nil => peer[held[s]].open /\ peer[held[s]].slot = s
  /\ \A p \in Peers : peer[p].open => held[peer[p].slot] = p

\* The two maps, in the terms of PeerTable.
Entries == [s \in {r \in Slots : held[r] # Nil} |->
              [id |-> held[s], sig |-> peer[held[s]].sig]]

Table == INSTANCE PeerTable WITH table <- Entries, Ids <- Peers

\* The session keeps the promise of PeerTable, although it reads its maps without
\* their locks and uses a peer after it has given the lock back: no peer is
\* overwritten in its slot, and descriptions are set on the peer that the slot holds
\* now, in their order, or the process ends.
KeepsTable == Table!Spec

\* A publisher whose ICE connection has failed is released in the end, whatever
\* else happens to its session, unless the process ends, the session leaves its
\* room or StopPush has wedged the lock.
FailedPublisherReleased ==
  \A p \in Peers :
    (peer[p].open /\ peer[p].failed)
      ~> (~peer[p].open \/ leave = "done" \/ Crashed \/ wedged)

\* What the comment on DoLeave says it does: once a session has left, and all
\* that was under way has ended, no peer of it is left.
LeaveCleansAll ==
  (leave = "done" /\ (\A t \in Receivers : pc[t] = "idle") /\ jobs = {})
    => \A p \in Peers : ~peer[p].open

=============================================================================
