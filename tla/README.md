# A verification project for ms

`ms` is a WebRTC media server (an SFU) that runs as one *pod* among several
behind a load balancer.  Clients and other pods talk to it through brokers
(RabbitMQ, MQTT); a client logs in to a room, publishes media streams and
subscribes to those of others; pods relay streams to one another through "fake"
sessions.  This directory models the part of it that is hard to test: what its
goroutines do to the maps, flags and channels they share.

The program is one package of eleven Go files, about 3500 lines; everything
under `third/` is vendored.

## 1. Inventory

| component | file | state | operations | driven by |
|---|---|---|---|---|
| room manager | `roommgr.go` | `rooms` (`roomsLock`), `regist`, `stopRegist`, `conf.Clusterid` | `HandleMessage`, `ReleaseRoom`, `CheckKeepAlive` ticker, `StartRegistToLB` | receivers, ticker, `go ReleaseRoom` |
| room | `room.go` | `sessions` (`sessionsLock`) | login, logout, heartbeat, fakepublish, fakeunpublish, `KickoutFromRoom`, `hasOriginSession`, `DestroyRoom` | `roommgr.HandleMessage`, `go KickoutFromRoom` |
| session | `session.go` | `publishers` (`pubsmux`), `subscribers` (`subsmux`), `lastHeartbeat`, `isFakeSession` | publish, stoppush, sub, stopsub, offer, answer, candidate and the fake forms; `DoLeave`, `ReleasePublisher`, `ReleaseSubscriberPeer`, `HandleSubscriberLeaved`, the `OnIce...` callbacks, forwarding of media | receivers, callbacks of pion, release goroutines |
| reconnection of a fake publisher | `session.go` | `exitChan`, `waitGroup` | `FakeSubscribe`, `FakePublisherReConnect`, its check goroutine | fakepublish, callbacks |
| peer | `peer.go` | the pion connection, `exitCh`, candidate cache, `isReady`, `shouldNotify`, SSRCs, codecs | `Create...Peer`, `Destroy`, the offer and answer handlers, candidates | session, pion |
| keyframe request filter | `keyframerequestfilter.go` | `timer`, `cached`, `lasttime`, `exitChan` | `Startup`, `Shutdown`, `TryRequestKeyframe`, `requestKeyframeNow` | callbacks, timer goroutine |
| RabbitMQ client | `rmq.go` | connection, `connected`, retry timer, producers, receivers | connect, retry, `Send`, `Stop` | timer, `NotifyClose`, receivers |
| MQTT client | `mqttclient.go` | a paho client | subscribe, publish | paho |
| configuration, start-up, JSON | `config.go`, `mediaserver.go`, `definition.go`, `jsonparse.go` | `Config` | `main`, accessors | - |

How they interact.  `main` creates the receivers (one goroutine per RabbitMQ
consumer, one for MQTT), and only then gives the room manager its send handler.
A receiver calls `roommgr.HandleMessage` for each message, which finds the room
and calls `room.HandleMessage`, which finds the session and calls
`session.HandleMessage`, which creates, finds or destroys peers.  Upward, pion
calls the peer's ICE callback, each call in a goroutine of its own; the peer
calls the session, the session starts `go ReleasePublisher`; the keepalive ticker
starts `go KickoutFromRoom`; a room left without users starts `go ReleaseRoom`.
Messages go out through the send handler, to the brokers.

What is hard.  Maps are read without their lock and looked up again later;
pointers to rooms, sessions and peers are used after the map has lost them;
goroutines are started on an id, not on an object; channels without buffer carry
stop signals to goroutines that may be gone; answers of the load balancer and of
other pods come late, twice or never; a nil dereference anywhere ends the
process.  `PROJECT.json` lists these under "hazards", each at its line.

What makes each part correct: a room exists as long as somebody is logged in to
it and no longer; a silent client is removed; a pod becomes, and becomes again,
registered; every open peer connection is in the map through which it can be
closed, and none that is closed is; a failed publisher goes away; a fake session
does not forget its stream, and leaves nothing behind when it goes; a request for
a keyframe that has been put off is sent; there is one connection to a broker at a
time, and a lost one is made again.

## 2. Modules

| module | models | properties | proofs |
|---|---|---|---|
| `Rooms` | `roommgr.go` (routing, creation, release, keepalive), `room.go` | `TypeOK`, `NoZombieRoom`, `EmptyRoomReleased`, `SilentClientLeaves`, `ReleasesOnlyAbandonedRooms` | `RoomsProofs` |
| `Registration` | `roommgr.go` (`podregist`, `podregistnow`, `StartRegistToLB`), `mediaserver.go` | `TypeOK`, `RegisteredHasCluster`, `AsksUntilAccepted`, `GivenUpForGood`, `FirstRegistration`, `RegistersAgain` | `RegistrationProofs` |
| `SessionPeers` | `session.go` (peer maps), `peer.go` (life cycle, signalling) | `TypeOK`, `PeersHeld`, `KeepsTable`, `FailedPublisherReleased`, `LeaveCleansAll` | `SessionPeersProofs` |
| `PeerTable` | what a session promises of its peers (abstract) | implemented by `SessionPeers` (`KeepsTable`) | `PeerTableProofs` |
| `FakeReconnect` | `session.go` (`FakeSubscribe`, `FakePublisherReConnect`, the end of `DoLeave`, `OnIceFailed`) | `TypeOK`, `Signals`, `Waited`, `Asking`, `Leaves`, `WoundUp` | `FakeReconnectProofs` |
| `KeyframeFilter` | `keyframerequestfilter.go` and its users in `peer.go` | `TypeOK`, `NoStuckCache`, `ShutdownEnds` | `KeyframeFilterProofs` |
| `RabbitMQ` | `rmq.go` | `TypeOK`, `OneKeeper`, `Attended`, `KeepsLink`, `LostForGood`, `Reconnects`, `TriesAgain` | `RabbitMQProofs` |
| `BrokerLink` | what `rmq.go` promises of its connection (abstract) | implemented by `RabbitMQ` (`KeepsLink`) | `RabbitMQProofs` |

The modules `MC...` give TLC its symmetry sets and its constants that are sequences
or functions.  Definitions named `X_Something` next to a definition
`X` are mutants: `X` with a plausible bug, used to see that a property notices it.

### Rooms

State: `rooms` is the map of room objects by id, `sess` each object's map of
sessions, `home` its `roomid` field.  Room objects are addresses (`RoomObj`), for
a pointer outlives the map entry: two logins at once may create two rooms, one of
which is overwritten.  `releasing` is `roomsLock` held by `ReleaseRoom` while it
destroys the room; `rel`, `kick` and `kicked` count the goroutines that have been
started and the kickouts half-way.  Each receiver has its step (`pc`), message and
room pointer.

A step is the code between two accesses to shared maps.  `Lookup`, `CreateRoom`
and `Fetch` are the unlocked reads and the locked write in
`roommgr.HandleMessage`; `Entry`, `Find`, `Drop`, `CheckOrigin`, `Insert`,
`Announce`, `Serve`, `FakeUnpublish` are `room.HandleMessage`; `Logout` and
`LogoutDone` (in a receiver), `Kickout` and `KickoutDone` (in a goroutine) are
`KickoutFromRoom` before and after its critical section; `StartRelease` and
`FinishRelease` are `ReleaseRoom`; `CheckKeepAlive` is the ticker, `Age` the time
passing without a heartbeat.  `Panic` is a nil dereference, `MapRace` the
run-time's "concurrent map read and map write": both end the process.

A user may be in `LocalUsers` and in `RemoteUsers`: one who moves to another pod is
announced from there while the old session is still here, and the other way round.
A fakepublish drops the user's session, looks for an origin session, and then stores
its own over whatever the user has by then: if that is a new login, and the last
origin session, nobody looks again and the room stays.  The history variable `usurped`
holds the rooms this has happened to, until somebody logs in; `NoZombieRoom` and
`EmptyRoomReleased` except exactly those.

### Registration

State: `regist`, the cluster id, how many `StartRegistToLB` goroutines are in their
loop, whether `SetSendMessageHandler` has run, each receiver's step, and the
messages to and from the load balancer.  `StopRegist` is the send on the
unbuffered `stopRegist`: the receiver waits until some goroutine takes it.  The
load balancer (`LBAnswer`, `LBRestart`) and the network (`LoseRequest`) are
external.

Here and in `Rooms` a send to a broker (`PublishMessage2LB` at `roommgr.go:216`, the
sends under `roomsLock` and `sessionsLock`) is taken never to block.  While the broker is
connected that is so; `RabbitMQ` shows that a sender may wait for ever when the
connection is lost between the test of `connected` and the use of the producer.  A pod
to which that happens gets no further, and `FirstRegistration`, `EmptyRoomReleased` and
`SilentClientLeaves` say nothing of it.

### SessionPeers

State: `held` is both maps, by slot (`<<Pub, pid>>` is a key of `publishers`,
`<<w, pid>>` one of `subscribers`); `peer` is the peer objects, by address;
receivers have step, message and the peer pointer they hold; `failing` and
`calls` are pion's callbacks under way, `jobs` the release goroutines, `leave` the
progress of `DoLeave`; `wedged` says that `pubsmux` is write-locked for ever
(`stoppush` unlocks it with `RUnlock`, which goes through if a reader waits; any number
of goroutines may be reading, so that this outcome is always open).  `LookPublish`/`Replace`/`Insert`,
`LookStop`/`StopPush`, `LookSub`/`ReadSdp`/`LookOldSub`/`DropOldSub`, `StopSub`,
`LookOffer`/`Fetch` and `Answer` are the commands, in the pieces the locks make
of them; `Handle...` are the peer's own handlers, of which only the order of
descriptions is kept; `Callback`, `OnIce`, `ReleasePublisher`,
`ReleaseSubscribers`, `ReleaseSubscriberPeer`, `UserLeaves`, `ListPublishers`,
`ReleaseLeaver`, `LeavePublishers` and `LeaveSubscribers` are the rest.

The key of a subscriber is a concatenation of names; slots are taken to have
distinct keys.  `Owner` says which receiver the commands about a slot come
through: a client, or another pod, sends its commands through one queue, and a
queue has one consumer.  `Receive` ends with `DoLeave`: a command that finds the session
in the moment before the room deletes it is like one that was received earlier and is
still at its first step, and these are in the model.

`PeerTable` is the abstract view: the slots in use, each with one connection and the
state of its descriptions.  A connection is opened only in a slot that is free and
only if it is in no other; a subscriber's is offered once and answered once; any
number may be closed at a time, for `DoLeave`, the release of a publisher's
subscribers and a panic close several.  `Entries` in `SessionPeers` is the refinement
mapping.

### KeyframeFilter

State: the fields of the filter (`send` is whether `sendRequestKeyframe` is set,
`age` the time since `lasttime`, as far as it matters), the timers, by address,
each with the time left and whether its channel holds a value; `holder`, the step
of `refreshMaxIntervalTimer` that has `mutex`; the timer goroutines (`loop`), the
goroutines blocked at `exitChan <- 0` (`exits`), at the start of
`requestKeyframeNow` (`nows`) and of `TryRequestKeyframe` (`tries`); and of the
peer `isReady` and whether `peerConnection` is set.  A caller is a goroutine that
runs an ICE callback or `Destroy`.  `Startup`, `StartupTimer`, `StartupLoop` are
`Startup`, with `startDelayTimer` cut between the assignment of the timer and
`waitGroup.Add`; the five `Shutdown...` actions are `Shutdown` (`ShutdownWait` and
`ShutdownWoken` are `WaitGroup.Wait`, which panics if the group is used again before it
has returned; the last goroutine to end wakes all that are blocked), `RefreshCheck` to
`RefreshReset` are `refreshMaxIntervalTimer`, the three `Loop...` actions the
goroutine's `select`.  `Tick` is the clock.  What the callbacks then tell the
session is in `SessionPeers`.

pion's ICE agent starts a goroutine for each change of state, so that callbacks
run at the same time and in any order; a state is reported only if it follows
from the one before.

`Startup` and `Shutdown` are not made to run at the same time ("multi-threads unsafe"),
and do.  Two history variables say when that has gone wrong, so that the properties can
say what holds otherwise.  `unready`: a `Startup` has found the filter not `AtRest`, that
is, with a timer, with an exit signal that nobody has taken, or with a `Shutdown` at work.
`doubled`: `startDelayTimer` was called over an earlier timer or goroutine.
`NoStuckCache` holds over any number of reconnections as long as not `unready`: beyond,
an old signal may end the new goroutine, and `cached` stays set.  `ShutdownEnds` holds,
ticking or not, as long as not `doubled`, and says that only a filter that ticks, or is
`unready`, can become `doubled`.

### FakeReconnect

A fake session stands for a publisher of another cluster.  State: the check
goroutines of `FakeSubscribe` (`check`, with the retries left), the goroutines in
`FakePublisherReConnect` (`call`), those blocked at `exitChan <- 0` (`exits`), the
WaitGroup's counter, the step of `DoLeave`, and the state of the publisher
(`stream`), with the callbacks of failure and the releases under way.
`FakePublish`, `AskAgain` end in `FakeSubscribe`; `Fire`, `Ready` and `Exit` are
the check goroutine's `select`, in which the publisher is looked up twice;
`Wait`, `Return`, `LeaveWait` and `LeaveReturn` are `WaitGroup.Wait`, in two steps,
for the run-time panics when a WaitGroup is used again before a `Wait` that was
released has returned (`Reused`).  The other pod (`FakeOffer`) and ICE are free.
The variables `spent` and `taken` are history: that the retries have been used up, and that
a release goroutine, which goes by peer id, has released a publisher that came
after the failed one.

### RabbitMQ and BrokerLink

One of the two connections; the functions for the other differ in the exchanges
they register and in names.  State: `conn` and the flag `connected`; the retry
timers before (`armed`) and after (`fired`) they fire, and the exit signals for
them; the exchanges by address, with the state of their channel and whether their
goroutine runs; `exc`, the global pointers to the producers, and `exs`, the list
of receivers; and the goroutines that run `mqConnect` or wait for `NotifyClose`
and run `Stop` (`Threads`, with step, exchange in hand and position).  `to` is who
publishes: any goroutine, or the handler of a receiver, which is then busy.  A
channel is unbuffered: `StopExit` is the meeting of `exitChan <- 0` with the
exchange's goroutine, `Take` that of a publisher with the producer's.

`Fire`, `LoopExit` are the retry timer; `DialFails`, `DialOk`, `Retry`, `Watch`,
then `Open`, `Declare` and `Assign` for each exchange, and `SetConnected` are
`mqConnect`; `NotifyClose`, `ClearConnected`, the `Stop...` actions are the
goroutine that waits for the loss; `Publish` and `Send` are the publishing
functions, cut between the test of the flag and the use of the producer.

`BrokerLink` has one variable, the phase of the connection: waiting for the timer,
dialing, up, lost, and waiting again only when the lost one has been wound up.
`Phase` in `RabbitMQ` is the refinement mapping.

## 3. Runs

| run | checks | shows |
|---|---|---|
| `rooms_safety` | `TypeOK`, `NoZombieRoom` | whatever two receivers, kickouts and releases interleave, for a user who logs in here and is announced from another pod as well: a room without origin session is always in the hands of somebody who will release it or log in |
| `rooms_liveness` | `NoZombieRoom`, `EmptyRoomReleased`, `SilentClientLeaves` | the same with a fake session of another user beside the origin one; such a room goes in the end, and so does a client without heartbeats |
| `rooms_release` | `ReleasesOnlyAbandonedRooms`, violated | `go ReleaseRoom(roomid)` destroys a room that has been logged in to since it was found empty |
| `registration` | `TypeOK`, `RegisteredHasCluster`, `AsksUntilAccepted`, `GivenUpForGood`, `FirstRegistration` | lost requests, refusals and late answers only delay the first registration; no registration without cluster id; what the violation below leads to is not repaired by another restart |
| `registration_again` | `RegistersAgain`, violated | an accepted answer that finds no goroutine (its own tick saw `regist` and ended it, or it is a second answer) leaves a receiver blocked on `stopRegist`, which stops the goroutine that is to register the pod again |
| `peers` | `TypeOK`, `PeersHeld`, `KeepsTable` | an origin session: no connection leaks out of the maps, none that is closed stays in them; none is put in the place of another, and none is answered twice (`PeerTable`) |
| `peers_fake` | `PeersHeld`, `FailedPublisherReleased` | the same for a fake session, where `fakeoffer` makes the publishers; and a publisher whose connection fails is released in the end |
| `peers_leave` | `LeaveCleansAll`, violated | a `publish` that had found the session inserts its peer after `DoLeave` |
| `keyframe` | `TypeOK`, `NoStuckCache`, `ShutdownEnds` | over reconnections no race of requests, timers, callbacks and `Destroy` leaves a put-off request that nobody will send or drop, nor a `Shutdown` that waits for a goroutine without a signal for it, with the exceptions that `unready` and `doubled` record |
| `reconnect` | `TypeOK`, `Signals`, `Waited`, `Asking`, `Leaves`, `WoundUp` | reconnections started by timers and by ICE, together and during `DoLeave`, keep signals and goroutines in balance, and nobody waits without a signal under way; the stream is asked for as long as there are retries; `DoLeave` returns, and nothing outlives it |
| `rmq` | `TypeOK`, `OneKeeper`, `Attended`, `KeepsLink`, `LostForGood`, `Reconnects` | whenever the connection is lost, one goroutine at most is in charge of it, `BrokerLink` is implemented, and there is a connection again - or the process has ended, or `Stop` hangs, or the loss came before `NotifyClose`; a client that has wound up its connection is always about to dial again; and these exceptions, once met, are for good |
| `rmq_again` | `TriesAgain`, violated | these exceptions are needed: without them the client does not "try again until connect success" |

Bounds, and why they are enough.

- `rooms_*`: one room id, since rooms share nothing but `roomsLock`; two room
  objects, so that a pointer to a replaced room exists; two receivers, so that every
  pair of handlers interleaves with the goroutines; one user who is local and remote in
  `rooms_safety`, since the last origin session is what matters and this user may
  have it or lose it in every way (with a second, remote user TLC finds the same on
  7.5 million states, in more time than a run should take); that user and another remote
  one in the other two; `MaxRel = 1` pending release per id and `MaxKick = 1` kickout per
  user: a second one of the same kind finds what the first left.  The liveness
  and release runs use one receiver, so that nothing is ever usurped in them.
- `registration*`: two receivers, two messages in each direction (`MaxNet`), so
  that an answer can be late or doubled; `MaxRestart` is 2, so that a registration
  given up after the first restart meets another `podregistnow`, and 1 in
  `registration_again`, where one is enough.
- `peers*`: one peer id, since those of a session share only its locks; one
  subscribing user, and one subscribing pod in `peers`; two receivers; two peer
  addresses (three in `peers_leave`), so that a receiver can hold a pointer to a
  destroyed peer while another is made.  The commands are those of an origin
  session in `peers` and `peers_leave`, those of a fake one in `peers_fake`.
- `keyframe`: two callers (a callback and `Destroy`, or two callbacks), two timer
  goroutines and two timers, so that an old one can be left over when a new one
  is made; intervals of 1 and 2, enough to have "too early", "due" and "later";
  one request under way at a time, of any number in sequence; `MaxConnect` is 2: the
  connection breaks down and comes up again.  The constraint `Orderly` ends a behaviour
  at the first `Startup` that makes the filter `unready`: `NoStuckCache` says nothing of
  what follows, and `ShutdownEnds` is proved for it, and was checked without the
  constraint too, on 8.6 million states.
- `reconnect`: one retry instead of three, so that retries are used up within few
  steps; two failures of ICE or late "closed" callbacks, so that a second one comes
  during the reconnection of the first; three check goroutines and three calls, as
  many as can be there at a time with these bounds (with two calls, a goroutine
  that can always be started would wait for a place).
- `rmq*`: a producer and a receiver, registered in this order, so that a receiver's
  handler can publish while `Stop` has ended the producer; one other sender in
  `rmq`; two goroutines, the one in charge and an `mqConnect` that is still
  registering; three exchanges, so that one of the last connection can be referred
  to while two new ones are made; in `rmq` the producer is one that is used on the
  word of the other connection's flag.  Losses and dials are not bounded.
- Deadlock is not checked: after a panic the process stops, and the environment
  is free to send nothing.

Symmetry is used only in runs of invariants: over room objects, receivers,
peer addresses, callers, timer goroutines and timers.

Fairness.  Goroutines that can run do run (weak fairness of the receivers'
steps, the release and kickout goroutines, the callbacks); the keepalive ticker
ticks.  That messages come, connections fail or users leave is never assumed.
`Registration` has strong fairness of `Tick`, `LBAnswer` and `Accepted`: the
bounds on messages in flight disable a tick again and again, and the load balancer
is assumed to accept a pod that goes on asking; the code can promise nothing
without that.  `RabbitMQ` has weak fairness of its goroutines and timers, and
strong fairness of `DialOk`: a broker that is dialled again and again accepts some
time.  `FakeReconnect` has weak fairness of goroutines and timers, and takes the
message to the other pod from who sends it, as `RabbitMQ` does while connected;
nothing is assumed of the other pod, of ICE or of `DoLeave` being called.

## 4. Proofs

All for any values of the constants.

- `RoomsProofs`: `ZombieFree` (`Spec => []NoZombieRoom`) and `RoomsTyped`, for any
  `LocalUsers` and `RemoteUsers`, disjoint or not.  `NoZombieRoom` is not inductive
  alone: a receiver at a step must have the message, and the room object, that
  step works on (`ReceiverOK`); the room under an id must have that id, for
  releases go by id (`HomeOK`); and origin sessions carry no pod id (`OriginOK`), so
  that a fakeunpublish, which compares pod ids, never removes one.  Their conjunction
  with `TypeOK` is `IInv`; there is one lemma per action.  Only `Insert` can take the
  last origin session away without somebody left to look, and then the room is
  `usurped`.
- `RegistrationProofs`: `RegisteredHasClusterHolds`, `AsksUntilAcceptedHolds`,
  `RegistrationTyped`, from one invariant that adds what is quiet before
  the pod has started and before the load balancer has restarted.
  `GivenUpForGoodHolds` and `NeverRegistered` (`Spec => [](GivenUp => [](~regist))`)
  say what becomes of a pod in the case `registration_again` finds: `GivenUp` is
  closed under every step, restarts of the load balancer included, for a
  `podregistnow` starts a goroutine only while `regist` is set.
- `SessionPeersProofs`: `PeersHeldHolds`, `SessionPeersTyped`.  `IInv` adds
  `ReceiversOK`: a receiver about to insert finds its slot empty, and one that
  has read a peer pointer still knows the slot that peer was in, so that it is
  destroyed either there or not at all.  That rests on `OwnerAssumption`: two
  receivers on one slot would both find it empty and leak a peer.
- `PeerTableProofs`: `TableImplemented` (`Spec => KeepsTable`).  Each action is a
  step of `PeerTable` or leaves `Entries` alone.  What `IInv` lacks for it is
  `InHand`: a peer that a handler is about to describe is that of the slot its command
  names, unless it has been destroyed meanwhile, and one that `sub` has just made has
  not been offered yet; so a description is set in the slot it is meant for, and in
  order.  That an insertion finds its slot free is `ReceiversOK`.
- `RabbitMQProofs`: `RabbitMQTyped`, `OneKeeperHolds`, and `LinkImplemented`, that
  the client implements the safety part of `BrokerLink` (`Spec => Link!Safe`).
  `OneKeeper` is not inductive alone: nothing in it says that there is one timer
  goroutine to take the one exit signal, so that a dialling `mqConnect` does not
  meet a second one.  `IInv` adds how many timers and signals there are while a
  goroutine is in charge (`Alone`, `KeeperOK`) and while none is (`NoKeeper`), and
  which exchange a goroutine at a step has in hand (`ThreadOK`).  For the refinement
  each action is shown to be a step of `BrokerLink` or to leave `Phase` alone.
  `AttendedHolds` and `LostForGoodHolds` need more (`LInv`): that an exchange which is
  still being registered belongs to one `mqConnect` and is known to nobody else
  (`Private`), and that a process without connection has a timer set or dials
  (`Kept`).  A
  `Stop` that hangs waits for an exchange without goroutine, or for one whose handler
  waits for such an exchange; only `Declare` starts a goroutine, for an exchange that
  is `Private` and hence not one of these (`Stuck`).  So nothing wakes it:
  `NeverAgain` is `Spec => [](Over => [](conn # "up"))`.
- `FakeReconnectProofs`: `FakeReconnectTyped`, `SignalsMatch`, `NoLostWakeUp` and
  `StreamNotForgotten`.  The argument is one of counting: a reconnection adds a
  signal and a call, which becomes a check goroutine; a goroutine that ends takes a
  signal with it.
  `Signals` is that equation, with the cardinalities of the sets of goroutines.
  `Asking` follows from it and `Guarded`, which says who looks after a stream that
  is not there: by `Signals` a session that has not left has one goroutine more
  than signals, and by `Guarded` a goroutine that has given up has left something
  behind.  `Waited` follows from `Signals` and `Held`, that the counter is not zero
  while somebody is in `Wait`: the last goroutine to end releases everybody.
- `KeyframeFilterProofs`: `KeyframeFilterTyped`, `RequestNotForgotten`
  (`Spec => []NoStuckCache`) and `ShutdownNotStuck` (`Spec => []ShutdownEnds`), for any
  number of connections.  For the first, `IInv` says, as long as not `unready`, that
  while the send function is there no `Shutdown` has begun (`Sending`), and what is left
  when it has (`Silent`); then a put-off request has a goroutine that serves it
  (`Served`) and a timer that will fire (`Live`).  A `Startup` at rest finds all of this
  as `Init` left it, which is why the argument goes on over reconnections.
  `ShutdownEnds` is an argument of counting: as long as not `doubled` there is one
  goroutine at a time (`Single`), and whoever waits for one has a signal for it, because
  a second goroutine can come only when one caller has finished waiting, and the signals
  of that caller and of the others are enough for both (`Enough`); in a filter that does
  not tick only a refresh that finds no timer starts a goroutine, and one that was past
  its check when `Shutdown` began can start one more, and no further one (`Last`), so
  that it is never `doubled`.
  It takes `Callers` to be finite and timers to be no names of steps.

Only model-checked: everything under fairness (`EmptyRoomReleased`,
`SilentClientLeaves`, `FirstRegistration`, `FailedPublisherReleased`, `Reconnects`,
the fairness of `BrokerLink` in `KeepsLink`, `Leaves`, `WoundUp`), which the prover
does not handle.  `Attended`, `Waited`, `ShutdownEnds` and `LostForGood` are the parts of
these that need no fairness: who waits has somebody to wait for, and what is excepted
is really lost.  The violated properties have no theorem.

## 5. Findings

Each is a violated property of a run, quoted in `PROJECT.json` with the line
that promises otherwise: `ReleaseRoom` acts on a check that is stale
(`rooms_release`); a registration answer that finds no goroutine to stop keeps a pod
from registering again (`registration_again`); `DoLeave` misses a peer being created
(`peers_leave`); a RabbitMQ client whose `Stop` hangs, or which was not told of the
loss, does not try again (`rmq_again`).

Met on the way, without a run of their own: `fakepublish`
overwrites an origin session of the same user (`usurped`); a command that comes before
`SetSendMessageHandler` calls a nil function; `Shutdown` of the keyframe filter,
marked "multi-threads unsafe", races `Startup`, which can end all keyframe requests
after a reconnection; a WaitGroup of a fake session may be used again too early;
`DoLeave` of an origin session leaves a goroutine behind at `exitChan`.

## 6. Not modelled

- Media: RTP and application data are copied from track to track.
- SDP and candidates: their text, codecs, SSRCs, the candidate cache.
- Announcements to clients (`shouldNotify`, pub and unpub): pion runs the callbacks
  of two changes of state at the same time, so that their order is open, and
  nothing in the repository says what a client may rely on.
- Two pods with a broker between them: each pod's side is in `Rooms`,
  `SessionPeers` and `FakeReconnect`, with the other one free to send anything.
- Wording, logging, message numbers, reading the configuration; the selection of
  subscribers by substring.
- The insides of pion, paho, amqp: external, as the code uses them.

## 7. What is left

1. `CrossCluster`: two pods and a broker, fakepublish and fakeunpublish out of
   order; `Rooms` as the detailed specification of a room that is there while
   somebody is logged in.
2. The order of announcements, when the repository says what it should be.
3. `RabbitMQ` with its two connections at once, which share the handlers: so far
   the other one's flag may have any value.
