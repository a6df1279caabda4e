------------------------------- MODULE Rooms -------------------------------
(* The room manager's map of rooms (roommgr.go) and each room's map of     *)
(* sessions (room.go), as the goroutines of the process interleave on      *)
(* them: the message receivers (one per RabbitMQ consumer plus MQTT), each *)
(* running roommgr.HandleMessage for one message at a time; the goroutines *)
(* "go ReleaseRoom(roomid)" and "go KickoutFromRoom(userid)"; and the      *)
(* keepalive ticker.                                                       *)
(*                                                                         *)
(* Code between two accesses to shared maps is one step.  A critical       *)
(* section of sessionsLock is one step; roomsLock is held over two steps   *)
(* by ReleaseRoom.  Several reads of the two maps take no lock: those are  *)
(* steps of their own.  What a session does with its peers is elsewhere.   *)
EXTENDS Naturals

CONSTANTS
  RoomIds,      \* room ids that messages carry
  LocalUsers,   \* users that log in to this pod
  RemoteUsers,  \* users that other pods announce with fakepublish; one that has
                \* moved from pod to pod is among both
  Pods,         \* ids of the other pods (never this pod's own uuid)
  RoomObj,      \* the addresses of room objects
  Receivers,    \* goroutines that run HandleMessage
  NoRoom, NoSess, NoPod,  \* the nil of each kind
  MaxRel,       \* bound on the pending ReleaseRoom goroutines of a room id
  MaxKick       \* bound on the kickouts of a user under way

Users == LocalUsers \cup RemoteUsers

Session == [origin: BOOLEAN, pod: Pods \cup {NoPod}, stale: BOOLEAN]

ASSUME NilAssumption == /\ NoRoom \notin RoomObj
                        /\ NoRoom \notin RoomIds
                        /\ NoSess \notin Session
                        /\ NoPod \notin Pods

ASSUME BoundAssumption == MaxRel \in Nat \ {0} /\ MaxKick \in Nat \ {0}

\* "request" stands for the commands that a session handles (push, sub, offer
\* and so on, and their fake forms); its user is the one whose session it is for.
Message == [cmd: {"login", "logout", "heartbeat"},
            rid: RoomIds, user: LocalUsers, pod: {NoPod}]
           \cup [cmd: {"request"}, rid: RoomIds, user: Users, pod: {NoPod}]
           \cup [cmd: {"fakepublish", "fakeunpublish"},
                 rid: RoomIds, user: RemoteUsers, pod: Pods]

NoMsg == [cmd |-> "none"]

PC == {"idle", "lookup", "create", "fetch", "find", "drop", "origin",
       "insert", "announce", "serve", "kick", "kicked", "unpub", "dead"}

VARIABLES
  rooms,     \* roommgr.rooms: room id -> room object or nil
  home,      \* room object -> its roomid field
  sess,      \* room object -> user -> session or nil
  releasing, \* room id whose ReleaseRoom holds roomsLock, or NoRoom
  rel,       \* room id -> number of ReleaseRoom goroutines not yet started
  kick,      \* room object -> user -> KickoutFromRoom goroutines not started
  kicked,    \* room object -> KickoutFromRoom goroutines past line 273
  pc, msg, obj, \* receiver -> step, message in hand, room pointer in hand
  usurped       \* history: room objects whose last origin session was replaced by a
                \* fakepublish of the same user, nobody having logged in since

vars == <<rooms, home, sess, releasing, rel, kick, kicked, pc, msg, obj, usurped>>

TypeOK ==
  /\ rooms \in [RoomIds -> RoomObj \cup {NoRoom}]
  /\ home \in [RoomObj -> RoomIds]
  /\ sess \in [RoomObj -> [Users -> Session \cup {NoSess}]]
  /\ releasing \in RoomIds \cup {NoRoom}
  /\ rel \in [RoomIds -> Nat]
  /\ kick \in [RoomObj -> [Users -> Nat]]
  /\ kicked \in [RoomObj -> Nat]
  /\ pc \in [Receivers -> PC]
  /\ msg \in [Receivers -> Message \cup {NoMsg}]
  /\ obj \in [Receivers -> RoomObj \cup {NoRoom}]
  /\ usurped \subseteq RoomObj

NoSessions == [u \in Users |-> NoSess]

Init ==
  /\ rooms = [i \in RoomIds |-> NoRoom]
  /\ home \in [RoomObj -> RoomIds]
  /\ sess = [o \in RoomObj |-> NoSessions]
  /\ releasing = NoRoom
  /\ rel = [i \in RoomIds |-> 0]
  /\ kick = [o \in RoomObj |-> [u \in Users |-> 0]]
  /\ kicked = [o \in RoomObj |-> 0]
  /\ pc = [t \in Receivers |-> "idle"]
  /\ msg = [t \in Receivers |-> NoMsg]
  /\ obj = [t \in Receivers |-> NoRoom]
  /\ usurped = {}

-----------------------------------------------------------------------------
(* Helpers.                                                                *)

IsOrigin(s) == s # NoSess /\ s.origin

\* room.hasOriginSession
HasOrigin(o) == \E u \in Users : IsOrigin(sess[o][u])

\* An address new allocations may use: nothing points to that room any more.
Fresh(o) == /\ \A i \in RoomIds : rooms[i] # o
            /\ \A t \in Receivers : obj[t] # o
            /\ kicked[o] = 0 /\ \A u \in Users : kick[o][u] = 0
            /\ sess[o] = NoSessions

\* roomsLock can be taken: only ReleaseRoom holds it across two steps.
RoomsLockFree == releasing = NoRoom

Rid(t) == msg[t].rid
User(t) == msg[t].user
Mine(t) == sess[obj[t]][User(t)]

GoTo(t, l) == pc' = [pc EXCEPT ![t] = l]

\* End of HandleMessage: the receiver waits for its next message.
Return(t) == /\ GoTo(t, "idle")
             /\ obj' = [obj EXCEPT ![t] = NoRoom]
             /\ msg' = [msg EXCEPT ![t] = NoMsg]

\* A nil dereference: the panic ends the process.  Every goroutine is dead
\* and its memory is gone.
Panic ==
  /\ rooms' = [i \in RoomIds |-> NoRoom]
  /\ sess' = [o \in RoomObj |-> NoSessions]
  /\ releasing' = NoRoom
  /\ rel' = [i \in RoomIds |-> 0]
  /\ kick' = [o \in RoomObj |-> [u \in Users |-> 0]]
  /\ kicked' = [o \in RoomObj |-> 0]
  /\ pc' = [t \in Receivers |-> "dead"]
  /\ msg' = [t \in Receivers |-> NoMsg]
  /\ obj' = [t \in Receivers |-> NoRoom]
  /\ usurped' = {}
  /\ UNCHANGED home

Crashed == \E t \in Receivers : pc[t] = "dead"

SetSession(o, u, s) == sess' = [sess EXCEPT ![o][u] = s]

\* go r.parent.ReleaseRoom(r.roomid) unless some session is an origin one
ReleaseIfNoOrigin(o) ==
  IF HasOrigin(o)
    THEN UNCHANGED rel
    ELSE rel[home[o]] < MaxRel /\ rel' = [rel EXCEPT ![home[o]] = @ + 1]

-----------------------------------------------------------------------------
(* roommgr.HandleMessage: which room a message goes to.  The pod is        *)
(* registered with the load balancer here (regist is true).                *)

\* A message is taken off the receiver's queue.
Receive(t) ==
  /\ pc[t] = "idle"
  /\ \E m \in Message : msg' = [msg EXCEPT ![t] = m]
  /\ GoTo(t, "lookup")
  /\ UNCHANGED <<rooms, home, sess, releasing, rel, kick, kicked, obj, usurped>>

\* The unlocked test "_, ok := rm.rooms[roomid]".  Commands other than login
\* for a room that is not there are answered not-login or ignored.
Lookup(t) ==
  /\ pc[t] = "lookup"
  /\ \/ /\ rooms[Rid(t)] # NoRoom
        /\ GoTo(t, "fetch") /\ UNCHANGED <<msg, obj>>
     \/ /\ rooms[Rid(t)] = NoRoom /\ msg[t].cmd = "login"
        /\ GoTo(t, "create") /\ UNCHANGED <<msg, obj>>
     \/ /\ rooms[Rid(t)] = NoRoom /\ msg[t].cmd # "login"
        /\ Return(t)
  /\ UNCHANGED <<rooms, home, sess, releasing, rel, kick, kicked, usurped>>

\* Login of a room that was not there: a new room object is put in the map,
\* over whatever is in it by now, and the roomcreated broadcast is sent.
CreateRoom(t) ==
  /\ pc[t] = "create" /\ RoomsLockFree
  /\ \E o \in RoomObj :
       /\ Fresh(o)
       /\ rooms' = [rooms EXCEPT ![Rid(t)] = o]
       /\ home' = [home EXCEPT ![o] = Rid(t)]
       /\ usurped' = usurped \ {o}
  /\ GoTo(t, "fetch")
  /\ UNCHANGED <<sess, releasing, rel, kick, kicked, msg, obj>>

\* The second read of the map, under RLock for login and without lock for the
\* others, and the call r.HandleMessage(m), which panics when r is nil.
Entry(cmd) == CASE cmd = "logout" -> "kick"
                [] cmd = "fakeunpublish" -> "unpub"
                [] OTHER -> "find"

Fetch(t) ==
  /\ pc[t] = "fetch"
  /\ msg[t].cmd = "login" => RoomsLockFree
  /\ IF rooms[Rid(t)] = NoRoom
       THEN Panic
       ELSE /\ obj' = [obj EXCEPT ![t] = rooms[Rid(t)]]
            /\ GoTo(t, Entry(msg[t].cmd))
            /\ UNCHANGED <<rooms, home, sess, releasing, rel, kick, kicked,
                           msg, usurped>>

-----------------------------------------------------------------------------
(* room.HandleMessage, on the room object in hand.                         *)

\* The unlocked test "_, ok := r.sessions[userID]".
Find(t) ==
  /\ pc[t] = "find"
  /\ LET found == Mine(t) # NoSess IN
     CASE msg[t].cmd \in {"heartbeat", "request"} ->
            IF found THEN GoTo(t, "serve") /\ UNCHANGED <<msg, obj>>
                     ELSE Return(t)
       [] msg[t].cmd = "login" ->
            GoTo(t, IF found THEN "drop" ELSE "insert") /\ UNCHANGED <<msg, obj>>
       [] OTHER ->
            GoTo(t, IF found THEN "drop" ELSE "origin") /\ UNCHANGED <<msg, obj>>
  /\ UNCHANGED <<rooms, home, sess, releasing, rel, kick, kicked, usurped>>

\* A login or fakepublish of a user that is already there: DoLeave and delete,
\* under the lock but on a second read of the map.
Drop(t) ==
  /\ pc[t] = "drop"
  /\ IF Mine(t) = NoSess
       THEN Panic
       ELSE /\ SetSession(obj[t], User(t), NoSess)
            /\ GoTo(t, IF msg[t].cmd = "login" THEN "insert" ELSE "origin")
            /\ UNCHANGED <<rooms, home, releasing, rel, kick, kicked, msg, obj, usurped>>

\* fakepublish: a room without origin session is released, not joined.
CheckOrigin(t) ==
  /\ pc[t] = "origin"
  /\ ReleaseIfNoOrigin(obj[t])
  /\ IF HasOrigin(obj[t]) THEN GoTo(t, "insert") /\ UNCHANGED <<msg, obj>>
                          ELSE Return(t)
  /\ UNCHANGED <<rooms, home, sess, releasing, kick, kicked, usurped>>

\* Mutant: SetFakeSession stores another field of the message as the pod.
Insert_WrongField(t) ==
  /\ pc[t] = "insert"
  /\ SetSession(obj[t], User(t),
                [origin |-> msg[t].cmd = "login", pod |-> Rid(t), stale |-> FALSE])
  /\ IF msg[t].cmd = "login" THEN GoTo(t, "announce") /\ UNCHANGED <<msg, obj>>
                             ELSE Return(t)
  /\ UNCHANGED <<rooms, home, releasing, rel, kick, kicked, usurped>>

\* The insertion of a fakepublish goes over whatever session the user has by now, and
\* that may be the last origin session of the room.
Usurps(t) == /\ msg[t].cmd # "login" /\ IsOrigin(Mine(t))
             /\ \A u \in Users \ {User(t)} : ~IsOrigin(sess[obj[t]][u])

\* CreateSession, SetFakeSession for a fakepublish, and the insertion.
Insert(t) ==
  /\ pc[t] = "insert"
  /\ SetSession(obj[t], User(t),
                [origin |-> msg[t].cmd = "login", pod |-> msg[t].pod,
                 stale |-> FALSE])
  /\ IF msg[t].cmd = "login" THEN GoTo(t, "announce") /\ UNCHANGED <<msg, obj>>
                             ELSE Return(t)
  /\ usurped' = IF msg[t].cmd = "login" THEN usurped \ {obj[t]}
                ELSE IF Usurps(t) THEN usurped \cup {obj[t]} ELSE usurped
  /\ UNCHANGED <<rooms, home, releasing, rel, kick, kicked>>

\* The login is acknowledged and the room's publishers are announced to the
\* user, iterating over r.sessions without lock.
Announce(t) ==
  /\ pc[t] = "announce"
  /\ Return(t)
  /\ UNCHANGED <<rooms, home, sess, releasing, rel, kick, kicked, usurped>>

\* A command for the user's session; a heartbeat makes it fresh again.  The
\* session pointer comes from a second unlocked read.
Serve(t) ==
  /\ pc[t] = "serve"
  /\ IF Mine(t) = NoSess
       THEN Panic
       ELSE /\ IF msg[t].cmd = "heartbeat"
                 THEN SetSession(obj[t], User(t), [Mine(t) EXCEPT !.stale = FALSE])
                 ELSE UNCHANGED sess
            /\ Return(t)
            /\ UNCHANGED <<rooms, home, releasing, rel, kick, kicked, usurped>>

\* KickoutFromRoom called for a logout: the critical section.
Logout(t) ==
  /\ pc[t] = "kick"
  /\ SetSession(obj[t], User(t), NoSess)
  /\ GoTo(t, "kicked")
  /\ UNCHANGED <<rooms, home, releasing, rel, kick, kicked, msg, obj, usurped>>

\* Mutant: a logout does not look whether it was the last origin session.
LogoutDone_NoRelease(t) ==
  /\ pc[t] = "kicked"
  /\ Return(t)
  /\ UNCHANGED <<rooms, home, sess, releasing, rel, kick, kicked, usurped>>

\* The rest of KickoutFromRoom.
LogoutDone(t) ==
  /\ pc[t] = "kicked"
  /\ ReleaseIfNoOrigin(obj[t])
  /\ Return(t)
  /\ UNCHANGED <<rooms, home, sess, releasing, kick, kicked, usurped>>

\* fakeunpublish removes the fake session that the same pod announced.
FakeUnpublish(t) ==
  /\ pc[t] = "unpub"
  /\ IF Mine(t) # NoSess /\ Mine(t).pod = msg[t].pod
       THEN SetSession(obj[t], User(t), NoSess)
       ELSE UNCHANGED sess
  /\ Return(t)
  /\ UNCHANGED <<rooms, home, releasing, rel, kick, kicked, usurped>>

-----------------------------------------------------------------------------
(* Goroutines other than the receivers.                                    *)

\* ReleaseRoom takes roomsLock and destroys the sessions of the room that has
\* the id now; with no such room it does nothing.
StartRelease(i) ==
  /\ rel[i] > 0 /\ RoomsLockFree
  /\ rel' = [rel EXCEPT ![i] = @ - 1]
  /\ IF rooms[i] # NoRoom
       THEN /\ sess' = [sess EXCEPT ![rooms[i]] = NoSessions]
            /\ releasing' = i
       ELSE UNCHANGED <<sess, releasing>>
  /\ UNCHANGED <<rooms, home, kick, kicked, pc, msg, obj, usurped>>

\* Mutant: the destroyed room is left in the map.
FinishRelease_Keep(i) ==
  /\ releasing = i
  /\ releasing' = NoRoom
  /\ UNCHANGED <<rooms, home, sess, rel, kick, kicked, pc, msg, obj, usurped>>

\* It then deletes the room from the map and releases roomsLock.
FinishRelease(i) ==
  /\ releasing = i
  /\ rooms' = [rooms EXCEPT ![i] = NoRoom]
  /\ releasing' = NoRoom
  /\ UNCHANGED <<home, sess, rel, kick, kicked, pc, msg, obj, usurped>>

\* Mutant: the test of sess.origin in CheckKeepAlive is inverted.
CheckKeepAlive_Inverted(i, u) ==
  /\ rooms[i] # NoRoom /\ RoomsLockFree
  /\ LET o == rooms[i] IN
       /\ sess[o][u] # NoSess /\ ~IsOrigin(sess[o][u]) /\ sess[o][u].stale
       /\ kick[o][u] + kicked[o] < MaxKick
       /\ kick' = [kick EXCEPT ![o][u] = @ + 1]
  /\ UNCHANGED <<rooms, home, sess, releasing, rel, kicked, pc, msg, obj, usurped>>

\* The 20 second ticker finds an origin session whose last heartbeat is more
\* than 60 seconds old: go KickoutFromRoom(userid).
CheckKeepAlive(i, u) ==
  /\ rooms[i] # NoRoom /\ RoomsLockFree
  /\ LET o == rooms[i] IN
       /\ IsOrigin(sess[o][u]) /\ sess[o][u].stale
       /\ kick[o][u] + kicked[o] < MaxKick
       /\ kick' = [kick EXCEPT ![o][u] = @ + 1]
  /\ UNCHANGED <<rooms, home, sess, releasing, rel, kicked, pc, msg, obj, usurped>>

\* The kickout goroutine removes whatever session the user has in the room.
Kickout(o, u) ==
  /\ kick[o][u] > 0
  /\ kick' = [kick EXCEPT ![o][u] = @ - 1]
  /\ SetSession(o, u, NoSess)
  /\ kicked' = [kicked EXCEPT ![o] = @ + 1]
  /\ UNCHANGED <<rooms, home, releasing, rel, pc, msg, obj, usurped>>

KickoutDone(o) ==
  /\ kicked[o] > 0
  /\ kicked' = [kicked EXCEPT ![o] = @ - 1]
  /\ ReleaseIfNoOrigin(o)
  /\ UNCHANGED <<rooms, home, sess, releasing, kick, pc, msg, obj, usurped>>

\* More than 60 seconds pass without a heartbeat of the session (the age of a
\* fake session is never looked at).
Age(o, u) ==
  /\ IsOrigin(sess[o][u]) /\ ~sess[o][u].stale
  /\ SetSession(o, u, [sess[o][u] EXCEPT !.stale = TRUE])
  /\ UNCHANGED <<rooms, home, releasing, rel, kick, kicked, pc, msg, obj, usurped>>

\* Go's maps detect a read that overlaps a write and end the process; they may
\* also miss it.  The unlocked reads of the two maps meet these writes.
ReadsRooms(t) == pc[t] = "lookup" \/ (pc[t] = "fetch" /\ msg[t].cmd # "login")

WritesRooms(t) == pc[t] = "create" /\ RoomsLockFree

ReadsSessions(t) == pc[t] \in {"find", "serve", "announce"}

WritesSessions(t) == \/ pc[t] \in {"drop", "kick"} /\ Mine(t) # NoSess
                     \/ pc[t] = "insert"
                     \/ pc[t] = "unpub" /\ Mine(t) # NoSess /\ Mine(t).pod = msg[t].pod

MapRace ==
  /\ \E t \in Receivers :
       \/ /\ ReadsRooms(t)
          /\ releasing # NoRoom \/ \E w \in Receivers \ {t} : WritesRooms(w)
       \/ /\ ReadsSessions(t)
          /\ \/ \E w \in Receivers \ {t} : obj[w] = obj[t] /\ WritesSessions(w)
             \/ \E u \in Users : kick[obj[t]][u] > 0 /\ sess[obj[t]][u] # NoSess
  /\ Panic

-----------------------------------------------------------------------------

\* The rest of HandleMessage once a message has been received.
Step(t) == \/ Lookup(t) \/ CreateRoom(t) \/ Fetch(t) \/ Find(t) \/ Drop(t)
           \/ CheckOrigin(t) \/ Insert(t) \/ Announce(t) \/ Serve(t)
           \/ Logout(t) \/ LogoutDone(t) \/ FakeUnpublish(t)

Next ==
  \/ \E t \in Receivers : Receive(t) \/ Step(t)
  \/ \E i \in RoomIds : StartRelease(i) \/ FinishRelease(i)
  \/ \E i \in RoomIds, u \in Users : CheckKeepAlive(i, u)
  \/ \E o \in RoomObj, u \in Users : Kickout(o, u) \/ Age(o, u)
  \/ \E o \in RoomObj : KickoutDone(o)
  \/ MapRace

Spec == Init /\ [][Next]_vars

\* Goroutines that can run do run, and the ticker ticks.  That messages arrive
\* or stop arriving, and that clients fall silent, is left open.
Fairness ==
  /\ \A t \in Receivers : WF_vars(Step(t))
  /\ \A i \in RoomIds : /\ WF_vars(StartRelease(i))
                        /\ WF_vars(FinishRelease(i))
  /\ \A i \in RoomIds, u \in Users : WF_vars(CheckKeepAlive(i, u))
  /\ \A o \in RoomObj, u \in Users : WF_vars(Kickout(o, u))
  /\ \A o \in RoomObj : WF_vars(KickoutDone(o))

FairSpec == Spec /\ Fairness

-----------------------------------------------------------------------------
(* Properties.                                                             *)

\* A receiver that will still give the room an origin session, or look whether
\* it has one: a login on its way to the room, or a logout or fakepublish that
\* has not run hasOriginSession yet.
Settles(t, i) ==
  \/ pc[t] = "fetch" /\ msg[t].cmd = "login" /\ Rid(t) = i
  \/ /\ obj[t] = rooms[i]
     /\ \/ pc[t] \in {"find", "drop", "insert"} /\ msg[t].cmd = "login"
        \/ pc[t] \in {"origin", "kicked"}

\* A room in the map has an origin session, or is being released, or has a
\* release pending, or is in the hands of a goroutine that will settle it:
\* hasOriginSession is always looked at after the last origin session went
\* (room.go 147-151 and 281-284), whatever logins, logouts, kickouts, releases
\* and announcements from other pods interleave.  Without it a room, its fake
\* sessions and their media would stay for ever.  The one exception: a fakepublish
\* stores its session (room.go 155-157) over that of a user who has logged in here since
\* it looked, and nobody looks again when that was the last origin one (usurped).
NoZombieRoom ==
  \A i \in RoomIds :
    rooms[i] # NoRoom /\ ~HasOrigin(rooms[i]) /\ rooms[i] \notin usurped
      => \/ rel[i] > 0 \/ releasing = i
         \/ kicked[rooms[i]] > 0
         \/ \E t \in Receivers : Settles(t, i)

\* A room that is left without origin session does not stay in the map that
\* way: it is released, replaced, or somebody logs in (roommgr.ReleaseRoom), unless
\* its last origin session was usurped.
EmptyRoomReleased ==
  \A i \in RoomIds, o \in RoomObj :
    (rooms[i] = o /\ ~HasOrigin(o))
      ~> (rooms[i] # o \/ HasOrigin(o) \/ o \in usurped \/ Crashed)

\* A client of a room in the map that stops sending heartbeats is kicked out,
\* unless it is heard of again or the room goes (session.CheckKeepAlive).
SilentClientLeaves ==
  \A i \in RoomIds, o \in RoomObj, u \in Users :
    (rooms[i] = o /\ IsOrigin(sess[o][u]) /\ sess[o][u].stale)
      ~> (rooms[i] # o \/ ~IsOrigin(sess[o][u]) \/ ~sess[o][u].stale \/ Crashed)

\* The room released is one without origin session, as the condition at
\* room.go 147 and 281 says.
ReleasesOnlyAbandonedRooms ==
  [][\A i \in RoomIds :
       StartRelease(i) /\ rooms[i] # NoRoom => ~HasOrigin(rooms[i])]_vars

=============================================================================
