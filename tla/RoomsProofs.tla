---------------------------- MODULE RoomsProofs ----------------------------
(* Proofs about Rooms, for any sets of rooms, users, pods and receivers.   *)
EXTENDS Rooms, TLAPS

\* A receiver past the start of HandleMessage has a message in hand, and past
\* Fetch it has a room object; which commands reach which step.
Busy == PC \ {"idle", "dead"}

InRoom == {"find", "drop", "origin", "insert", "announce", "serve", "kick",
           "kicked", "unpub"}

ReceiverOK ==
  \A t \in Receivers :
    /\ pc[t] \in Busy => msg[t] \in Message
    /\ pc[t] \in InRoom => obj[t] \in RoomObj
    /\ pc[t] = "create" => msg[t].cmd = "login"
    /\ pc[t] \in {"drop", "insert"} => msg[t].cmd \in {"login", "fakepublish"}
    /\ pc[t] = "find"
         => msg[t].cmd \in {"login", "fakepublish", "heartbeat", "request"}
    /\ pc[t] = "origin" => msg[t].cmd = "fakepublish"
    /\ pc[t] = "kick" => msg[t].cmd = "logout"
    /\ pc[t] = "unpub" => msg[t].cmd = "fakeunpublish"

\* The room found under an id has that id.
HomeOK == \A i \in RoomIds : rooms[i] # NoRoom => home[rooms[i]] = i

\* Only users of this pod have origin sessions, and those carry no pod id.
OriginOK == \A o \in RoomObj, u \in Users :
              IsOrigin(sess[o][u]) => u \in LocalUsers /\ sess[o][u].pod = NoPod

IInv == TypeOK /\ ReceiverOK /\ HomeOK /\ OriginOK /\ NoZombieRoom

-----------------------------------------------------------------------------
\* What the message in a busy receiver's hand looks like.
LEMMA MsgFacts ==
  ASSUME ReceiverOK, NEW t \in Receivers, pc[t] \in Busy
  PROVE  /\ Rid(t) \in RoomIds /\ User(t) \in Users
         /\ msg[t].pod \in Pods \cup {NoPod}
         /\ msg[t].cmd = "login" => User(t) \in LocalUsers /\ msg[t].pod = NoPod
         /\ msg[t].cmd \in {"fakepublish", "fakeunpublish"}
              => User(t) \in RemoteUsers /\ msg[t].pod \in Pods
BY DEF ReceiverOK, Rid, User, Users, Message

\* After a panic nothing is left to go wrong.
LEMMA PanicStep == TypeOK /\ Panic => IInv'
<1> SUFFICES ASSUME TypeOK, Panic PROVE IInv'
  OBVIOUS
<1> USE NilAssumption DEF Panic
<1>1. TypeOK'
  BY DEF TypeOK, NoSessions, PC
<1>2. ReceiverOK'
  BY DEF ReceiverOK, Busy, InRoom, PC
<1>3. HomeOK' /\ NoZombieRoom'
  BY DEF HomeOK, NoZombieRoom
<1>4. OriginOK'
  BY DEF OriginOK, IsOrigin, NoSessions
<1> QED BY <1>1, <1>2, <1>3, <1>4 DEF IInv

\* What writing one session changes in the rooms' session maps.
LEMMA SetSessionFacts ==
  ASSUME TypeOK, NEW o \in RoomObj, NEW u \in Users, NEW s \in Session \cup {NoSess},
         SetSession(o, u, s)
  PROVE  /\ sess' \in [RoomObj -> [Users -> Session \cup {NoSess}]]
         /\ \A p \in RoomObj, w \in Users :
              sess'[p][w] = IF p = o /\ w = u THEN s ELSE sess[p][w]
         /\ \A p \in RoomObj : p # o => (HasOrigin(p)' <=> HasOrigin(p))
         /\ (IsOrigin(sess[o][u]) => IsOrigin(s))
              => \A p \in RoomObj : HasOrigin(p) => HasOrigin(p)'
<1> USE DEF TypeOK
<1>1. sess' = [sess EXCEPT ![o] = [sess[o] EXCEPT ![u] = s]]
  BY DEF SetSession
<1>2. sess' \in [RoomObj -> [Users -> Session \cup {NoSess}]]
  BY <1>1
<1>3. \A p \in RoomObj, w \in Users :
         sess'[p][w] = IF p = o /\ w = u THEN s ELSE sess[p][w]
  BY <1>1
<1>4. \A p \in RoomObj : p # o => (HasOrigin(p)' <=> HasOrigin(p))
  BY <1>3 DEF HasOrigin
<1>5. (IsOrigin(sess[o][u]) => IsOrigin(s))
         => \A p \in RoomObj : HasOrigin(p) => HasOrigin(p)'
  BY <1>3 DEF HasOrigin
<1> QED BY <1>2, <1>3, <1>4, <1>5

\* Changing the age of a session changes nothing else about it.
LEMMA StaleFacts ==
  ASSUME TypeOK, OriginOK, NEW o \in RoomObj, NEW u \in Users, sess[o][u] # NoSess,
         NEW b \in BOOLEAN, SetSession(o, u, [sess[o][u] EXCEPT !.stale = b])
  PROVE  /\ sess' \in [RoomObj -> [Users -> Session \cup {NoSess}]]
         /\ \A p \in RoomObj : HasOrigin(p) => HasOrigin(p)'
         /\ OriginOK'
<1> DEFINE s == [sess[o][u] EXCEPT !.stale = b]
<1>1. sess[o][u] \in Session
  BY DEF TypeOK
<1>2. s \in Session /\ s.origin = sess[o][u].origin /\ s.pod = sess[o][u].pod
  BY <1>1 DEF Session
<1>3. SetSession(o, u, s)
  OBVIOUS
<1> HIDE DEF s
<1>4. s # NoSess
  BY <1>2, NilAssumption
<1>5. IsOrigin(s) <=> IsOrigin(sess[o][u])
  BY <1>2, <1>4 DEF IsOrigin
<1>6. /\ sess' \in [RoomObj -> [Users -> Session \cup {NoSess}]]
      /\ \A p \in RoomObj, w \in Users :
           sess'[p][w] = IF p = o /\ w = u THEN s ELSE sess[p][w]
      /\ \A p \in RoomObj : HasOrigin(p) => HasOrigin(p)'
  BY <1>2, <1>3, <1>5, SetSessionFacts
<1>7. OriginOK'
  BY <1>2, <1>5, <1>6 DEF OriginOK
<1> QED BY <1>6, <1>7

\* What the check for a last origin session does to the pending releases.
LEMMA ReleaseFacts ==
  ASSUME TypeOK, NEW o \in RoomObj, ReleaseIfNoOrigin(o)
  PROVE  /\ rel' \in [RoomIds -> Nat]
         /\ \A i \in RoomIds : rel[i] > 0 => rel'[i] > 0
         /\ ~HasOrigin(o) => rel'[home[o]] > 0
<1>1. home[o] \in RoomIds /\ rel \in [RoomIds -> Nat]
  BY DEF TypeOK
<1>2. CASE HasOrigin(o)
  BY <1>1, <1>2 DEF ReleaseIfNoOrigin
<1>3. CASE ~HasOrigin(o)
  BY <1>1, <1>3 DEF ReleaseIfNoOrigin
<1> QED BY <1>2, <1>3

\* NoZombieRoom with its conclusion named.
Covered(i) == \/ rel[i] > 0 \/ releasing = i
              \/ kicked[rooms[i]] > 0
              \/ \E t \in Receivers : Settles(t, i)

LEMMA ZombieDef ==
  NoZombieRoom <=> \A i \in RoomIds :
                     rooms[i] # NoRoom /\ ~HasOrigin(rooms[i]) /\ rooms[i] \notin usurped
                       => Covered(i)
BY DEF NoZombieRoom, Covered

\* The inductive invariant holds at the start.
LEMMA InitIInv == Init => IInv
<1> SUFFICES ASSUME Init PROVE IInv
  OBVIOUS
<1> USE NilAssumption DEF Init
<1>1. TypeOK
  BY DEF TypeOK, NoSessions, PC
<1>2. ReceiverOK
  BY DEF ReceiverOK, Busy, InRoom, PC
<1>3. HomeOK /\ NoZombieRoom
  BY DEF HomeOK, NoZombieRoom
<1>4. OriginOK
  BY DEF OriginOK, IsOrigin, NoSessions
<1> QED BY <1>1, <1>2, <1>3, <1>4 DEF IInv

\* Receive preserves the inductive invariant.
LEMMA ReceiveStep ==
  ASSUME IInv, NEW t \in Receivers, Receive(t)
  PROVE  IInv'
<1> USE NilAssumption, BoundAssumption DEF IInv
<1>1. TypeOK'
  BY DEF TypeOK, Receive, GoTo, PC
<1>2. ReceiverOK'
  BY <1>1 DEF ReceiverOK, TypeOK, Receive, GoTo, Busy, InRoom, PC
<1>3. HomeOK'
  BY <1>1 DEF HomeOK, TypeOK, Receive, GoTo
<1>4. OriginOK'
  BY <1>1 DEF OriginOK, TypeOK, Receive, GoTo, IsOrigin, Session, ReceiverOK, InRoom
<1>5. NoZombieRoom'
  BY SMTT(60), <1>1 DEF NoZombieRoom, Settles, HasOrigin, IsOrigin, TypeOK, Receive, GoTo, ReceiverOK, InRoom, HomeOK, Rid
<1> QED BY <1>1, <1>2, <1>3, <1>4, <1>5

\* Lookup preserves the inductive invariant.
LEMMA LookupStep ==
  ASSUME IInv, NEW t \in Receivers, Lookup(t)
  PROVE  IInv'
<1> USE NilAssumption, BoundAssumption DEF IInv
<1>0. pc[t] \in Busy
  BY DEF Lookup, Busy, PC
<1>a. /\ Rid(t) \in RoomIds /\ User(t) \in Users
      /\ msg[t].pod \in Pods \cup {NoPod}
      /\ msg[t].cmd = "login" => User(t) \in LocalUsers /\ msg[t].pod = NoPod
      /\ msg[t].cmd \in {"fakepublish", "fakeunpublish"}
           => User(t) \in RemoteUsers /\ msg[t].pod \in Pods
  BY <1>0, MsgFacts
<1>w. \A w \in Receivers \ {t} : /\ pc'[w] = pc[w] /\ msg'[w] = msg[w]
                                 /\ obj'[w] = obj[w]
  BY DEF TypeOK, Lookup, GoTo, Return
<1>c. /\ UNCHANGED <<rooms, home, sess, releasing, rel, kick, kicked, usurped>>
      /\ \/ GoTo(t, "fetch") /\ UNCHANGED <<msg, obj>>
         \/ msg[t].cmd = "login" /\ GoTo(t, "create") /\ UNCHANGED <<msg, obj>>
         \/ rooms[Rid(t)] = NoRoom /\ Return(t)
  BY DEF Lookup
<1>1. TypeOK'
  BY <1>c DEF TypeOK, GoTo, Return, PC
<1>2. ReceiverOK'
  <2>1. pc'[t] \in {"fetch", "create", "idle"} /\ (pc'[t] = "create" => msg'[t].cmd = "login")
    BY <1>c DEF GoTo, Return, TypeOK
  <2>2. pc'[t] \in Busy => msg'[t] \in Message
    BY <1>0, <1>c DEF ReceiverOK, GoTo, Return, TypeOK, Busy
  <2> QED BY <1>w, <2>1, <2>2 DEF ReceiverOK, InRoom
<1>3. HomeOK' /\ OriginOK'
  BY <1>c DEF HomeOK, OriginOK
<1>4. NoZombieRoom'
  <2> SUFFICES ASSUME NEW i \in RoomIds, rooms'[i] # NoRoom, ~HasOrigin(rooms[i])',
                      rooms'[i] \notin usurped'
               PROVE  Covered(i)'
    BY DEF NoZombieRoom, Covered
  <2>1. ~HasOrigin(rooms[i]) /\ Covered(i)
    BY <1>c, ZombieDef DEF HasOrigin
  <2>2. ~Settles(t, i)
    BY DEF Settles, Lookup
  <2>3. \A w \in Receivers \ {t} : Settles(w, i) => Settles(w, i)'
    BY <1>c, <1>w DEF Settles, Rid
  <2> QED BY <1>c, <2>1, <2>2, <2>3 DEF Covered
<1> QED BY <1>1, <1>2, <1>3, <1>4

\* CreateRoom preserves the inductive invariant.
LEMMA CreateRoomStep ==
  ASSUME IInv, NEW t \in Receivers, CreateRoom(t)
  PROVE  IInv'
<1> USE NilAssumption, BoundAssumption DEF IInv
<1>0. pc[t] \in Busy
  BY DEF CreateRoom, Busy, PC
<1>a. /\ Rid(t) \in RoomIds /\ User(t) \in Users
      /\ msg[t].pod \in Pods \cup {NoPod}
      /\ msg[t].cmd = "login" => User(t) \in LocalUsers /\ msg[t].pod = NoPod
      /\ msg[t].cmd \in {"fakepublish", "fakeunpublish"}
           => User(t) \in RemoteUsers /\ msg[t].pod \in Pods
  BY <1>0, MsgFacts
<1>1. TypeOK'
  BY <1>a, <1>0 DEF TypeOK, CreateRoom, GoTo, PC, ReceiverOK, InRoom, Session
<1>2. ReceiverOK'
  BY <1>a, <1>1 DEF ReceiverOK, TypeOK, CreateRoom, GoTo, Busy, InRoom, PC
<1>3. HomeOK'
  BY <1>a, <1>1 DEF HomeOK, TypeOK, CreateRoom, GoTo, Fresh
<1>4. OriginOK'
  BY <1>a, <1>1 DEF OriginOK, TypeOK, CreateRoom, GoTo, IsOrigin, Session, ReceiverOK, InRoom
<1>5. NoZombieRoom'
  <2> SUFFICES ASSUME NEW i \in RoomIds, rooms'[i] # NoRoom, ~HasOrigin(rooms[i])',
                      rooms'[i] \notin usurped'
               PROVE  Covered(i)'
    BY DEF NoZombieRoom, Covered
  <2>1. CASE i = Rid(t)
    BY <1>a, <2>1 DEF Covered, Settles, CreateRoom, GoTo, Rid, ReceiverOK, TypeOK
  <2>2. CASE i # Rid(t)
    <3>1. rooms'[i] = rooms[i] /\ UNCHANGED <<sess, rel, releasing, kicked, msg, obj>>
      BY <1>a, <2>2 DEF CreateRoom, TypeOK
    <3>2. rooms[i] \notin usurped
      BY <3>1 DEF CreateRoom, Fresh
    <3>3. Covered(i)
      BY <3>1, <3>2, ZombieDef DEF HasOrigin
    <3>4. \A w \in Receivers : Settles(w, i) => Settles(w, i)'
      BY <3>1 DEF Settles, Rid, CreateRoom, GoTo, TypeOK
    <3> QED BY <3>1, <3>3, <3>4 DEF Covered
  <2> QED BY <2>1, <2>2
<1> QED BY <1>1, <1>2, <1>3, <1>4, <1>5

\* Fetch preserves the inductive invariant.
LEMMA FetchStep ==
  ASSUME IInv, NEW t \in Receivers, Fetch(t)
  PROVE  IInv'
<1> USE NilAssumption, BoundAssumption DEF IInv
<1>0. pc[t] \in Busy
  BY DEF Fetch, Busy, PC
<1>a. /\ Rid(t) \in RoomIds /\ User(t) \in Users
      /\ msg[t].pod \in Pods \cup {NoPod}
      /\ msg[t].cmd = "login" => User(t) \in LocalUsers /\ msg[t].pod = NoPod
      /\ msg[t].cmd \in {"fakepublish", "fakeunpublish"}
           => User(t) \in RemoteUsers /\ msg[t].pod \in Pods
  BY <1>0, MsgFacts
<1>p. CASE Panic
  BY <1>p, PanicStep
<1>q. CASE ~Panic
  <2>1. TypeOK'
    BY ZenonT(60), <1>q, <1>a, <1>0 DEF TypeOK, Fetch, GoTo, Entry, PC, ReceiverOK, InRoom, Session
  <2>2. ReceiverOK'
    <3>1. /\ pc' = [pc EXCEPT ![t] = Entry(msg[t].cmd)] /\ UNCHANGED msg
          /\ obj' = [obj EXCEPT ![t] = rooms[Rid(t)]] /\ rooms[Rid(t)] \in RoomObj
      BY <1>q, <1>a DEF Fetch, GoTo, TypeOK
    <3>2. msg[t] \in Message
      BY <1>0 DEF ReceiverOK
    <3>3. /\ pc'[t] = "kick" => msg[t].cmd = "logout"
          /\ pc'[t] = "unpub" => msg[t].cmd = "fakeunpublish"
          /\ pc'[t] = "find"
               => msg[t].cmd \in {"login", "fakepublish", "heartbeat", "request"}
          /\ pc'[t] \in {"kick", "unpub", "find"}
      BY <3>1, <3>2 DEF Entry, TypeOK, Message
    <3> QED BY <3>1, <3>2, <3>3 DEF ReceiverOK, TypeOK
  <2>3. HomeOK'
    BY <1>q, <1>a, <2>1 DEF HomeOK, TypeOK, Fetch, GoTo, Entry
  <2>4. OriginOK'
    BY <1>q, <1>a, <2>1 DEF OriginOK, TypeOK, Fetch, GoTo, Entry, IsOrigin, Session, ReceiverOK, InRoom
  <2>5. NoZombieRoom'
    <3>c. /\ pc' = [pc EXCEPT ![t] = Entry(msg[t].cmd)]
          /\ obj' = [obj EXCEPT ![t] = rooms[Rid(t)]]
          /\ UNCHANGED <<rooms, sess, rel, releasing, kicked, msg, usurped>>
      BY <1>q DEF Fetch, GoTo
    <3> SUFFICES ASSUME NEW i \in RoomIds, rooms'[i] # NoRoom, ~HasOrigin(rooms[i])',
                        rooms'[i] \notin usurped'
                 PROVE  Covered(i)'
      BY DEF NoZombieRoom, Covered
    <3>1. Covered(i)
      BY <3>c, ZombieDef DEF HasOrigin
    <3>2. Settles(t, i) => Settles(t, i)'
      BY <3>c DEF Settles, Rid, Entry, Fetch, TypeOK
    <3>3. \A w \in Receivers \ {t} : Settles(w, i) => Settles(w, i)'
      BY <3>c DEF Settles, Rid, TypeOK
    <3> QED BY <3>c, <3>1, <3>2, <3>3 DEF Covered
  <2> QED BY <2>1, <2>2, <2>3, <2>4, <2>5
<1> QED BY <1>p, <1>q

\* Find preserves the inductive invariant.
LEMMA FindStep ==
  ASSUME IInv, NEW t \in Receivers, Find(t)
  PROVE  IInv'
<1> USE NilAssumption, BoundAssumption DEF IInv
<1>0. pc[t] \in Busy
  BY DEF Find, Busy, PC
<1>a. /\ Rid(t) \in RoomIds /\ User(t) \in Users
      /\ msg[t].pod \in Pods \cup {NoPod}
      /\ msg[t].cmd = "login" => User(t) \in LocalUsers /\ msg[t].pod = NoPod
      /\ msg[t].cmd \in {"fakepublish", "fakeunpublish"}
           => User(t) \in RemoteUsers /\ msg[t].pod \in Pods
  BY <1>0, MsgFacts
<1>b. obj[t] \in RoomObj
  BY DEF Find, ReceiverOK, InRoom
<1>w. \A w \in Receivers \ {t} : /\ pc'[w] = pc[w] /\ msg'[w] = msg[w]
                                 /\ obj'[w] = obj[w]
  BY DEF TypeOK, Find, GoTo, Return

<1>c. /\ UNCHANGED <<rooms, home, sess, releasing, rel, kick, kicked, usurped>>
      /\ \/ GoTo(t, "serve") /\ UNCHANGED <<msg, obj>>
         \/ msg[t].cmd \in {"heartbeat", "request"} /\ Return(t)
         \/ msg[t].cmd = "login" /\ GoTo(t, "drop") /\ UNCHANGED <<msg, obj>>
         \/ msg[t].cmd = "login" /\ GoTo(t, "insert") /\ UNCHANGED <<msg, obj>>
         \/ msg[t].cmd = "fakepublish" /\ GoTo(t, "drop") /\ UNCHANGED <<msg, obj>>
         \/ msg[t].cmd = "fakepublish" /\ GoTo(t, "origin") /\ UNCHANGED <<msg, obj>>
  BY DEF Find, ReceiverOK
<1>d. GoTo(t, "serve") => msg[t].cmd \in {"heartbeat", "request"}
  BY DEF Find, ReceiverOK, GoTo, Return, TypeOK
<1>1. TypeOK'
  BY <1>c DEF TypeOK, GoTo, Return, PC
<1>2. ReceiverOK'
  BY <1>a, <1>0, <1>b, <1>c, <1>w DEF ReceiverOK, TypeOK, GoTo, Return, Busy, InRoom, PC
<1>3. HomeOK'
  BY <1>c DEF HomeOK
<1>4. OriginOK'
  BY <1>c DEF OriginOK
<1>5. NoZombieRoom'
  <2> SUFFICES ASSUME NEW i \in RoomIds, rooms'[i] # NoRoom, ~HasOrigin(rooms[i])',
                      rooms'[i] \notin usurped'
               PROVE  Covered(i)'
    BY DEF NoZombieRoom, Covered

  <2>1. ~HasOrigin(rooms[i]) /\ Covered(i)
    BY <1>c, ZombieDef DEF HasOrigin
  <2>2. Settles(t, i) => Settles(t, i)'
    BY <1>c, <1>d DEF Settles, Rid, GoTo, Return, Find, TypeOK
  <2>3. \A w \in Receivers \ {t} : Settles(w, i) => Settles(w, i)'
    BY <1>c, <1>w DEF Settles, Rid
  <2> QED BY <1>c, <2>1, <2>2, <2>3 DEF Covered
<1> QED BY <1>1, <1>2, <1>3, <1>4, <1>5

\* Drop preserves the inductive invariant.
LEMMA DropStep ==
  ASSUME IInv, NEW t \in Receivers, Drop(t)
  PROVE  IInv'
<1> USE NilAssumption, BoundAssumption DEF IInv
<1>0. pc[t] \in Busy
  BY DEF Drop, Busy, PC
<1>a. /\ Rid(t) \in RoomIds /\ User(t) \in Users
      /\ msg[t].pod \in Pods \cup {NoPod}
      /\ msg[t].cmd = "login" => User(t) \in LocalUsers /\ msg[t].pod = NoPod
      /\ msg[t].cmd \in {"fakepublish", "fakeunpublish"}
           => User(t) \in RemoteUsers /\ msg[t].pod \in Pods
  BY <1>0, MsgFacts
<1>b. obj[t] \in RoomObj
  BY DEF Drop, ReceiverOK, InRoom
<1>p. CASE Panic
  BY <1>p, PanicStep
<1>q. CASE ~Panic
  <2>w. \A w \in Receivers \ {t} : /\ pc'[w] = pc[w] /\ msg'[w] = msg[w]
                                   /\ obj'[w] = obj[w]
    BY <1>q DEF TypeOK, Drop, GoTo
  <2>c. SetSession(obj[t], User(t), NoSess)
    BY <1>q DEF Drop
  <2>e. /\ sess' \in [RoomObj -> [Users -> Session \cup {NoSess}]]
        /\ \A p \in RoomObj, w \in Users :
             sess'[p][w] = IF p = obj[t] /\ w = User(t) THEN NoSess ELSE sess[p][w]
        /\ \A p \in RoomObj : p # obj[t] => (HasOrigin(p)' <=> HasOrigin(p))
    BY <1>a, <1>b, <2>c, SetSessionFacts
  <2>1. TypeOK'
    BY <1>q, <2>e DEF TypeOK, Drop, GoTo, PC
  <2>2. ReceiverOK'
    BY <1>q, <1>a, <1>b, <2>w, <2>1 DEF ReceiverOK, TypeOK, Drop, GoTo, Busy, InRoom, PC
  <2>3. HomeOK'
    BY <1>q DEF HomeOK, Drop
  <2>4. OriginOK'
    BY <2>e DEF OriginOK, IsOrigin
  <2>5. NoZombieRoom'
    <3> SUFFICES ASSUME NEW i \in RoomIds, rooms'[i] # NoRoom, ~HasOrigin(rooms[i])',
                        rooms'[i] \notin usurped'
                 PROVE  Covered(i)'
      BY DEF NoZombieRoom, Covered
    <3>1. CASE obj[t] = rooms[i]
      BY <1>q, <3>1 DEF Covered, Settles, Drop, GoTo, TypeOK, ReceiverOK
    <3>2. CASE obj[t] # rooms[i]
      <4>1. ~HasOrigin(rooms[i]) /\ Covered(i)
        BY <1>q, <2>e, <3>2, ZombieDef DEF Drop, TypeOK
      <4>2. ~Settles(t, i)
        BY <3>2 DEF Settles, Drop
      <4>3. \A w \in Receivers \ {t} : Settles(w, i) => Settles(w, i)'
        BY <1>q, <2>w DEF Settles, Rid, Drop
      <4> QED BY <1>q, <4>1, <4>2, <4>3 DEF Covered, Drop
    <3> QED BY <3>1, <3>2
  <2> QED BY <2>1, <2>2, <2>3, <2>4, <2>5
<1> QED BY <1>p, <1>q

\* CheckOrigin preserves the inductive invariant.
LEMMA CheckOriginStep ==
  ASSUME IInv, NEW t \in Receivers, CheckOrigin(t)
  PROVE  IInv'
<1> USE NilAssumption, BoundAssumption DEF IInv
<1>0. pc[t] \in Busy
  BY DEF CheckOrigin, Busy, PC
<1>a. /\ Rid(t) \in RoomIds /\ User(t) \in Users
      /\ msg[t].pod \in Pods \cup {NoPod}
      /\ msg[t].cmd = "login" => User(t) \in LocalUsers /\ msg[t].pod = NoPod
      /\ msg[t].cmd \in {"fakepublish", "fakeunpublish"}
           => User(t) \in RemoteUsers /\ msg[t].pod \in Pods
  BY <1>0, MsgFacts
<1>b. obj[t] \in RoomObj
  BY DEF CheckOrigin, ReceiverOK, InRoom
<1>w. \A w \in Receivers \ {t} : /\ pc'[w] = pc[w] /\ msg'[w] = msg[w]
                                 /\ obj'[w] = obj[w]
  BY DEF TypeOK, CheckOrigin, GoTo, Return
<1>c. /\ rel' \in [RoomIds -> Nat]
      /\ \A i \in RoomIds : rel[i] > 0 => rel'[i] > 0
      /\ ~HasOrigin(obj[t]) => rel'[home[obj[t]]] > 0
  BY <1>b, ReleaseFacts DEF CheckOrigin

<1>1. TypeOK'
  BY <1>c DEF TypeOK, CheckOrigin, GoTo, Return, PC
<1>2. ReceiverOK'
  BY <1>a, <1>b, <1>w, <1>1 DEF ReceiverOK, TypeOK, CheckOrigin, GoTo, Return, Busy, InRoom, PC
<1>3. HomeOK'
  BY DEF HomeOK, CheckOrigin
<1>4. OriginOK'
  BY DEF OriginOK, CheckOrigin
<1>5. NoZombieRoom'
  <2> SUFFICES ASSUME NEW i \in RoomIds, rooms'[i] # NoRoom, ~HasOrigin(rooms[i])',
                      rooms'[i] \notin usurped'
               PROVE  Covered(i)'
    BY DEF NoZombieRoom, Covered
  <2>1. ~HasOrigin(rooms[i]) /\ Covered(i) /\ rooms[i] # NoRoom
    BY ZombieDef DEF HasOrigin, CheckOrigin
  <2>2. Settles(t, i) => rel'[i] > 0
    BY <1>c, <2>1 DEF Settles, HomeOK, CheckOrigin
  <2>3. \A w \in Receivers \ {t} : Settles(w, i) => Settles(w, i)'
    BY <1>w DEF Settles, Rid, CheckOrigin
  <2>4. rel[i] > 0 => rel'[i] > 0
    BY <1>c
  <2> QED BY <2>1, <2>2, <2>3, <2>4 DEF Covered, CheckOrigin
<1> QED BY <1>1, <1>2, <1>3, <1>4, <1>5

\* Insert preserves the inductive invariant.
LEMMA InsertStep ==
  ASSUME IInv, NEW t \in Receivers, Insert(t)
  PROVE  IInv'
<1> USE NilAssumption, BoundAssumption DEF IInv
<1>0. pc[t] \in Busy
  BY DEF Insert, Busy, PC
<1>a. /\ Rid(t) \in RoomIds /\ User(t) \in Users
      /\ msg[t].pod \in Pods \cup {NoPod}
      /\ msg[t].cmd = "login" => User(t) \in LocalUsers /\ msg[t].pod = NoPod
      /\ msg[t].cmd \in {"fakepublish", "fakeunpublish"}
           => User(t) \in RemoteUsers /\ msg[t].pod \in Pods
  BY <1>0, MsgFacts
<1>b. obj[t] \in RoomObj
  BY DEF Insert, ReceiverOK, InRoom
<1>w. \A w \in Receivers \ {t} : /\ pc'[w] = pc[w] /\ msg'[w] = msg[w]
                                 /\ obj'[w] = obj[w]
  BY DEF TypeOK, Insert, GoTo, Return

<1> DEFINE s == [origin |-> msg[t].cmd = "login", pod |-> msg[t].pod, stale |-> FALSE]
<1>c. s \in Session /\ SetSession(obj[t], User(t), s) /\ (IsOrigin(s) <=> msg[t].cmd = "login")
  <2>1. s \in Session
    BY <1>a DEF Session
  <2>2. s # NoSess /\ s.origin = (msg[t].cmd = "login")
    BY <2>1
  <2> QED BY <2>1, <2>2 DEF Insert, IsOrigin
<1> HIDE DEF s
<1>e. /\ sess' \in [RoomObj -> [Users -> Session \cup {NoSess}]]
      /\ \A p \in RoomObj, w \in Users :
           sess'[p][w] = IF p = obj[t] /\ w = User(t) THEN s ELSE sess[p][w]
  BY <1>a, <1>b, <1>c, SetSessionFacts
<1>d. usurped' = IF msg[t].cmd = "login" THEN usurped \ {obj[t]}
                 ELSE IF Usurps(t) THEN usurped \cup {obj[t]} ELSE usurped
  BY DEF Insert
<1>h. ASSUME NEW p \in RoomObj, ~HasOrigin(p)', p \notin usurped'
      PROVE  ~HasOrigin(p) /\ p \notin usurped /\ (p = obj[t] => msg[t].cmd # "login")
  <2>1. \A w \in Users : ~IsOrigin(sess'[p][w])
    BY <1>h DEF HasOrigin
  <2>2. p = obj[t] => msg[t].cmd # "login"
    BY <1>a, <1>c, <1>e, <2>1
  <2>3. \A w \in Users : (p # obj[t] \/ w # User(t)) => ~IsOrigin(sess[p][w])
    BY <1>e, <2>1
  <2>4. p = obj[t] => ~IsOrigin(sess[p][User(t)])
    <3> SUFFICES ASSUME p = obj[t], IsOrigin(sess[p][User(t)]) PROVE FALSE
      OBVIOUS
    <3>1. Usurps(t)
      BY <2>2, <2>3 DEF Usurps, Mine
    <3> QED BY <1>d, <1>h, <2>2, <3>1
  <2>5. ~HasOrigin(p)
    BY <2>3, <2>4 DEF HasOrigin
  <2>6. p \notin usurped
    BY <1>d, <1>h, <2>2
  <2> QED BY <2>2, <2>5, <2>6
<1>1. TypeOK'
  <2>1. /\ pc' \in [Receivers -> PC]
        /\ msg' \in [Receivers -> Message \cup {NoMsg}]
        /\ obj' \in [Receivers -> RoomObj \cup {NoRoom}]
    <3>1. \/ GoTo(t, "announce") /\ UNCHANGED <<msg, obj>>
          \/ Return(t)
      BY DEF Insert
    <3> QED BY <3>1 DEF TypeOK, GoTo, Return, PC
  <2>2. usurped' \subseteq RoomObj
    BY <1>b, <1>d DEF TypeOK
  <2> QED BY <1>e, <2>1, <2>2 DEF IInv, TypeOK, Insert
<1>2. ReceiverOK'
  BY <1>a, <1>1, <1>w DEF ReceiverOK, TypeOK, Insert, GoTo, Return, Busy, InRoom, PC
<1>3. HomeOK'
  BY DEF HomeOK, Insert
<1>4. OriginOK'
  <2>1. IsOrigin(s) => User(t) \in LocalUsers /\ s.pod = NoPod
    BY <1>a, <1>c DEF s
  <2> QED BY <1>e, <2>1 DEF OriginOK
<1>5. NoZombieRoom'
  <2> SUFFICES ASSUME NEW i \in RoomIds, rooms'[i] # NoRoom, ~HasOrigin(rooms[i])',
                      rooms'[i] \notin usurped'
               PROVE  Covered(i)'
    BY DEF NoZombieRoom, Covered

  <2>1. rooms[i] \in RoomObj /\ UNCHANGED rooms
    BY DEF Insert, TypeOK
  <2>2. /\ ~HasOrigin(rooms[i]) /\ Covered(i)
        /\ rooms[i] = obj[t] => msg[t].cmd # "login"
    BY <1>h, <2>1, ZombieDef DEF HasOrigin
  <2>3. ~Settles(t, i)
    BY <2>2 DEF Settles, Insert
  <2>4. \A w \in Receivers \ {t} : Settles(w, i) => Settles(w, i)'
    BY <1>w DEF Settles, Rid, Insert
  <2> QED BY <2>1, <2>2, <2>3, <2>4 DEF Covered, Insert
<1> QED BY <1>1, <1>2, <1>3, <1>4, <1>5

\* Announce preserves the inductive invariant.
LEMMA AnnounceStep ==
  ASSUME IInv, NEW t \in Receivers, Announce(t)
  PROVE  IInv'
<1> USE NilAssumption, BoundAssumption DEF IInv
<1>0. pc[t] \in Busy
  BY DEF Announce, Busy, PC
<1>a. /\ Rid(t) \in RoomIds /\ User(t) \in Users
      /\ msg[t].pod \in Pods \cup {NoPod}
      /\ msg[t].cmd = "login" => User(t) \in LocalUsers /\ msg[t].pod = NoPod
      /\ msg[t].cmd \in {"fakepublish", "fakeunpublish"}
           => User(t) \in RemoteUsers /\ msg[t].pod \in Pods
  BY <1>0, MsgFacts
<1>1. TypeOK'
  BY <1>a, <1>0 DEF TypeOK, Announce, GoTo, Return, PC, ReceiverOK, InRoom, Session
<1>2. ReceiverOK'
  BY <1>a, <1>1 DEF ReceiverOK, TypeOK, Announce, GoTo, Return, Busy, InRoom, PC
<1>3. HomeOK'
  BY <1>a, <1>1 DEF HomeOK, TypeOK, Announce, GoTo, Return
<1>4. OriginOK'
  BY <1>a, <1>1 DEF OriginOK, TypeOK, Announce, GoTo, Return, IsOrigin, Session, ReceiverOK, InRoom
<1>5. NoZombieRoom'
  BY <1>a, <1>1 DEF NoZombieRoom, Settles, HasOrigin, IsOrigin, TypeOK, Announce, GoTo, Return, ReceiverOK, InRoom, HomeOK, Rid
<1> QED BY <1>1, <1>2, <1>3, <1>4, <1>5

\* Serve preserves the inductive invariant.
LEMMA ServeStep ==
  ASSUME IInv, NEW t \in Receivers, Serve(t)
  PROVE  IInv'
<1> USE NilAssumption, BoundAssumption DEF IInv
<1>0. pc[t] \in Busy
  BY DEF Serve, Busy, PC
<1>a. /\ Rid(t) \in RoomIds /\ User(t) \in Users
      /\ msg[t].pod \in Pods \cup {NoPod}
      /\ msg[t].cmd = "login" => User(t) \in LocalUsers /\ msg[t].pod = NoPod
      /\ msg[t].cmd \in {"fakepublish", "fakeunpublish"}
           => User(t) \in RemoteUsers /\ msg[t].pod \in Pods
  BY <1>0, MsgFacts
<1>b. obj[t] \in RoomObj
  BY DEF Serve, ReceiverOK, InRoom
<1>p. CASE Panic
  BY <1>p, PanicStep
<1>q. CASE ~Panic
  <2>w. \A w \in Receivers \ {t} : /\ pc'[w] = pc[w] /\ msg'[w] = msg[w]
                                   /\ obj'[w] = obj[w]
    BY <1>q DEF TypeOK, Serve, GoTo, Return
  <2>e. /\ sess' \in [RoomObj -> [Users -> Session \cup {NoSess}]]
        /\ \A p \in RoomObj : HasOrigin(p) => HasOrigin(p)'
        /\ OriginOK'
    <3>1. CASE msg[t].cmd = "heartbeat"
      BY <1>q, <1>a, <1>b, <3>1, StaleFacts DEF Serve, Mine
    <3>2. CASE UNCHANGED sess
      BY <3>2 DEF TypeOK, HasOrigin, OriginOK
    <3> QED BY <1>q, <3>1, <3>2 DEF Serve
  <2>1. TypeOK'
    BY <1>q, <2>e DEF TypeOK, Serve, GoTo, Return, PC
  <2>2. ReceiverOK'
    BY SMTT(60), <1>q, <2>w, <2>1 DEF ReceiverOK, TypeOK, Serve, GoTo, Return, Busy, InRoom, PC
  <2>3. HomeOK'
    BY <1>q DEF HomeOK, Serve
  <2>4. NoZombieRoom'
    <3> SUFFICES ASSUME NEW i \in RoomIds, rooms'[i] # NoRoom, ~HasOrigin(rooms[i])',
                        rooms'[i] \notin usurped'
                 PROVE  Covered(i)'
      BY DEF NoZombieRoom, Covered
    <3>1. ~HasOrigin(rooms[i]) /\ Covered(i)
      BY <1>q, <2>e, ZombieDef DEF Serve, TypeOK
    <3>2. ~Settles(t, i)
      BY DEF Settles, Serve
    <3>3. \A w \in Receivers \ {t} : Settles(w, i) => Settles(w, i)'
      BY <1>q, <2>w DEF Settles, Rid, Serve
    <3> QED BY <1>q, <3>1, <3>2, <3>3 DEF Covered, Serve
  <2> QED BY <2>1, <2>2, <2>3, <2>4, <2>e
<1> QED BY <1>p, <1>q

\* Logout preserves the inductive invariant.
LEMMA LogoutStep ==
  ASSUME IInv, NEW t \in Receivers, Logout(t)
  PROVE  IInv'
<1> USE NilAssumption, BoundAssumption DEF IInv
<1>0. pc[t] \in Busy
  BY DEF Logout, Busy, PC
<1>a. /\ Rid(t) \in RoomIds /\ User(t) \in Users
      /\ msg[t].pod \in Pods \cup {NoPod}
      /\ msg[t].cmd = "login" => User(t) \in LocalUsers /\ msg[t].pod = NoPod
      /\ msg[t].cmd \in {"fakepublish", "fakeunpublish"}
           => User(t) \in RemoteUsers /\ msg[t].pod \in Pods
  BY <1>0, MsgFacts
<1>1. TypeOK'
  BY <1>a, <1>0 DEF TypeOK, Logout, GoTo, SetSession, PC, ReceiverOK, InRoom, Session
<1>2. ReceiverOK'
  BY <1>a, <1>1 DEF ReceiverOK, TypeOK, Logout, GoTo, SetSession, Busy, InRoom, PC
<1>3. HomeOK'
  BY <1>a, <1>1 DEF HomeOK, TypeOK, Logout, GoTo, SetSession
<1>4. OriginOK'
  BY <1>a, <1>1 DEF OriginOK, TypeOK, Logout, GoTo, SetSession, IsOrigin, Session, ReceiverOK, InRoom
<1>5. NoZombieRoom'
  BY SMTT(60), <1>a, <1>1 DEF NoZombieRoom, Settles, HasOrigin, IsOrigin, TypeOK, Logout, GoTo, SetSession, ReceiverOK, InRoom, HomeOK, Rid
<1> QED BY <1>1, <1>2, <1>3, <1>4, <1>5

\* LogoutDone preserves the inductive invariant.
LEMMA LogoutDoneStep ==
  ASSUME IInv, NEW t \in Receivers, LogoutDone(t)
  PROVE  IInv'
<1> USE NilAssumption, BoundAssumption DEF IInv
<1>0. pc[t] \in Busy
  BY DEF LogoutDone, Busy, PC
<1>a. /\ Rid(t) \in RoomIds /\ User(t) \in Users
      /\ msg[t].pod \in Pods \cup {NoPod}
      /\ msg[t].cmd = "login" => User(t) \in LocalUsers /\ msg[t].pod = NoPod
      /\ msg[t].cmd \in {"fakepublish", "fakeunpublish"}
           => User(t) \in RemoteUsers /\ msg[t].pod \in Pods
  BY <1>0, MsgFacts
<1>b. obj[t] \in RoomObj
  BY DEF LogoutDone, ReceiverOK, InRoom
<1>w. \A w \in Receivers \ {t} : /\ pc'[w] = pc[w] /\ msg'[w] = msg[w]
                                 /\ obj'[w] = obj[w]
  BY DEF TypeOK, LogoutDone, GoTo, Return
<1>c. /\ rel' \in [RoomIds -> Nat]
      /\ \A i \in RoomIds : rel[i] > 0 => rel'[i] > 0
      /\ ~HasOrigin(obj[t]) => rel'[home[obj[t]]] > 0
  BY <1>b, ReleaseFacts DEF LogoutDone

<1>1. TypeOK'
  BY <1>c DEF TypeOK, LogoutDone, GoTo, Return, PC
<1>2. ReceiverOK'
  BY <1>a, <1>b, <1>w, <1>1 DEF ReceiverOK, TypeOK, LogoutDone, GoTo, Return, Busy, InRoom, PC
<1>3. HomeOK'
  BY DEF HomeOK, LogoutDone
<1>4. OriginOK'
  BY DEF OriginOK, LogoutDone
<1>5. NoZombieRoom'
  <2> SUFFICES ASSUME NEW i \in RoomIds, rooms'[i] # NoRoom, ~HasOrigin(rooms[i])',
                      rooms'[i] \notin usurped'
               PROVE  Covered(i)'
    BY DEF NoZombieRoom, Covered
  <2>1. ~HasOrigin(rooms[i]) /\ Covered(i) /\ rooms[i] # NoRoom
    BY ZombieDef DEF HasOrigin, LogoutDone
  <2>2. Settles(t, i) => rel'[i] > 0
    BY <1>c, <2>1 DEF Settles, HomeOK, LogoutDone
  <2>3. \A w \in Receivers \ {t} : Settles(w, i) => Settles(w, i)'
    BY <1>w DEF Settles, Rid, LogoutDone
  <2>4. rel[i] > 0 => rel'[i] > 0
    BY <1>c
  <2> QED BY <2>1, <2>2, <2>3, <2>4 DEF Covered, LogoutDone
<1> QED BY <1>1, <1>2, <1>3, <1>4, <1>5

\* FakeUnpublish preserves the inductive invariant.
LEMMA FakeUnpublishStep ==
  ASSUME IInv, NEW t \in Receivers, FakeUnpublish(t)
  PROVE  IInv'
<1> USE NilAssumption, BoundAssumption DEF IInv
<1>0. pc[t] \in Busy
  BY DEF FakeUnpublish, Busy, PC
<1>a. /\ Rid(t) \in RoomIds /\ User(t) \in Users
      /\ msg[t].pod \in Pods \cup {NoPod}
      /\ msg[t].cmd = "login" => User(t) \in LocalUsers /\ msg[t].pod = NoPod
      /\ msg[t].cmd \in {"fakepublish", "fakeunpublish"}
           => User(t) \in RemoteUsers /\ msg[t].pod \in Pods
  BY <1>0, MsgFacts
<1>b. obj[t] \in RoomObj
  BY DEF FakeUnpublish, ReceiverOK, InRoom
<1>w. \A w \in Receivers \ {t} : /\ pc'[w] = pc[w] /\ msg'[w] = msg[w]
                                 /\ obj'[w] = obj[w]
  BY DEF TypeOK, FakeUnpublish, GoTo, Return
<1>e. /\ sess' \in [RoomObj -> [Users -> Session \cup {NoSess}]]
      /\ \A p \in RoomObj : HasOrigin(p) => HasOrigin(p)'
      /\ OriginOK'
  <2>1. CASE Mine(t).pod = msg[t].pod /\ SetSession(obj[t], User(t), NoSess)
    <3>1. msg[t].pod # NoPod
      BY <1>a DEF ReceiverOK, FakeUnpublish
    <3>2. ~IsOrigin(sess[obj[t]][User(t)])
      BY <1>a, <1>b, <2>1, <3>1 DEF OriginOK, Mine
    <3>3. /\ sess' \in [RoomObj -> [Users -> Session \cup {NoSess}]]
          /\ \A p \in RoomObj, w \in Users :
               sess'[p][w] = IF p = obj[t] /\ w = User(t) THEN NoSess ELSE sess[p][w]
          /\ \A p \in RoomObj : HasOrigin(p) => HasOrigin(p)'
      BY <1>a, <1>b, <2>1, <3>2, SetSessionFacts
    <3> QED BY <3>3 DEF OriginOK, IsOrigin
  <2>2. CASE UNCHANGED sess
    BY <2>2 DEF TypeOK, HasOrigin, OriginOK
  <2> QED BY <2>1, <2>2 DEF FakeUnpublish
<1>1. TypeOK'
  BY <1>e DEF TypeOK, FakeUnpublish, GoTo, Return, PC
<1>2. ReceiverOK'
  BY <1>w, <1>1 DEF ReceiverOK, TypeOK, FakeUnpublish, GoTo, Return, Busy, InRoom, PC
<1>3. HomeOK'
  BY DEF HomeOK, FakeUnpublish
<1>4. NoZombieRoom'
  <2> SUFFICES ASSUME NEW i \in RoomIds, rooms'[i] # NoRoom, ~HasOrigin(rooms[i])',
                      rooms'[i] \notin usurped'
               PROVE  Covered(i)'
    BY DEF NoZombieRoom, Covered
  <2>1. ~HasOrigin(rooms[i]) /\ Covered(i)
    BY <1>e, ZombieDef DEF FakeUnpublish, TypeOK
  <2>2. ~Settles(t, i)
    BY DEF Settles, FakeUnpublish
  <2>3. \A w \in Receivers \ {t} : Settles(w, i) => Settles(w, i)'
    BY <1>w DEF Settles, Rid, FakeUnpublish
  <2> QED BY <2>1, <2>2, <2>3 DEF Covered, FakeUnpublish
<1> QED BY <1>1, <1>2, <1>3, <1>4, <1>e

\* StartRelease preserves the inductive invariant.
LEMMA StartReleaseStep ==
  ASSUME IInv, NEW i \in RoomIds, StartRelease(i)
  PROVE  IInv'
<1> USE NilAssumption, BoundAssumption DEF IInv
<1>a. rel' \in [RoomIds -> Nat] /\ \A j \in RoomIds \ {i} : rel'[j] = rel[j]
  BY DEF StartRelease, TypeOK
<1>b. CASE rooms[i] = NoRoom
  <2>1. UNCHANGED <<rooms, home, sess, releasing, kick, kicked, pc, msg, obj, usurped>>
    BY <1>b DEF StartRelease
  <2>2. TypeOK' /\ ReceiverOK' /\ HomeOK' /\ OriginOK'
    BY <1>a, <2>1 DEF TypeOK, ReceiverOK, HomeOK, OriginOK
  <2>3. NoZombieRoom'
    BY <1>a, <1>b, <2>1 DEF NoZombieRoom, HasOrigin, Settles, Rid
  <2> QED BY <2>2, <2>3
<1>c. CASE rooms[i] # NoRoom
  <2>1. /\ sess' = [sess EXCEPT ![rooms[i]] = NoSessions] /\ releasing' = i
        /\ UNCHANGED <<rooms, home, kick, kicked, pc, msg, obj, usurped>>
        /\ rooms[i] \in RoomObj
    BY <1>c DEF StartRelease, TypeOK
  <2>2. TypeOK'
    BY <1>a, <2>1 DEF TypeOK, NoSessions
  <2>3. ReceiverOK' /\ HomeOK'
    BY <2>1 DEF ReceiverOK, HomeOK
  <2>4. OriginOK'
    BY <2>1 DEF OriginOK, IsOrigin, NoSessions, TypeOK
  <2>5. NoZombieRoom'
    <3> SUFFICES ASSUME NEW j \in RoomIds, j # i, rooms[j] # NoRoom, ~HasOrigin(rooms[j])',
                        rooms[j] \notin usurped'
                 PROVE  Covered(j)'
      BY <2>1 DEF NoZombieRoom, Covered
    <3>1. rooms[j] # rooms[i] /\ rooms[j] \in RoomObj
      BY <1>c DEF HomeOK, TypeOK
    <3>2. sess'[rooms[j]] = sess[rooms[j]]
      BY <2>1, <3>1 DEF TypeOK
    <3>3. Covered(j) /\ releasing # j
      BY <2>1, <3>2, ZombieDef DEF HasOrigin, StartRelease, RoomsLockFree
    <3> QED BY <1>a, <2>1, <3>3 DEF Covered, Settles, Rid
  <2> QED BY <2>2, <2>3, <2>4, <2>5
<1> QED BY <1>b, <1>c

\* FinishRelease preserves the inductive invariant.
LEMMA FinishReleaseStep ==
  ASSUME IInv, NEW i \in RoomIds, FinishRelease(i)
  PROVE  IInv'
<1> USE NilAssumption, BoundAssumption DEF IInv
<1>1. TypeOK'
  BY DEF TypeOK, FinishRelease, NoSessions, Session, IsOrigin, RoomsLockFree
<1>2. ReceiverOK'
  BY DEF ReceiverOK, FinishRelease
<1>3. HomeOK'
  BY <1>1 DEF HomeOK, TypeOK, FinishRelease
<1>4. OriginOK'
  BY <1>1 DEF OriginOK, TypeOK, FinishRelease, IsOrigin, NoSessions, Session
<1>5. NoZombieRoom'
  BY SMTT(60), <1>1 DEF NoZombieRoom, Settles, HasOrigin, IsOrigin, TypeOK, FinishRelease, HomeOK, Rid
<1> QED BY <1>1, <1>2, <1>3, <1>4, <1>5

\* KickoutDone preserves the inductive invariant.
LEMMA KickoutDoneStep ==
  ASSUME IInv, NEW o \in RoomObj, KickoutDone(o)
  PROVE  IInv'
<1> USE NilAssumption, BoundAssumption DEF IInv
<1>1. TypeOK'
  BY SMTT(60) DEF TypeOK, KickoutDone, ReleaseIfNoOrigin, NoSessions, Session, IsOrigin, RoomsLockFree
<1>2. ReceiverOK'
  BY DEF ReceiverOK, KickoutDone, ReleaseIfNoOrigin
<1>3. HomeOK'
  BY <1>1 DEF HomeOK, TypeOK, KickoutDone, ReleaseIfNoOrigin
<1>4. OriginOK'
  BY <1>1 DEF OriginOK, TypeOK, KickoutDone, ReleaseIfNoOrigin, IsOrigin, NoSessions, Session
<1>5. NoZombieRoom'
  <2>1. /\ \A i \in RoomIds : rel[i] > 0 => rel'[i] > 0
        /\ ~HasOrigin(o) => rel'[home[o]] > 0
    BY ReleaseFacts DEF KickoutDone
  <2> SUFFICES ASSUME NEW i \in RoomIds, rooms'[i] # NoRoom, ~HasOrigin(rooms[i])',
                      rooms'[i] \notin usurped'
               PROVE  Covered(i)'
    BY DEF NoZombieRoom, Covered
  <2>2. ~HasOrigin(rooms[i]) /\ Covered(i)
    BY ZombieDef DEF HasOrigin, KickoutDone
  <2>3. CASE rooms[i] = o
    BY <2>1, <2>2, <2>3 DEF Covered, HomeOK, KickoutDone
  <2>4. CASE rooms[i] # o
    <3>1. kicked'[rooms[i]] = kicked[rooms[i]]
      BY <2>4 DEF KickoutDone, TypeOK
    <3> QED BY <2>1, <2>2, <3>1 DEF Covered, Settles, Rid, KickoutDone
  <2> QED BY <2>3, <2>4
<1> QED BY <1>1, <1>2, <1>3, <1>4, <1>5

\* CheckKeepAlive preserves the inductive invariant.
LEMMA CheckKeepAliveStep ==
  ASSUME IInv, NEW i \in RoomIds, NEW u \in Users, CheckKeepAlive(i, u)
  PROVE  IInv'
<1> USE NilAssumption, BoundAssumption DEF IInv
<1>1. TypeOK'
  BY DEF TypeOK, CheckKeepAlive, NoSessions, Session, IsOrigin, RoomsLockFree
<1>2. ReceiverOK'
  BY DEF ReceiverOK, CheckKeepAlive
<1>3. HomeOK'
  BY <1>1 DEF HomeOK, TypeOK, CheckKeepAlive
<1>4. OriginOK'
  BY <1>1 DEF OriginOK, TypeOK, CheckKeepAlive, IsOrigin, NoSessions, Session
<1>5. NoZombieRoom'
  BY <1>1 DEF NoZombieRoom, Settles, HasOrigin, IsOrigin, TypeOK, CheckKeepAlive, HomeOK, Rid
<1> QED BY <1>1, <1>2, <1>3, <1>4, <1>5

\* Kickout preserves the inductive invariant.
LEMMA KickoutStep ==
  ASSUME IInv, NEW o \in RoomObj, NEW u \in Users, Kickout(o, u)
  PROVE  IInv'
<1> USE NilAssumption, BoundAssumption DEF IInv
<1>1. TypeOK'
  BY DEF TypeOK, Kickout, SetSession, NoSessions, Session, IsOrigin, RoomsLockFree
<1>2. ReceiverOK'
  BY DEF ReceiverOK, Kickout, SetSession
<1>3. HomeOK'
  BY <1>1 DEF HomeOK, TypeOK, Kickout, SetSession
<1>4. OriginOK'
  BY <1>1 DEF OriginOK, TypeOK, Kickout, SetSession, IsOrigin, NoSessions, Session
<1>5. NoZombieRoom'
  BY <1>1 DEF NoZombieRoom, Settles, HasOrigin, IsOrigin, TypeOK, Kickout, SetSession, HomeOK, Rid
<1> QED BY <1>1, <1>2, <1>3, <1>4, <1>5

\* Age preserves the inductive invariant.
LEMMA AgeStep ==
  ASSUME IInv, NEW o \in RoomObj, NEW u \in Users, Age(o, u)
  PROVE  IInv'
<1> USE NilAssumption, BoundAssumption DEF IInv
<1>a. /\ sess' \in [RoomObj -> [Users -> Session \cup {NoSess}]]
      /\ \A p \in RoomObj : HasOrigin(p) => HasOrigin(p)'
      /\ OriginOK'
  BY StaleFacts DEF Age, IsOrigin
<1>1. TypeOK'
  BY <1>a DEF TypeOK, Age
<1>2. ReceiverOK' /\ HomeOK'
  BY DEF ReceiverOK, HomeOK, Age
<1>3. NoZombieRoom'
  <2> SUFFICES ASSUME NEW i \in RoomIds, rooms'[i] # NoRoom, ~HasOrigin(rooms[i])',
                      rooms'[i] \notin usurped'
               PROVE  Covered(i)'
    BY DEF NoZombieRoom, Covered
  <2>1. Covered(i)
    BY <1>a, ZombieDef DEF Age, TypeOK
  <2> QED BY <2>1 DEF Covered, Settles, Rid, Age
<1> QED BY <1>a, <1>1, <1>2, <1>3

\* Every step preserves the inductive invariant.
LEMMA NextIInv == IInv /\ [Next]_vars => IInv'
<1> SUFFICES ASSUME IInv, [Next]_vars PROVE IInv'
  OBVIOUS
<1>1. ASSUME NEW t \in Receivers, Receive(t) \/ Step(t) PROVE IInv'
  BY <1>1, ReceiveStep, LookupStep, CreateRoomStep, FetchStep, FindStep, DropStep,
     CheckOriginStep, InsertStep, AnnounceStep, ServeStep, LogoutStep, LogoutDoneStep,
     FakeUnpublishStep DEF Step
<1>2. ASSUME NEW i \in RoomIds, StartRelease(i) \/ FinishRelease(i) PROVE IInv'
  BY <1>2, StartReleaseStep, FinishReleaseStep
<1>3. ASSUME NEW i \in RoomIds, NEW u \in Users, CheckKeepAlive(i, u) PROVE IInv'
  BY <1>3, CheckKeepAliveStep
<1>4. ASSUME NEW o \in RoomObj, NEW u \in Users, Kickout(o, u) \/ Age(o, u) PROVE IInv'
  BY <1>4, KickoutStep, AgeStep
<1>5. ASSUME NEW o \in RoomObj, KickoutDone(o) PROVE IInv'
  BY <1>5, KickoutDoneStep
<1>6. CASE MapRace
  BY <1>6, PanicStep DEF MapRace, IInv
<1>7. CASE UNCHANGED vars
  <2>1. TypeOK' /\ ReceiverOK'
    BY <1>7 DEF IInv, vars, TypeOK, ReceiverOK
  <2>2. HomeOK' /\ OriginOK'
    BY <1>7 DEF IInv, vars, HomeOK, OriginOK
  <2>3. NoZombieRoom'
    BY <1>7 DEF IInv, vars, NoZombieRoom, HasOrigin, Settles, Rid
  <2> QED BY <2>1, <2>2, <2>3 DEF IInv
<1> QED BY <1>1, <1>2, <1>3, <1>4, <1>5, <1>6, <1>7 DEF Next

\* Rooms: whatever the goroutines interleave, no room without origin session is
\* left behind (room.go 147-151, 281-284), users who move from pod to pod included,
\* but for the room whose last origin session a fakepublish replaced (155-157).
THEOREM ZombieFree == Spec => []NoZombieRoom
<1>1. Init => IInv
  BY InitIInv
<1>2. IInv /\ [Next]_vars => IInv'
  BY NextIInv
<1>3. IInv => NoZombieRoom
  BY DEF IInv
<1> QED BY <1>1, <1>2, <1>3, PTL DEF Spec

\* Rooms: the types are kept, and so are which command is at which step of the
\* handler, that a room's id is the one it is found under, and that fake
\* sessions never pass for origin ones.
THEOREM RoomsTyped ==
  Spec => [](TypeOK /\ ReceiverOK /\ HomeOK /\ OriginOK)
<1>1. Init => IInv
  BY InitIInv
<1>2. IInv /\ [Next]_vars => IInv'
  BY NextIInv
<1>3. IInv => TypeOK /\ ReceiverOK /\ HomeOK /\ OriginOK
  BY DEF IInv
<1> QED BY <1>1, <1>2, <1>3, PTL DEF Spec

=============================================================================
