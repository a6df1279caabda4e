--------------------------- MODULE RabbitMQProofs ---------------------------
(* Proofs about RabbitMQ: its types, that the connection has one keeper,   *)
(* that the client implements BrokerLink, that it is always about to dial  *)
(* again once it has wound up a connection (Attended), and that what       *)
(* Reconnects excepts is for good (LostForGood).                           *)
EXTENDS RabbitMQ, TLAPS

Keeper(t) == pc[t] \in Connecting \cup Watching

\* What a goroutine at a step has in hand.
ThreadOK ==
  \A t \in Threads :
    /\ pc[t] \in {"declare", "assign", "exit"} => cur[t] \in Exs
    /\ pc[t] \in {"open", "declare", "assign"} => n[t] \in 1 .. Len(Order)
    /\ pc[t] \in {"prods", "recvs", "exit"} => n[t] > 0

\* The keeper there is, and what it means for the timer, the signals to it and the
\* connection.
Alone ==
  /\ armed <= 1
  /\ armed = 1 => fired = 0 /\ exits = 0 /\ conn = "nil" /\ \A t \in Threads : ~Keeper(t)
  /\ \A s, t \in Threads : Keeper(s) /\ Keeper(t) => s = t

KeeperOK ==
  \A t \in Threads :
    /\ pc[t] = "dial" => fired = 1 /\ exits = 0 /\ conn = "nil"
    /\ pc[t] = "failed" => fired = exits /\ conn = "nil"
    /\ pc[t] = "ok" => fired = exits /\ conn # "nil"
    /\ pc[t] \in Watching => fired = 0 /\ exits = 0 /\ conn # "nil"
    /\ pc[t] = "watch" => conn = "up"
    /\ pc[t] \in Stopping => conn = "closed"

\* Without keeper and timer no signal is left over; when the process has ended, all
\* of it has.
NoKeeper ==
  /\ (armed = 0 /\ \A t \in Threads : ~Keeper(t)) => fired = 0 /\ exits = 0
  /\ Crashed => \A t \in Threads : pc[t] = "dead"

IInv == TypeOK /\ ThreadOK /\ Alone /\ KeeperOK /\ NoKeeper

\* Steps at which mqConnect has an exchange in hand that it has not yet published.
Unpublished == {"declare", "assign"}

\* Nobody but the mqConnect that registers it knows such an exchange: a Stop that
\* hangs on an exchange does not hang on one whose goroutine is still to be started.
Private ==
  \A t \in Threads : pc[t] \in Unpublished =>
    /\ \A p \in ProducerNames : exc[p] # cur[t]
    /\ ~In(exs, cur[t])
    /\ \A s \in Threads : ~In(todo[s], cur[t]) /\ (s # t => cur[s] # cur[t])
    /\ \A x \in Senders \cup Exs : to[x] # cur[t]

\* A process without connection has a timer set or dials; one that has ended has no
\* connection.
Kept ==
  /\ conn = "nil" => Crashed \/ armed = 1 \/ \E t \in Threads : pc[t] \in {"dial", "failed"}
  /\ Crashed => conn # "up"

\* What a step leaves as it is when the client is lost: no goroutine of an exchange
\* is started but by the mqConnect that has it in hand; Stop waits on for an exchange
\* that does not answer; who sends to an exchange without goroutine waits on; and a
\* loss that was not noticed stays so.
Stuck ==
  /\ \A o \in Exs : ex'[o].run => ex[o].run \/ \E s \in Threads : pc[s] = "declare" /\ cur[s] = o
  /\ \A t \in Threads :
       pc[t] = "exit" /\ ~(ex[cur[t]].run /\ to[cur[t]] = Nil) => pc'[t] = "exit" /\ cur'[t] = cur[t]
  /\ \A x \in Exs : to[x] \in Exs /\ ~ex[to[x]].run => to'[x] = to[x]
  /\ Unwatched => Unwatched'

LInv == IInv /\ Private /\ Kept

\* A step that does not end the process keeps these.
LostStep == Private' /\ Kept' /\ Stuck

\* A step of the client as BrokerLink sees it.
LinkStep == [Link!Next]_Phase

PCs == Connecting \cup Registering \cup Watching \cup {"idle", "dead"}

-----------------------------------------------------------------------------
(* Facts about the constants and the helpers.                              *)

\* The steps of mqConnect and of a watcher are different ones.
LEMMA Steps ==
  /\ Connecting \cup Watching =
       {"dial", "failed", "ok", "notify", "watch", "noticed", "prods", "recvs", "exit", "close"}
  /\ Watching = {"notify", "watch", "noticed", "prods", "recvs", "exit", "close"}
BY DEF Connecting, Watching, Stopping

LEMMA StepTyped ==
  {"dial", "failed", "ok", "open", "declare", "assign", "flag", "notify", "watch",
   "noticed", "prods", "recvs", "exit", "close", "idle", "dead"}
    = Connecting \cup Registering \cup Watching \cup {"idle", "dead"}
BY DEF Connecting, Registering, Watching, Stopping

LEMMA OrderTyped == ASSUME NEW i \in 1 .. Len(Order) PROVE Order[i] \in Names
BY OrderAssumption

LEMMA ProducersTyped == ASSUME NEW i \in 1 .. Len(Producers) PROVE Producers[i] \in ProducerNames
BY DEF ProducerNames

LEMMA UnusedTyped == Unused \in Exchange
BY OrderAssumption, OrderTyped DEF Unused, Exchange

\* The allocator returns an unused address.
LEMMA NewExTyped == ASSUME \E o \in Exs : Fresh(o) PROVE NewEx \in Exs
BY Zenon DEF NewEx

LEMMA NewThreadIdle == ASSUME ThreadFree PROVE NewThread \in Threads /\ pc[NewThread] = "idle"
BY Zenon DEF ThreadFree, NewThread

LEMMA ClosedTyped == ASSUME TypeOK PROVE ChannelsClosed \in [Exs -> Exchange]
<1>1. ASSUME NEW o \in Exs
      PROVE (IF ex[o].chan = "open" THEN [ex[o] EXCEPT !.chan = "closed"] ELSE ex[o]) \in Exchange
  <2>1. ex[o] \in Exchange  BY DEF TypeOK
  <2>2. [ex[o] EXCEPT !.chan = "closed"] \in Exchange  BY <2>1 DEF Exchange
  <2> QED  BY <2>1, <2>2
<1> QED  BY <1>1 DEF ChannelsClosed

-----------------------------------------------------------------------------
(* The initial states, and the end of the process.                         *)

LEMMA InitOK == Init => IInv
<1> SUFFICES ASSUME Init PROVE IInv  OBVIOUS
<1>1. TypeOK
  <2>1. Unused \in Exchange /\ <<>> \in Seq(Exs)  BY UnusedTyped
  <2>2. todo \in [Threads -> Seq(Exs)] /\ exs \in Seq(Exs)  BY <2>1 DEF Init
  <2>3. ex \in [Exs -> Exchange]  BY <2>1 DEF Init
  <2>4. pc \in [Threads -> PCs]  BY DEF Init, PCs
  <2>5. n \in [Threads -> Nat] /\ cur \in [Threads -> Exs \cup {Nil}]
        /\ to \in [Senders \cup Exs -> ProducerNames \cup Exs \cup {Nil}]
        /\ exc \in [ProducerNames -> Exs \cup {Nil}]
    BY DEF Init
  <2> QED  BY <2>2, <2>3, <2>4, <2>5 DEF Init, TypeOK, PCs
<1>2. ThreadOK /\ Alone /\ KeeperOK /\ NoKeeper
  BY Steps DEF Init, ThreadOK, Alone, KeeperOK, NoKeeper, Keeper, Crashed, Stopping
<1> QED  BY <1>1, <1>2 DEF IInv

LEMMA PanicOK == ASSUME Panic PROVE IInv' /\ LinkStep
<1>1. TypeOK'
  <2>1. Unused \in Exchange /\ <<>> \in Seq(Exs)  BY UnusedTyped
  <2>2. todo' \in [Threads -> Seq(Exs)] /\ exs' \in Seq(Exs)  BY <2>1 DEF Panic
  <2>3. ex' \in [Exs -> Exchange]  BY <2>1 DEF Panic
  <2>4. pc' \in [Threads -> PCs]  BY DEF Panic, PCs
  <2>5. n' \in [Threads -> Nat] /\ cur' \in [Threads -> Exs \cup {Nil}]
        /\ to' \in [Senders \cup Exs -> ProducerNames \cup Exs \cup {Nil}]
        /\ exc' \in [ProducerNames -> Exs \cup {Nil}]
    BY DEF Panic
  <2> QED  BY <2>2, <2>3, <2>4, <2>5 DEF Panic, TypeOK, PCs
<1>2. ThreadOK' /\ Alone' /\ KeeperOK' /\ NoKeeper'
  BY Steps DEF Panic, ThreadOK, Alone, KeeperOK, NoKeeper, Keeper, Crashed, Stopping
<1>3. LinkStep
  BY BoundAssumption DEF Panic, LinkStep, Link!Next, Link!Die, Phase, Crashed
<1> QED  BY <1>1, <1>2, <1>3 DEF IInv

-----------------------------------------------------------------------------
(* The retry timer, and mqConnect.                                         *)

LEMMA FireOK == ASSUME IInv, Fire PROVE IInv' /\ LinkStep
<1> DEFINE t == NewThread
<1>1. t \in Threads /\ pc[t] = "idle" /\ pc' = [pc EXCEPT ![t] = "dial"]
  BY NewThreadIdle DEF Fire, GoTo
<1> HIDE DEF t
<1>2. armed = 1 /\ armed' = 0 /\ fired' = 1 /\ exits = 0 /\ conn = "nil"
      /\ \A s \in Threads : ~Keeper(s)
  BY DEF Fire, IInv, TypeOK, Alone
<1>3. TypeOK'
  BY <1>1, <1>2, StepTyped DEF Fire, IInv, TypeOK
<1>4. ThreadOK'
  BY <1>1 DEF Fire, IInv, TypeOK, ThreadOK
<1>5. Alone' /\ KeeperOK' /\ NoKeeper'
  <2>1. pc \in [Threads -> PCs] /\ exits' = exits /\ conn' = conn  BY DEF Fire, IInv, TypeOK, PCs
  <2>2. \A s \in Threads : pc'[s] = IF s = t THEN "dial" ELSE pc[s]  BY <1>1, <2>1
  <2>3. \A s \in Threads : pc'[s] # "dead"  BY <1>1, <2>2 DEF IInv, NoKeeper, Crashed
  <2> QED  BY <1>1, <1>2, <2>1, <2>2, <2>3, Steps
    DEF Alone, KeeperOK, NoKeeper, Keeper, Crashed, Stopping
<1>6. ~Crashed /\ ~Crashed'
  BY <1>1 DEF IInv, TypeOK, NoKeeper, Crashed
<1>7. LinkStep
  BY <1>1, <1>2, <1>6 DEF IInv, TypeOK, LinkStep, Link!Next, Link!Dial, Phase
<1> QED  BY <1>3, <1>4, <1>5, <1>7 DEF IInv

-----------------------------------------------------------------------------
(* Steps that leave the keeper what it is.                                 *)

\* A goroutine moves on, inside mqConnect's registrations or inside Stop.
LEMMA QuietOK ==
  ASSUME IInv, NEW t \in Threads, NEW l \in PCs,
         pc[t] # "dead", l # "dead", pc' = [pc EXCEPT ![t] = l],
         UNCHANGED <<conn, armed, fired, exits>>,
         \/ pc[t] \in Registering /\ l \in Registering \cup {"idle"}
         \/ pc[t] \in Stopping /\ l \in Stopping
  PROVE  Alone' /\ KeeperOK' /\ NoKeeper' /\ LinkStep
<1>1. pc \in [Threads -> PCs]  BY DEF IInv, TypeOK, PCs
<1>2. \A s \in Threads : pc'[s] = IF s = t THEN l ELSE pc[s]  BY <1>1
<1>3. \A s \in Threads : Keeper(s)' <=> Keeper(s)
  BY <1>2, Steps DEF Keeper, Registering, Stopping
<1>4. ~Crashed /\ ~Crashed'
  BY <1>2 DEF IInv, NoKeeper, Crashed
<1>5. Alone' /\ NoKeeper'
  BY <1>3, <1>4 DEF IInv, Alone, NoKeeper
<1>6. KeeperOK'
  BY <1>2, Steps DEF IInv, KeeperOK, Registering, Stopping
<1>7. \A s \in Threads : pc'[s] \in {"dial", "failed"} <=> pc[s] \in {"dial", "failed"}
  BY <1>2 DEF Registering, Stopping
<1>8. LinkStep
  BY <1>4, <1>7 DEF LinkStep, Phase
<1> QED  BY <1>5, <1>6, <1>8

\* Nothing that concerns the keeper changes.
LEMMA DataOK ==
  ASSUME IInv, UNCHANGED <<conn, armed, fired, exits, pc>>
  PROVE  Alone' /\ KeeperOK' /\ NoKeeper' /\ LinkStep
BY DEF IInv, Alone, KeeperOK, NoKeeper, Keeper, Crashed, LinkStep, Phase

LEMMA OpenOK == ASSUME IInv, NEW t \in Threads, Open(t) PROVE IInv' /\ LinkStep
<1>1. CASE Panic
  BY <1>1, PanicOK
<1>2. CASE ~Panic
  <2>1. /\ NewEx \in Exs /\ n[t] \in 1 .. Len(Order) /\ pc[t] = "open"
        /\ ex' = [ex EXCEPT ![NewEx] = [name |-> Order[n[t]], run |-> FALSE, chan |-> "open"]]
        /\ cur' = [cur EXCEPT ![t] = NewEx]
        /\ pc' = [pc EXCEPT ![t] = "declare"]
        /\ UNCHANGED <<conn, connected, armed, fired, exits, blk, exc, exs, n, todo, to>>
    BY <1>2, NewExTyped DEF Open, IInv, ThreadOK, GoTo, timers
  <2>2. ex' \in [Exs -> Exchange]
    <3>1. [name |-> Order[n[t]], run |-> FALSE, chan |-> "open"] \in Exchange
      BY <2>1, OrderTyped DEF Exchange
    <3> QED  BY <2>1, <3>1 DEF IInv, TypeOK
  <2>3. TypeOK'
    BY <2>1, <2>2, StepTyped DEF IInv, TypeOK
  <2>4. ThreadOK'
    BY <2>1 DEF IInv, TypeOK, ThreadOK
  <2>5. Alone' /\ KeeperOK' /\ NoKeeper' /\ LinkStep
    BY <2>1, QuietOK DEF Registering, PCs
  <2> QED  BY <2>3, <2>4, <2>5 DEF IInv
<1> QED  BY <1>1, <1>2

LEMMA DeclareOK == ASSUME IInv, NEW t \in Threads, Declare(t) PROVE IInv' /\ LinkStep
<1>1. /\ pc[t] = "declare" /\ cur[t] \in Exs
      /\ pc' = [pc EXCEPT ![t] = "assign"]
      /\ UNCHANGED <<conn, connected, armed, fired, exits, blk, exc, exs, cur, n, todo, to>>
  BY DEF Declare, IInv, ThreadOK, GoTo, timers
<1>2. ex' \in [Exs -> Exchange]
  <2>1. ex \in [Exs -> Exchange] /\ ex[cur[t]] \in Exchange  BY <1>1 DEF IInv, TypeOK
  <2>2. [ex[cur[t]] EXCEPT !.run = TRUE] \in Exchange  BY <2>1 DEF Exchange
  <2>3. ex' = ex \/ ex' = [ex EXCEPT ![cur[t]] = [ex[cur[t]] EXCEPT !.run = TRUE]]
    BY DEF Declare
  <2> HIDE DEF Exchange
  <2>4. CASE ex' = ex  BY <2>1, <2>4
  <2>5. CASE ex' = [ex EXCEPT ![cur[t]] = [ex[cur[t]] EXCEPT !.run = TRUE]]
    BY <1>1, <2>1, <2>2, <2>5, Zenon
  <2> QED  BY <2>3, <2>4, <2>5
<1>3. TypeOK'
  BY <1>1, <1>2, StepTyped DEF IInv, TypeOK
<1>4. ThreadOK'
  BY <1>1 DEF IInv, TypeOK, ThreadOK
<1>5. Alone' /\ KeeperOK' /\ NoKeeper' /\ LinkStep
  BY <1>1, QuietOK DEF Registering, PCs
<1> QED  BY <1>3, <1>4, <1>5 DEF IInv

LEMMA AssignOK == ASSUME IInv, NEW t \in Threads, Assign(t) PROVE IInv' /\ LinkStep
<1> DEFINE l == IF n[t] = Len(Order) THEN "flag" ELSE "open"
<1>1. /\ pc[t] = "assign" /\ cur[t] \in Exs /\ n[t] \in 1 .. Len(Order)
      /\ pc' = [pc EXCEPT ![t] = l]
      /\ n' = [n EXCEPT ![t] = n[t] + 1]
      /\ cur' = [cur EXCEPT ![t] = Nil]
      /\ UNCHANGED <<conn, connected, armed, fired, exits, blk, ex, todo, to>>
  BY DEF Assign, IInv, ThreadOK, GoTo, timers
<1>2. exc' \in [ProducerNames -> Exs \cup {Nil}] /\ exs' \in Seq(Exs)
  <2>1. exc \in [ProducerNames -> Exs \cup {Nil}] /\ exs \in Seq(Exs)  BY DEF IInv, TypeOK
  <2>2. \/ exc' = [exc EXCEPT ![ex[cur[t]].name] = cur[t]] /\ exs' = exs
        \/ exc' = exc /\ exs' = Append(exs, cur[t])
    BY DEF Assign
  <2>3. exc' \in [ProducerNames -> Exs \cup {Nil}]
    <3>1. CASE exc' = exc  BY <2>1, <3>1
    <3>2. CASE exc' = [exc EXCEPT ![ex[cur[t]].name] = cur[t]]  BY <1>1, <2>1, <3>2
    <3> QED  BY <2>2, <3>1, <3>2
  <2>4. exs' \in Seq(Exs)
    <3>1. Append(exs, cur[t]) \in Seq(Exs)  BY <1>1, <2>1
    <3> QED  BY <2>1, <2>2, <3>1, Zenon
  <2> QED  BY <2>3, <2>4
<1>3. TypeOK'
  <2>1. n' \in [Threads -> Nat]  BY <1>1 DEF IInv, TypeOK
  <2> QED  BY <1>1, <1>2, <2>1, StepTyped DEF IInv, TypeOK
<1>4. ThreadOK'
  <2>1. Len(Order) \in Nat  BY OrderAssumption
  <2> QED  BY <1>1, <2>1 DEF IInv, TypeOK, ThreadOK
<1>5. Alone' /\ KeeperOK' /\ NoKeeper' /\ LinkStep
  <2>1. l \in {"flag", "open"}  OBVIOUS
  <2> HIDE DEF l
  <2> QED  BY <1>1, <2>1, QuietOK DEF Registering, PCs
<1> QED  BY <1>3, <1>4, <1>5 DEF IInv

\* The end of a goroutine, as far as it is private to it.
LEMMA EndOK ==
  ASSUME IInv, NEW t \in Threads, End(t)
  PROVE  /\ pc' = [pc EXCEPT ![t] = "idle"] /\ pc' \in [Threads -> PCs]
         /\ cur' \in [Threads -> Exs \cup {Nil}]
         /\ n' \in [Threads -> Nat] /\ todo' \in [Threads -> Seq(Exs)]
         /\ ThreadOK'
<1>1. pc' = [pc EXCEPT ![t] = "idle"] /\ pc' \in [Threads -> PCs]
  BY DEF IInv, TypeOK, End, GoTo, PCs
<1>2. cur' \in [Threads -> Exs \cup {Nil}] /\ n' \in [Threads -> Nat]
  BY DEF IInv, TypeOK, End
<1>3. todo' \in [Threads -> Seq(Exs)]
  <2>1. <<>> \in Seq(Exs)  OBVIOUS
  <2> QED  BY <2>1 DEF IInv, TypeOK, End
<1>4. ThreadOK'
  BY <1>1 DEF IInv, TypeOK, ThreadOK, End
<1> QED  BY <1>1, <1>2, <1>3, <1>4

LEMMA SetConnectedOK == ASSUME IInv, NEW t \in Threads, SetConnected(t) PROVE IInv' /\ LinkStep
<1>1. /\ pc[t] = "flag" /\ connected' = TRUE /\ End(t)
      /\ UNCHANGED <<conn, armed, fired, exits, blk, exc, exs, ex, to>>
  BY DEF SetConnected, timers
<1>2. TypeOK' /\ ThreadOK'
  BY <1>1, EndOK DEF IInv, TypeOK, PCs
<1>3. Alone' /\ KeeperOK' /\ NoKeeper' /\ LinkStep
  <2>1. pc' = [pc EXCEPT ![t] = "idle"]  BY <1>1, EndOK
  <2> QED  BY <1>1, <2>1, QuietOK DEF Registering, PCs
<1> QED  BY <1>2, <1>3 DEF IInv

LEMMA NotifyBlockedOK == ASSUME IInv, NotifyBlocked PROVE IInv' /\ LinkStep
<1>1. CASE Panic  BY <1>1, PanicOK
<1>2. CASE ~Panic
  <2>1. /\ blk > 0 /\ blk' = blk - 1
        /\ UNCHANGED <<conn, connected, armed, fired, exits, exc, exs, ex, pc, cur, n, todo, to>>
    BY <1>2 DEF NotifyBlocked, timers, threads
  <2>2. TypeOK' /\ ThreadOK'
    BY <2>1 DEF IInv, TypeOK, ThreadOK
  <2> QED  BY <2>1, <2>2, DataOK DEF IInv
<1> QED  BY <1>1, <1>2

-----------------------------------------------------------------------------
(* Publishing.                                                             *)

LEMMA PublishOK ==
  ASSUME IInv, NEW x \in Senders \cup Exs, NEW p \in ProducerNames, Publish(x, p)
  PROVE  IInv' /\ LinkStep
<1>1. /\ to' = [to EXCEPT ![x] = p]
      /\ UNCHANGED <<conn, connected, armed, fired, exits, blk, exc, exs, ex, pc, cur, n, todo>>
  BY DEF Publish, timers, threads
<1>2. TypeOK' /\ ThreadOK'
  BY <1>1 DEF IInv, TypeOK, ThreadOK
<1> QED  BY <1>1, <1>2, DataOK DEF IInv

LEMMA SendOK ==
  ASSUME IInv, NEW x \in Senders \cup Exs, Send(x) PROVE IInv' /\ LinkStep
<1>1. CASE Panic  BY <1>1, PanicOK
<1>2. CASE ~Panic
  <2>1. /\ to[x] \in ProducerNames /\ to' = [to EXCEPT ![x] = exc[to[x]]]
        /\ UNCHANGED <<conn, connected, armed, fired, exits, blk, exc, exs, ex, pc, cur, n, todo>>
    BY <1>2 DEF Send, timers, threads
  <2>2. TypeOK' /\ ThreadOK'
    BY <2>1 DEF IInv, TypeOK, ThreadOK
  <2> QED  BY <2>1, <2>2, DataOK DEF IInv
<1> QED  BY <1>1, <1>2

LEMMA TakeOK == ASSUME IInv, NEW o \in Exs, Take(o) PROVE IInv' /\ LinkStep
<1>1. CASE Panic  BY <1>1, PanicOK
<1>2. CASE ~Panic
  <2>1. PICK x \in Senders \cup Exs :
          /\ to' = [to EXCEPT ![x] = Nil]
          /\ UNCHANGED <<conn, connected, armed, fired, exits, blk, exc, exs, ex, pc, cur, n, todo>>
    BY <1>2 DEF Take, timers, threads
  <2>2. TypeOK' /\ ThreadOK'
    BY <2>1 DEF IInv, TypeOK, ThreadOK
  <2> QED  BY <2>1, <2>2, DataOK DEF IInv
<1> QED  BY <1>1, <1>2

-----------------------------------------------------------------------------
(* The keeper: dialling, and the retry timer's signals.                    *)

LEMMA LoopExitOK == ASSUME IInv, LoopExit PROVE IInv' /\ LinkStep
<1>1. /\ exits > 0 /\ exits' = exits - 1
      /\ UNCHANGED <<conn, connected, blk, exc, exs, ex, pc, cur, n, todo, to>>
  BY DEF LoopExit, threads
<1>2. armed = 0
  BY <1>1 DEF IInv, TypeOK, Alone
<1>3. PICK t \in Threads : pc[t] \in {"failed", "ok"}
  <2>1. \E t \in Threads : Keeper(t)  BY <1>1, <1>2 DEF IInv, NoKeeper
  <2> QED  BY <1>1, <2>1, Steps DEF IInv, KeeperOK, Keeper
<1>4. fired = exits /\ armed' = 0 /\ fired' = fired - 1
  BY <1>2, <1>3 DEF LoopExit, IInv, TypeOK, KeeperOK
<1>5. \A s \in Threads : Keeper(s) => s = t
  BY <1>3, Steps DEF IInv, Alone, Keeper
<1>6. TypeOK' /\ ThreadOK'
  BY <1>1, <1>2, <1>4 DEF IInv, TypeOK, ThreadOK
<1>7. Alone' /\ KeeperOK' /\ NoKeeper'
  <2>1. Keeper(t)  BY <1>3, Steps DEF Keeper
  <2> QED  BY <1>1, <1>2, <1>3, <1>4, <1>5, <2>1, Steps
    DEF IInv, TypeOK, Alone, KeeperOK, NoKeeper, Keeper, Crashed, Stopping
<1>8. LinkStep
  BY <1>1, <1>2, <1>4 DEF LinkStep, Phase, Crashed
<1> QED  BY <1>6, <1>7, <1>8 DEF IInv

LEMMA DialOK ==
  ASSUME IInv, NEW t \in Threads, DialFails(t) \/ DialOk(t) PROVE IInv' /\ LinkStep
<1> DEFINE l == IF conn' = "up" THEN "ok" ELSE "failed"
<1>1. /\ pc[t] = "dial" /\ conn' \in {"nil", "up"} /\ pc' = [pc EXCEPT ![t] = l]
      /\ exits' = exits + 1
      /\ UNCHANGED <<connected, armed, fired, blk, exc, exs, ex, cur, n, todo, to>>
  BY DEF DialFails, DialOk, GoTo
<1>2. l \in {"ok", "failed"} /\ (l = "ok" <=> conn' = "up")
  BY <1>1
<1> HIDE DEF l
<1>3. fired = 1 /\ exits = 0 /\ exits' = 1 /\ armed = 0
  <2>1. Keeper(t)  BY <1>1, Steps DEF Keeper
  <2> QED  BY <1>1, <2>1 DEF IInv, TypeOK, Alone, KeeperOK
<1>4. pc \in [Threads -> PCs]  BY DEF IInv, TypeOK, PCs
<1>5. \A s \in Threads : pc'[s] = IF s = t THEN l ELSE pc[s]  BY <1>1, <1>4
<1>6. \A s \in Threads : s # t => ~Keeper(s)  BY <1>1, Steps DEF IInv, Alone, Keeper
<1>7. TypeOK' /\ ThreadOK'
  <2>1. pc' \in [Threads -> PCs]  BY <1>1, <1>2, <1>4 DEF PCs, Connecting
  <2>2. TypeOK'  BY <1>1, <1>3, <2>1 DEF IInv, TypeOK, PCs
  <2>3. ThreadOK'  BY <1>1, <1>2, <1>5 DEF IInv, ThreadOK
  <2> QED  BY <2>2, <2>3
<1>8. ~Crashed /\ ~Crashed'
  BY <1>1, <1>2, <1>5 DEF IInv, NoKeeper, Crashed
<1>9. Alone' /\ KeeperOK' /\ NoKeeper'
  <2>1. Keeper(t)'  BY <1>2, <1>5, Steps DEF Keeper
  <2>2. \A s \in Threads : s # t => ~Keeper(s)'  BY <1>5, <1>6 DEF Keeper
  <2>3. Alone'  BY <1>1, <1>3, <2>2 DEF Alone
  <2>4. KeeperOK'
    BY <1>1, <1>2, <1>3, <1>5, <1>6, Steps DEF KeeperOK, Keeper, Stopping
  <2>5. NoKeeper'  BY <1>8, <2>1 DEF NoKeeper
  <2> QED  BY <2>3, <2>4, <2>5
<1>10. LinkStep
  <2>1. Phase = "dialing"  BY <1>1, <1>3, <1>8 DEF Phase
  <2>2. CASE l = "failed"
    <3>1. Phase' = "dialing"  BY <1>1, <1>3, <1>5, <1>8, <2>2 DEF Phase
    <3> QED  BY <2>1, <3>1 DEF LinkStep
  <2>3. CASE l = "ok"
    <3>1. \A s \in Threads : pc'[s] \notin {"dial", "failed"}
      BY <1>5, <1>6, <2>3, Steps DEF Keeper
    <3>2. Phase' = "up"  BY <1>1, <1>2, <1>3, <1>8, <2>3, <3>1 DEF Phase
    <3> QED  BY <2>1, <3>2 DEF LinkStep, Link!Next, Link!Accepted
  <2> QED  BY <1>2, <2>2, <2>3
<1> QED  BY <1>7, <1>9, <1>10 DEF IInv

\* The keeper hands the connection back to a retry timer.
LEMMA ArmOK ==
  ASSUME IInv, NEW t \in Threads, End(t),
         pc[t] \in {"failed", "close"}, fired = 0, exits = 0, armed' = armed + 1, conn' = "nil",
         UNCHANGED <<fired, exits>>
  PROVE  Alone' /\ KeeperOK' /\ NoKeeper' /\ LinkStep
<1>1. Keeper(t) /\ armed = 0 /\ armed' = 1
  <2>1. Keeper(t)  BY Steps DEF Keeper
  <2> QED  BY <2>1 DEF IInv, TypeOK, Alone
<1>2. pc \in [Threads -> PCs] /\ pc' = [pc EXCEPT ![t] = "idle"]
  BY EndOK DEF IInv, TypeOK, PCs
<1>3. \A s \in Threads : pc'[s] = IF s = t THEN "idle" ELSE pc[s]  BY <1>2
<1>4. \A s \in Threads : ~Keeper(s)'
  BY <1>1, <1>3, Steps DEF IInv, Alone, Keeper
<1>5. ~Crashed /\ ~Crashed'
  BY <1>3 DEF IInv, NoKeeper, Crashed
<1>6. Alone' /\ NoKeeper'
  BY <1>1, <1>4, <1>5 DEF Alone, NoKeeper
<1>7. KeeperOK'
  BY <1>4, Steps DEF KeeperOK, Keeper, Stopping
<1>8. LinkStep
  <2>1. Phase' = "waiting"  BY <1>1, <1>5 DEF Phase
  <2>2. Phase = IF pc[t] = "failed" THEN "dialing" ELSE "lost"
    <3>1. \A s \in Threads : pc[s] \in {"dial", "failed"} => s = t
      BY <1>1, Steps DEF IInv, Alone, Keeper
    <3>2. pc[t] = "close" => conn = "closed"  BY DEF IInv, KeeperOK, Stopping
    <3> QED  BY <1>1, <1>5, <3>1, <3>2 DEF Phase
  <2> QED  BY <2>1, <2>2 DEF LinkStep, Link!Next, Link!Refused, Link!WoundUp
<1> QED  BY <1>6, <1>7, <1>8

LEMMA RetryOK == ASSUME IInv, NEW t \in Threads, Retry(t) PROVE IInv' /\ LinkStep
<1>1. /\ pc[t] = "failed" /\ armed' = armed + 1 /\ End(t)
      /\ UNCHANGED <<conn, connected, fired, exits, blk, exc, exs, ex, to>>
  BY DEF Retry
<1>2. fired = 0 /\ exits = 0 /\ conn = "nil"
  BY <1>1 DEF Retry, IInv, TypeOK, KeeperOK
<1>3. TypeOK' /\ ThreadOK'
  BY <1>1, EndOK DEF IInv, TypeOK, PCs
<1> QED  BY <1>1, <1>2, <1>3, ArmOK DEF IInv

LEMMA StopCloseOK == ASSUME IInv, NEW t \in Threads, StopClose(t) PROVE IInv' /\ LinkStep
<1>1. /\ pc[t] = "close" /\ armed' = armed + 1 /\ End(t) /\ conn' = "nil"
      /\ ex' = ChannelsClosed
      /\ UNCHANGED <<connected, fired, exits, blk, exc, exs, to>>
  BY DEF StopClose
<1>2. fired = 0 /\ exits = 0
  BY <1>1, Steps DEF IInv, KeeperOK
<1>3. ex' \in [Exs -> Exchange]
  BY <1>1, ClosedTyped DEF IInv
<1>4. TypeOK' /\ ThreadOK'
  BY <1>1, <1>3, EndOK DEF IInv, TypeOK, PCs
<1> QED  BY <1>1, <1>2, <1>4, ArmOK DEF IInv

-----------------------------------------------------------------------------
(* The keeper: from mqConnect to the watcher, and the loss.                *)

LEMMA WatchOK == ASSUME IInv, NEW t \in Threads, Watch(t) PROVE IInv' /\ LinkStep
<1>1. PICK w \in Threads : /\ pc[w] = "idle"
                           /\ pc' = [pc EXCEPT ![t] = "open", ![w] = "notify"]
  BY NewThreadIdle DEF Watch
<1>2. /\ pc[t] = "ok" /\ n' = [n EXCEPT ![t] = 1] /\ blk' = blk + 1
      /\ UNCHANGED <<conn, connected, armed, fired, exits, exc, exs, ex, cur, todo, to>>
  BY DEF Watch, timers
<1>3. fired = 0 /\ exits = 0 /\ armed = 0 /\ conn # "nil"
  BY <1>2 DEF Watch, IInv, TypeOK, KeeperOK
<1>4. pc \in [Threads -> PCs]  BY DEF IInv, TypeOK, PCs
<1>5. \A s \in Threads : pc'[s] = IF s = w THEN "notify" ELSE IF s = t THEN "open" ELSE pc[s]
  BY <1>1, <1>2, <1>4
<1>6. \A s \in Threads : s # t => ~Keeper(s)  BY <1>2, Steps DEF IInv, Alone, Keeper
<1>7. TypeOK' /\ ThreadOK'
  <2>1. pc' \in [Threads -> PCs]  BY <1>1, <1>2, <1>4 DEF PCs, Registering, Watching
  <2>2. TypeOK'
    <3>1. n' \in [Threads -> Nat] /\ blk' \in Nat  BY <1>2 DEF IInv, TypeOK
    <3> QED  BY <1>2, <2>1, <3>1 DEF IInv, TypeOK, PCs
  <2>3. Len(Order) \in Nat /\ Len(Order) > 0  BY OrderAssumption
  <2>4. ThreadOK'  BY <1>1, <1>2, <1>5, <2>3 DEF IInv, TypeOK, ThreadOK
  <2> QED  BY <2>2, <2>4
<1>8. ~Crashed /\ ~Crashed'
  BY <1>2, <1>5 DEF IInv, NoKeeper, Crashed
<1>9. Alone' /\ KeeperOK' /\ NoKeeper'
  <2>1. Keeper(w)'  BY <1>1, <1>5, Steps DEF Keeper
  <2>2. \A s \in Threads : s # w => ~Keeper(s)'  BY <1>5, <1>6, Steps DEF Keeper
  <2>3. Alone'  BY <1>2, <1>3, <2>2 DEF Alone
  <2>4. KeeperOK'
    BY <1>2, <1>3, <1>5, <1>6, Steps DEF KeeperOK, Keeper, Stopping
  <2>5. NoKeeper'  BY <1>1, <1>8, <2>1 DEF NoKeeper
  <2> QED  BY <2>3, <2>4, <2>5
<1>10. LinkStep
  <2>1. \A s \in Threads : pc[s] \notin {"dial", "failed"} /\ pc'[s] \notin {"dial", "failed"}
    BY <1>2, <1>5, <1>6, Steps DEF Keeper
  <2> QED  BY <1>2, <1>3, <1>8, <2>1 DEF LinkStep, Phase
<1> QED  BY <1>7, <1>9, <1>10 DEF IInv

LEMMA LoseOK == ASSUME IInv, Lose PROVE IInv' /\ LinkStep
<1>1. /\ conn = "up" /\ conn' = "closed" /\ ex' = ChannelsClosed
      /\ pc' = [t \in Threads |-> IF pc[t] = "watch" THEN "noticed" ELSE pc[t]]
      /\ UNCHANGED <<connected, armed, fired, exits, blk, exc, exs, cur, n, todo, to>>
  BY DEF Lose, timers
<1>2. \A s \in Threads : pc'[s] = IF pc[s] = "watch" THEN "noticed" ELSE pc[s]
  BY <1>1
<1>3. pc \in [Threads -> PCs]  BY DEF IInv, TypeOK, PCs
<1>4. armed = 0  BY <1>1 DEF IInv, TypeOK, Alone
<1>5. TypeOK' /\ ThreadOK'
  <2>1. pc' \in [Threads -> PCs]  BY <1>1, <1>3 DEF PCs, Watching, Stopping
  <2>2. ex' \in [Exs -> Exchange]  BY <1>1, ClosedTyped DEF IInv
  <2>3. TypeOK'  BY <1>1, <2>1, <2>2 DEF IInv, TypeOK, PCs
  <2>4. ThreadOK'  BY <1>1, <1>2 DEF IInv, ThreadOK
  <2> QED  BY <2>3, <2>4
<1>6. \A s \in Threads : Keeper(s)' <=> Keeper(s)
  BY <1>2, Steps DEF Keeper
<1>7. Crashed' <=> Crashed
  BY <1>2 DEF Crashed
<1>8. Alone' /\ NoKeeper'
  BY <1>1, <1>2, <1>4, <1>6, <1>7 DEF IInv, Alone, NoKeeper, Crashed
<1>9. KeeperOK'
  BY <1>1, <1>2, Steps DEF IInv, KeeperOK, Stopping
<1>10. LinkStep
  <2>1. \A s \in Threads : pc[s] \notin {"dial", "failed"} /\ pc'[s] \notin {"dial", "failed"}
    BY <1>1, <1>2 DEF IInv, KeeperOK
  <2>2. CASE Crashed
    BY <1>7, <2>2 DEF LinkStep, Phase
  <2>3. CASE ~Crashed
    <3>1. Phase = "up" /\ Phase' = "lost"  BY <1>1, <1>4, <1>7, <2>1, <2>3 DEF Phase
    <3> QED  BY <3>1 DEF LinkStep, Link!Next, Link!Lose
  <2> QED  BY <2>2, <2>3
<1> QED  BY <1>5, <1>8, <1>9, <1>10 DEF IInv

LEMMA NotifyCloseOK == ASSUME IInv, NEW t \in Threads, NotifyClose(t) PROVE IInv' /\ LinkStep
<1> DEFINE l == IF conn = "closed" THEN "idle" ELSE "watch"
<1>1. /\ pc[t] = "notify" /\ conn \in {"up", "closed"} /\ pc' = [pc EXCEPT ![t] = l]
      /\ UNCHANGED <<conn, connected, armed, fired, exits, blk, exc, exs, ex, to>>
  BY DEF NotifyClose, End, GoTo, timers
<1>2. l \in {"idle", "watch"} /\ (l = "idle" => conn = "closed") /\ (l = "watch" => conn = "up")
  BY <1>1
<1>3. \/ l = "idle" /\ End(t)
      \/ l = "watch" /\ UNCHANGED <<cur, n, todo>>
  BY DEF NotifyClose
<1> HIDE DEF l
<1>4. pc \in [Threads -> PCs]  BY DEF IInv, TypeOK, PCs
<1>5. \A s \in Threads : pc'[s] = IF s = t THEN l ELSE pc[s]  BY <1>1, <1>4
<1>6. fired = 0 /\ exits = 0 /\ armed = 0 /\ \A s \in Threads : s # t => ~Keeper(s)
  <2>1. Keeper(t)  BY <1>1, Steps DEF Keeper
  <2> QED  BY <1>1, <2>1, Steps DEF IInv, TypeOK, Alone, KeeperOK
<1>7. TypeOK' /\ ThreadOK'
  <2>1. CASE End(t)
    BY <1>1, <2>1, EndOK DEF IInv, TypeOK, PCs
  <2>2. CASE l = "watch" /\ UNCHANGED <<cur, n, todo>>
    <3>1. pc' \in [Threads -> PCs]  BY <1>1, <1>4, <2>2 DEF PCs, Watching
    <3>2. TypeOK'  BY <1>1, <2>2, <3>1 DEF IInv, TypeOK, PCs
    <3>3. ThreadOK'  BY <1>5, <2>2 DEF IInv, ThreadOK
    <3> QED  BY <3>2, <3>3
  <2> QED  BY <1>3, <2>1, <2>2
<1>8. ~Crashed /\ ~Crashed'
  BY <1>1, <1>2, <1>5 DEF IInv, NoKeeper, Crashed
<1>9. Alone' /\ KeeperOK' /\ NoKeeper'
  <2>1. \A s \in Threads : s # t => ~Keeper(s)'  BY <1>5, <1>6 DEF Keeper
  <2>2. Alone'  BY <1>1, <1>6, <2>1 DEF Alone
  <2>3. KeeperOK'
    BY <1>1, <1>2, <1>5, <1>6, Steps DEF KeeperOK, Keeper, Stopping
  <2>4. NoKeeper'  BY <1>1, <1>6, <1>8 DEF NoKeeper
  <2> QED  BY <2>2, <2>3, <2>4
<1>10. LinkStep
  <2>1. \A s \in Threads : pc[s] \notin {"dial", "failed"} /\ pc'[s] \notin {"dial", "failed"}
    BY <1>1, <1>2, <1>5, <1>6, Steps DEF Keeper
  <2> QED  BY <1>1, <1>8, <2>1 DEF LinkStep, Phase
<1> QED  BY <1>7, <1>9, <1>10 DEF IInv

-----------------------------------------------------------------------------
(* Stop.                                                                   *)

LEMMA DestroyTyped ==
  ASSUME IInv, NEW o \in Exs PROVE [ex EXCEPT ![o].chan = "nil"] \in [Exs -> Exchange]
<1>1. ex \in [Exs -> Exchange] /\ ex[o] \in Exchange  BY DEF IInv, TypeOK
<1>2. [ex[o] EXCEPT !.chan = "nil"] \in Exchange  BY <1>1 DEF Exchange
<1> HIDE DEF Exchange
<1>3. [ex EXCEPT ![o].chan = "nil"] = [ex EXCEPT ![o] = [ex[o] EXCEPT !.chan = "nil"]]
  OBVIOUS
<1> QED  BY <1>1, <1>2, <1>3, Zenon

LEMMA ClearConnectedOK ==
  ASSUME IInv, NEW t \in Threads, ClearConnected(t) PROVE IInv' /\ LinkStep
<1>1. /\ pc[t] = "noticed" /\ connected' = FALSE /\ pc' = [pc EXCEPT ![t] = "prods"]
      /\ n' = [n EXCEPT ![t] = 1]
      /\ UNCHANGED <<conn, armed, fired, exits, blk, exc, exs, ex, cur, todo, to>>
  BY DEF ClearConnected, GoTo, timers
<1>2. TypeOK'  BY <1>1, StepTyped DEF IInv, TypeOK
<1>3. ThreadOK'  BY <1>1 DEF IInv, TypeOK, ThreadOK
<1>4. Alone' /\ KeeperOK' /\ NoKeeper' /\ LinkStep
  BY <1>1, QuietOK DEF Stopping, Watching, PCs
<1> QED  BY <1>2, <1>3, <1>4 DEF IInv

LEMMA StopProducersOK ==
  ASSUME IInv, NEW t \in Threads, StopProducers(t) PROVE IInv' /\ LinkStep
<1>1. /\ pc[t] = "prods" /\ n[t] \in Nat /\ n[t] > 0
      /\ UNCHANGED <<conn, connected, armed, fired, exits, blk, exc, exs, to>>
  BY DEF StopProducers, IInv, TypeOK, ThreadOK, timers
<1>2. CASE n[t] > Len(Producers)
  <2>1. /\ pc' = [pc EXCEPT ![t] = "recvs"] /\ todo' = [todo EXCEPT ![t] = exs]
        /\ UNCHANGED <<ex, cur, n>>
    BY <1>2, <1>1, OrderAssumption DEF StopProducers, GoTo
  <2>2. todo' \in [Threads -> Seq(Exs)]  BY <2>1 DEF IInv, TypeOK
  <2>3. TypeOK'  BY <1>1, <2>1, <2>2, StepTyped DEF IInv, TypeOK
  <2>4. ThreadOK'  BY <1>1, <2>1 DEF IInv, TypeOK, ThreadOK
  <2>5. Alone' /\ KeeperOK' /\ NoKeeper' /\ LinkStep
    BY <1>1, <2>1, QuietOK DEF Stopping, Watching, PCs
  <2> QED  BY <2>3, <2>4, <2>5 DEF IInv
<1>3. CASE n[t] <= Len(Producers)
  <2> DEFINE p == Producers[n[t]]
  <2>1. p \in ProducerNames  BY <1>1, <1>3, ProducersTyped, OrderAssumption
  <2>2. n[t] <= Len(Producers) /\ ~(n[t] > Len(Producers))
    BY <1>1, <1>3, OrderAssumption
  <2>3. CASE exc[p] = Nil
    <3>1. n' = [n EXCEPT ![t] = n[t] + 1] /\ UNCHANGED <<ex, pc, cur, todo>>
      BY <2>2, <2>3 DEF StopProducers
    <3>2. TypeOK'  BY <1>1, <3>1 DEF IInv, TypeOK
    <3>3. ThreadOK'  BY <1>1, <3>1 DEF IInv, TypeOK, ThreadOK
    <3> QED  BY <1>1, <3>1, <3>2, <3>3, DataOK DEF IInv
  <2>4. CASE exc[p] # Nil
    <3>1. /\ ex' = [ex EXCEPT ![exc[p]].chan = "nil"] /\ cur' = [cur EXCEPT ![t] = exc[p]]
          /\ pc' = [pc EXCEPT ![t] = "exit"] /\ UNCHANGED <<n, todo>>
      BY <2>2, <2>4 DEF StopProducers, Destroy, GoTo
    <3>2. exc[p] \in Exs  BY <2>1, <2>4 DEF IInv, TypeOK
    <3> HIDE DEF p
    <3>3. ex' \in [Exs -> Exchange]  BY <3>1, <3>2, DestroyTyped
    <3>4. TypeOK'  BY <1>1, <3>1, <3>2, <3>3, StepTyped DEF IInv, TypeOK
    <3>5. ThreadOK'  BY <1>1, <3>1, <3>2 DEF IInv, TypeOK, ThreadOK
    <3>6. Alone' /\ KeeperOK' /\ NoKeeper' /\ LinkStep
      BY <1>1, <3>1, QuietOK DEF Stopping, Watching, PCs
    <3> QED  BY <3>4, <3>5, <3>6 DEF IInv
  <2> QED  BY <2>3, <2>4
<1> QED  BY <1>1, <1>2, <1>3, OrderAssumption

LEMMA StopReceiversOK ==
  ASSUME IInv, NEW t \in Threads, StopReceivers(t) PROVE IInv' /\ LinkStep
<1>1. /\ pc[t] = "recvs"
      /\ UNCHANGED <<conn, connected, armed, fired, exits, blk, exc, n, to>>
  BY DEF StopReceivers, timers
<1>2. CASE todo[t] = <<>>
  <2>1. exs' = <<>> /\ pc' = [pc EXCEPT ![t] = "close"] /\ UNCHANGED <<ex, cur, todo>>
    BY <1>2 DEF StopReceivers, GoTo
  <2>2. exs' \in Seq(Exs)  BY <2>1
  <2>3. TypeOK'  BY <1>1, <2>1, <2>2, StepTyped DEF IInv, TypeOK
  <2>4. ThreadOK'  BY <1>1, <2>1 DEF IInv, TypeOK, ThreadOK
  <2>5. Alone' /\ KeeperOK' /\ NoKeeper' /\ LinkStep
    BY <1>1, <2>1, QuietOK DEF Stopping, Watching, PCs
  <2> QED  BY <2>3, <2>4, <2>5 DEF IInv
<1>3. CASE todo[t] # <<>>
  <2> DEFINE o == Head(todo[t])
  <2>1. /\ ex' = [ex EXCEPT ![o].chan = "nil"] /\ cur' = [cur EXCEPT ![t] = o]
        /\ pc' = [pc EXCEPT ![t] = "exit"] /\ todo' = [todo EXCEPT ![t] = Tail(todo[t])]
        /\ exs' = exs
    BY <1>3 DEF StopReceivers, Destroy, GoTo
  <2>2. o \in Exs /\ Tail(todo[t]) \in Seq(Exs)
    <3>1. todo[t] \in Seq(Exs)  BY DEF IInv, TypeOK
    <3> QED  BY <1>3, <3>1
  <2> HIDE DEF o
  <2>3. ex' \in [Exs -> Exchange]  BY <2>1, <2>2, DestroyTyped
  <2>4. todo' \in [Threads -> Seq(Exs)]  BY <2>1, <2>2 DEF IInv, TypeOK
  <2>5. TypeOK'  BY <1>1, <2>1, <2>2, <2>3, <2>4, StepTyped DEF IInv, TypeOK
  <2>6. ThreadOK'  BY <1>1, <2>1, <2>2 DEF IInv, TypeOK, ThreadOK
  <2>7. Alone' /\ KeeperOK' /\ NoKeeper' /\ LinkStep
    BY <1>1, <2>1, QuietOK DEF Stopping, Watching, PCs
  <2> QED  BY <2>5, <2>6, <2>7 DEF IInv
<1> QED  BY <1>2, <1>3

LEMMA StopExitOK == ASSUME IInv, NEW t \in Threads, StopExit(t) PROVE IInv' /\ LinkStep
<1> DEFINE l == IF n[t] <= Len(Producers) THEN "prods" ELSE "recvs"
<1>1. /\ pc[t] = "exit" /\ cur[t] \in Exs /\ n[t] \in Nat /\ n[t] > 0
      /\ pc' = [pc EXCEPT ![t] = l] /\ l \in {"prods", "recvs"}
      /\ cur' = [cur EXCEPT ![t] = Nil]
      /\ UNCHANGED <<conn, connected, armed, fired, exits, blk, exc, exs, todo, to>>
  BY DEF StopExit, IInv, TypeOK, ThreadOK, GoTo, timers
<1>2. PICK m \in Nat : m > 0 /\ n' = [n EXCEPT ![t] = m]
  <2> DEFINE k == IF n[t] <= Len(Producers) THEN n[t] + 1 ELSE n[t]
  <2>1. n' = [n EXCEPT ![t] = k]  BY DEF StopExit
  <2>2. k \in Nat /\ k > 0  BY <1>1
  <2> HIDE DEF k
  <2> QED  BY <2>1, <2>2
<1> HIDE DEF l
<1>3. ex' \in [Exs -> Exchange]
  <2>1. ex \in [Exs -> Exchange] /\ ex[cur[t]] \in Exchange  BY <1>1 DEF IInv, TypeOK
  <2>2. [ex[cur[t]] EXCEPT !.run = FALSE] \in Exchange  BY <2>1 DEF Exchange
  <2> HIDE DEF Exchange
  <2>3. ex' = [ex EXCEPT ![cur[t]] = [ex[cur[t]] EXCEPT !.run = FALSE]]  BY DEF StopExit
  <2> QED  BY <1>1, <2>1, <2>2, <2>3, Zenon
<1>4. TypeOK'
  BY <1>1, <1>2, <1>3, StepTyped DEF IInv, TypeOK
<1>5. ThreadOK'
  BY <1>1, <1>2 DEF IInv, TypeOK, ThreadOK
<1>6. Alone' /\ KeeperOK' /\ NoKeeper' /\ LinkStep
  BY <1>1, QuietOK DEF Stopping, Watching, PCs
<1> QED  BY <1>4, <1>5, <1>6 DEF IInv

-----------------------------------------------------------------------------
(* All steps.                                                              *)

LEMMA StutterOK == ASSUME IInv, UNCHANGED vars PROVE IInv' /\ LinkStep
<1>1. UNCHANGED <<conn, connected, armed, fired, exits, blk, exc, exs, ex, pc, cur, n, todo, to>>
  BY DEF vars, timers, threads
<1>2. TypeOK' /\ ThreadOK'  BY <1>1 DEF IInv, TypeOK, ThreadOK
<1> QED  BY <1>1, <1>2, DataOK DEF IInv

LEMMA NextOK == ASSUME IInv, [Next]_vars PROVE IInv' /\ LinkStep
<1>1. CASE UNCHANGED vars  BY <1>1, StutterOK
<1>2. CASE Fire  BY <1>2, FireOK
<1>3. ASSUME NEW t \in Threads, Connect(t) PROVE IInv' /\ LinkStep
  BY <1>3, DialOK, RetryOK, WatchOK, OpenOK, DeclareOK, AssignOK, SetConnectedOK DEF Connect
<1>4. ASSUME NEW t \in Threads, NotifyClose(t) PROVE IInv' /\ LinkStep
  BY <1>4, NotifyCloseOK
<1>5. ASSUME NEW t \in Threads, Stop(t) PROVE IInv' /\ LinkStep
  BY <1>5, ClearConnectedOK, StopProducersOK, StopReceiversOK, StopExitOK, StopCloseOK DEF Stop
<1>6. CASE LoopExit  BY <1>6, LoopExitOK
<1>7. CASE NotifyBlocked  BY <1>7, NotifyBlockedOK
<1>8. CASE Lose  BY <1>8, LoseOK
<1>9. ASSUME NEW x \in Senders \cup Exs, Send(x) PROVE IInv' /\ LinkStep
  BY <1>9, SendOK
<1>10. ASSUME NEW x \in Senders \cup Exs, NEW p \in ProducerNames, Publish(x, p)
       PROVE  IInv' /\ LinkStep
  BY <1>10, PublishOK
<1>11. ASSUME NEW o \in Exs, Take(o) PROVE IInv' /\ LinkStep
  BY <1>11, TakeOK
<1> QED
  BY <1>1, <1>2, <1>3, <1>4, <1>5, <1>6, <1>7, <1>8, <1>9, <1>10, <1>11 DEF Next

-----------------------------------------------------------------------------
(* A client that is lost: what a step does to what others wait for.        *)

LEMMA NewExFresh == ASSUME \E o \in Exs : Fresh(o) PROVE NewEx \in Exs /\ Fresh(NewEx)
BY Zenon DEF NewEx

\* What is in the sequences that the steps make.
LEMMA InAppend ==
  ASSUME NEW s \in Seq(Exs), NEW e \in Exs, NEW o, In(Append(s, e), o)
  PROVE  o = e \/ In(s, o)
BY DEF In

LEMMA InTail ==
  ASSUME NEW s \in Seq(Exs), s # <<>>, NEW o
  PROVE  (In(Tail(s), o) => In(s, o)) /\ In(s, Head(s))
<1>1. Len(s) \in Nat /\ Len(s) > 0 /\ Head(s) = s[1]  OBVIOUS
<1>2. \A i \in 1 .. Len(Tail(s)) : Tail(s)[i] = s[i + 1] /\ i + 1 \in 1 .. Len(s)
  BY <1>1
<1>3. In(Tail(s), o) => In(s, o)  BY <1>2 DEF In
<1>4. 1 \in 1 .. Len(s)  BY <1>1
<1>5. In(s, Head(s))  BY <1>1, <1>4 DEF In
<1> QED  BY <1>3, <1>5

LEMMA InEmpty == ASSUME NEW o PROVE ~In(<<>>, o)
BY DEF In

\* A name is no address.
LEMMA Apart == ProducerNames \cap Exs = {} /\ Nil \notin Exs /\ Nil \notin ProducerNames
<1>1. ProducerNames \subseteq Names
  BY OrderAssumption DEF ProducerNames
<1> QED  BY <1>1, NilAssumption

\* Without keeper nothing but a goroutine inside its registrations is under way.
LEMMA UnwatchedFacts ==
  ASSUME IInv, Unwatched PROVE conn = "closed" /\ armed = 0 /\ \A t \in Threads : ~Keeper(t)
BY DEF IInv, TypeOK, Unwatched, Keepers, Keeper, Alone

\* Only what is in hand and the channels change, and a goroutine's step.
LEMMA StuckQuiet ==
  ASSUME IInv, NEW t \in Threads, pc[t] # "exit", pc[t] \in PCs,
         \A s \in Threads : s # t => pc'[s] = pc[s] /\ cur'[s] = cur[s],
         conn' = conn, Keeper(t)' => Keeper(t), to' = to,
         \A o \in Exs : ex'[o].run => ex[o].run \/ \E s \in Threads : pc[s] = "declare" /\ cur[s] = o
  PROVE  Stuck
<1>1. Unwatched => Unwatched'
  BY UnwatchedFacts DEF Unwatched, Keepers, Keeper
<1> QED  BY <1>1 DEF Stuck

\* Exchanges that mqConnect has in hand already stay its own.
LEMMA PrivateKept ==
  ASSUME LInv,
         \A s \in Threads : pc'[s] \in Unpublished => pc[s] \in Unpublished /\ cur'[s] = cur[s],
         \A c \in Exs, s \in Threads :
           /\ cur'[s] = c => cur[s] = c \/ (\E p \in ProducerNames : exc[p] = c)
                                        \/ (\E u \in Threads : In(todo[u], c))
           /\ In(todo'[s], c) => In(todo[s], c) \/ In(exs, c),
         \A c \in Exs :
           /\ \A p \in ProducerNames :
                exc'[p] = c => exc[p] = c \/ \E s \in Threads : cur[s] = c /\ pc'[s] \notin Unpublished
           /\ In(exs', c) => In(exs, c) \/ \E s \in Threads : cur[s] = c /\ pc'[s] \notin Unpublished
           /\ \A x \in Senders \cup Exs :
                to'[x] = c => to[x] = c \/ \E p \in ProducerNames : exc[p] = c
  PROVE  Private'
<1> SUFFICES ASSUME NEW t \in Threads, pc'[t] \in Unpublished
             PROVE  /\ \A p \in ProducerNames : exc'[p] # cur'[t]
                    /\ ~In(exs', cur'[t])
                    /\ \A s \in Threads : ~In(todo'[s], cur'[t]) /\ (s # t => cur'[s] # cur'[t])
                    /\ \A x \in Senders \cup Exs : to'[x] # cur'[t]
  BY DEF Private
<1> DEFINE c == cur[t]
<1>1. pc[t] \in Unpublished /\ cur'[t] = c /\ c \in Exs
  BY DEF LInv, IInv, ThreadOK, Unpublished
<1>2. /\ \A p \in ProducerNames : exc[p] # c
      /\ ~In(exs, c)
      /\ \A s \in Threads : ~In(todo[s], c) /\ (s # t => cur[s] # c)
      /\ \A x \in Senders \cup Exs : to[x] # c
  BY <1>1 DEF LInv, Private
<1>3. \A s \in Threads : pc'[s] \notin Unpublished => cur[s] # c
  BY <1>2
<1> HIDE DEF c
<1>4. (\A p \in ProducerNames : exc'[p] # c) /\ ~In(exs', c)  BY <1>1, <1>2, <1>3
<1>5. \A s \in Threads : ~In(todo'[s], c) /\ (s # t => cur'[s] # c)  BY <1>1, <1>2
<1>6. \A x \in Senders \cup Exs : to'[x] # c  BY <1>1, <1>2
<1> QED  BY <1>1, <1>4, <1>5, <1>6

\* Nothing changes but the retry timer's part.
LEMMA TimerLost ==
  ASSUME LInv, Fire \/ LoopExit \/ UNCHANGED vars PROVE LostStep
<1>1. UNCHANGED <<conn, exc, exs, ex, cur, todo, to>>
  BY DEF Fire, LoopExit, vars, threads
<1>2. \/ armed' = armed /\ pc' = pc
      \/ armed = 1 /\ \E t \in Threads : pc[t] = "idle" /\ pc' = [pc EXCEPT ![t] = "dial"]
  <2>1. CASE Fire
    <3>1. NewThread \in Threads /\ pc[NewThread] = "idle" /\ pc' = [pc EXCEPT ![NewThread] = "dial"]
      BY <2>1, NewThreadIdle DEF Fire, GoTo
    <3>2. armed = 1  BY <2>1 DEF Fire, LInv, IInv, TypeOK, Alone
    <3> QED  BY <3>1, <3>2
  <2>2. CASE LoopExit
    BY <2>2 DEF LoopExit, threads, LInv, IInv, TypeOK, Alone
  <2>3. CASE UNCHANGED vars
    BY <2>3 DEF vars, timers, threads
  <2> QED  BY <2>1, <2>2, <2>3
<1>3. pc \in [Threads -> PCs]  BY DEF LInv, IInv, TypeOK, PCs
<1>4. \A s \in Threads : pc'[s] = pc[s] \/ (pc[s] = "idle" /\ pc'[s] = "dial" /\ armed = 1)
  <2>1. CASE pc' = pc  BY <2>1
  <2>2. CASE armed = 1 /\ \E t \in Threads : pc[t] = "idle" /\ pc' = [pc EXCEPT ![t] = "dial"]
    <3>1. PICK t \in Threads : pc[t] = "idle" /\ pc' = [pc EXCEPT ![t] = "dial"]  BY <2>2
    <3> QED  BY <1>3, <2>2, <3>1
  <2> QED  BY <1>2, <2>1, <2>2
<1>5. Private'
  BY <1>1, <1>4 DEF LInv, Private, Unpublished
<1>6. Kept'
  BY <1>1, <1>2, <1>3, <1>4 DEF LInv, Kept, Crashed
<1>7. Stuck
  <2>1. Unwatched => Unwatched'
    BY <1>1, <1>4, UnwatchedFacts, Steps DEF LInv, Unwatched, Keepers, Keeper
  <2> QED  BY <1>1, <1>4, <2>1 DEF Stuck
<1> QED  BY <1>5, <1>6, <1>7 DEF LostStep

\* A goroutine t that has nothing unpublished in hand afterwards goes on; what it
\* takes in hand and keeps comes from the producers and r.exs.
LEMMA MoveLost ==
  ASSUME LInv, NEW t \in Threads, NEW l \in PCs, pc' = [pc EXCEPT ![t] = l],
         pc[t] # "exit", pc[t] # "dead", l # "dead",
         l \in Unpublished => pc[t] \in Unpublished /\ cur'[t] = cur[t],
         UNCHANGED <<conn, to>>, \A s \in Threads : s # t => cur'[s] = cur[s] /\ todo'[s] = todo[s],
         Keeper(t)' => Keeper(t),
         \A o \in Exs : ex'[o].run => ex[o].run \/ (pc[t] = "declare" /\ cur[t] = o),
         conn = "nil" => armed' = 1 \/ (pc[t] \notin {"dial", "failed"} /\ armed' = armed),
         \A c \in Exs :
           /\ cur'[t] = c => cur[t] = c \/ (\E p \in ProducerNames : exc[p] = c) \/ In(todo[t], c)
           /\ In(todo'[t], c) => In(todo[t], c) \/ In(exs, c)
           /\ \A p \in ProducerNames :
                exc'[p] = c => exc[p] = c \/ (cur[t] = c /\ l \notin Unpublished)
           /\ In(exs', c) => In(exs, c) \/ (cur[t] = c /\ l \notin Unpublished)
  PROVE  LostStep
<1>1. \A s \in Threads : pc'[s] = IF s = t THEN l ELSE pc[s]
  BY DEF LInv, IInv, TypeOK, PCs
<1>2. Private'
  <2>1. \A s \in Threads : pc'[s] \in Unpublished => pc[s] \in Unpublished /\ cur'[s] = cur[s]
    BY <1>1
  <2>2. \A c \in Exs, s \in Threads :
          /\ cur'[s] = c => cur[s] = c \/ (\E p \in ProducerNames : exc[p] = c)
                                       \/ (\E u \in Threads : In(todo[u], c))
          /\ In(todo'[s], c) => In(todo[s], c) \/ In(exs, c)
    OBVIOUS
  <2>3. \A c \in Exs :
          /\ \A p \in ProducerNames :
               exc'[p] = c => exc[p] = c \/ \E s \in Threads : cur[s] = c /\ pc'[s] \notin Unpublished
          /\ In(exs', c) => In(exs, c) \/ \E s \in Threads : cur[s] = c /\ pc'[s] \notin Unpublished
          /\ \A x \in Senders \cup Exs :
               to'[x] = c => to[x] = c \/ \E p \in ProducerNames : exc[p] = c
    BY <1>1
  <2> QED  BY <2>1, <2>2, <2>3, PrivateKept
<1>3. Kept'
  <2>1. ~Crashed /\ ~Crashed'  BY <1>1 DEF LInv, IInv, NoKeeper, Crashed
  <2> QED  BY <1>1, <2>1 DEF LInv, Kept
<1>4. Stuck
  <2>1. pc[t] \in PCs  BY DEF LInv, IInv, TypeOK, PCs
  <2> QED  BY <1>1, <2>1, StuckQuiet DEF LInv
<1> QED  BY <1>2, <1>3, <1>4 DEF LostStep

LEMMA RetryLost == ASSUME LInv, NEW t \in Threads, Retry(t) PROVE LostStep
<1>1. /\ pc[t] = "failed" /\ armed' = 1 /\ pc' = [pc EXCEPT ![t] = "idle"]
      /\ cur' = [cur EXCEPT ![t] = Nil] /\ todo' = [todo EXCEPT ![t] = <<>>]
      /\ UNCHANGED <<conn, exc, exs, ex, to>>
  BY DEF Retry, End, GoTo, LInv, IInv, TypeOK
<1>2. cur'[t] = Nil /\ todo'[t] = <<>> /\ pc'[t] = "idle"
  BY <1>1 DEF LInv, IInv, TypeOK
<1>3. ~Keeper(t)'  BY <1>2, Steps DEF Keeper
<1>4. \A s \in Threads : s # t => cur'[s] = cur[s] /\ todo'[s] = todo[s]
  BY <1>1 DEF LInv, IInv, TypeOK
<1>5. \A c \in Exs : cur'[t] # c /\ ~In(todo'[t], c)  BY <1>2, InEmpty, Apart
<1>6. "idle" \in PCs /\ "idle" \notin Unpublished  BY DEF Unpublished, PCs
<1> QED  BY <1>1, <1>3, <1>4, <1>5, <1>6, MoveLost

LEMMA DeclareLost == ASSUME LInv, NEW t \in Threads, Declare(t) PROVE LostStep
<1>1. /\ pc[t] = "declare" /\ cur[t] \in Exs /\ pc' = [pc EXCEPT ![t] = "assign"]
      /\ UNCHANGED <<conn, armed, exc, exs, cur, todo, to>>
  BY DEF Declare, LInv, IInv, ThreadOK, GoTo, timers
<1>2. \A o \in Exs : ex'[o].run => ex[o].run \/ (pc[t] = "declare" /\ cur[t] = o)
  BY <1>1 DEF Declare, LInv, IInv, TypeOK, Exchange
<1>3. ~Keeper(t)'
  BY <1>1, Steps DEF Keeper, LInv, IInv, TypeOK
<1> QED  BY <1>1, <1>2, <1>3, MoveLost DEF Unpublished, PCs, Registering

LEMMA AssignLost == ASSUME LInv, NEW t \in Threads, Assign(t) PROVE LostStep
<1> DEFINE l == IF n[t] = Len(Order) THEN "flag" ELSE "open"
<1>1. /\ pc[t] = "assign" /\ cur[t] \in Exs /\ pc' = [pc EXCEPT ![t] = l]
      /\ cur' = [cur EXCEPT ![t] = Nil]
      /\ UNCHANGED <<conn, armed, ex, todo, to>>
  BY DEF Assign, LInv, IInv, ThreadOK, GoTo, timers
<1>2. \/ exc' = [exc EXCEPT ![ex[cur[t]].name] = cur[t]] /\ exs' = exs
      \/ exc' = exc /\ exs' = Append(exs, cur[t])
  BY DEF Assign
<1>3. l \in {"flag", "open"}  OBVIOUS
<1> HIDE DEF l
<1>4. \A c \in Exs : /\ \A p \in ProducerNames : exc'[p] = c => exc[p] = c \/ cur[t] = c
                     /\ In(exs', c) => In(exs, c) \/ cur[t] = c
  BY <1>1, <1>2, InAppend DEF LInv, IInv, TypeOK
<1>5. cur'[t] = Nil /\ ~Keeper(t)'
  BY <1>1, <1>3, Steps DEF Keeper, LInv, IInv, TypeOK
<1>6. \A s \in Threads : s # t => cur'[s] = cur[s]
  BY <1>1 DEF LInv, IInv, TypeOK
<1>7. l \in PCs /\ l \notin Unpublished /\ l # "dead"
  BY <1>3 DEF Unpublished, PCs, Registering
<1>8. \A c \in Exs :
        /\ \A p \in ProducerNames : exc'[p] = c => exc[p] = c \/ (cur[t] = c /\ l \notin Unpublished)
        /\ In(exs', c) => In(exs, c) \/ (cur[t] = c /\ l \notin Unpublished)
  BY <1>4, <1>7
<1> QED  BY <1>1, <1>5, <1>6, <1>7, <1>8, MoveLost, Apart

LEMMA SetConnectedLost == ASSUME LInv, NEW t \in Threads, SetConnected(t) PROVE LostStep
<1>1. /\ pc[t] = "flag" /\ pc' = [pc EXCEPT ![t] = "idle"]
      /\ cur' = [cur EXCEPT ![t] = Nil] /\ todo' = [todo EXCEPT ![t] = <<>>]
      /\ UNCHANGED <<conn, armed, exc, exs, ex, to>>
  BY DEF SetConnected, End, GoTo, timers
<1>2. cur'[t] = Nil /\ todo'[t] = <<>> /\ pc'[t] = "idle"
  BY <1>1 DEF LInv, IInv, TypeOK
<1>3. ~Keeper(t)'  BY <1>2, Steps DEF Keeper
<1>4. \A s \in Threads : s # t => cur'[s] = cur[s] /\ todo'[s] = todo[s]
  BY <1>1 DEF LInv, IInv, TypeOK
<1>5. \A c \in Exs : cur'[t] # c /\ ~In(todo'[t], c)  BY <1>2, InEmpty, Apart
<1>6. "idle" \in PCs /\ "idle" \notin Unpublished  BY DEF Unpublished, PCs
<1> QED  BY <1>1, <1>3, <1>4, <1>5, <1>6, MoveLost

LEMMA NotifyCloseLost == ASSUME LInv, NEW t \in Threads, NotifyClose(t) PROVE LostStep
<1>1. pc[t] = "notify" /\ Keeper(t) /\ conn # "nil"
      /\ UNCHANGED <<conn, armed, exc, exs, ex, to>>
  BY Steps DEF NotifyClose, Keeper, timers
<1>2. PICK l \in {"idle", "watch"} :
        /\ pc' = [pc EXCEPT ![t] = l]
        /\ \/ cur' = [cur EXCEPT ![t] = Nil] /\ todo' = [todo EXCEPT ![t] = <<>>]
           \/ cur' = cur /\ todo' = todo
  BY DEF NotifyClose, End, GoTo
<1>3. /\ cur'[t] \in {cur[t], Nil} /\ todo'[t] \in {todo[t], <<>>}
      /\ \A s \in Threads : s # t => cur'[s] = cur[s] /\ todo'[s] = todo[s]
  BY <1>2 DEF LInv, IInv, TypeOK
<1>4. \A c \in Exs : /\ cur'[t] = c => cur[t] = c
                     /\ In(todo'[t], c) => In(todo[t], c)
  BY <1>3, InEmpty, Apart
<1>5. l \in PCs /\ l \notin Unpublished /\ l # "dead"
  BY DEF Unpublished, PCs, Watching
<1> QED  BY <1>1, <1>2, <1>3, <1>4, <1>5, MoveLost

LEMMA ClearConnectedLost == ASSUME LInv, NEW t \in Threads, ClearConnected(t) PROVE LostStep
<1>1. /\ pc[t] = "noticed" /\ Keeper(t) /\ pc' = [pc EXCEPT ![t] = "prods"]
      /\ UNCHANGED <<conn, armed, exc, exs, ex, cur, todo, to>>
  BY Steps DEF ClearConnected, Keeper, GoTo, timers
<1> QED  BY <1>1, MoveLost DEF Unpublished, PCs, Watching, Stopping

\* destroyEXC does not start or end a goroutine.
LEMMA DestroyRun ==
  ASSUME IInv, NEW o \in Exs, ex' = [ex EXCEPT ![o].chan = "nil"]
  PROVE  \A c \in Exs : ex'[c].run = ex[c].run
BY DEF IInv, TypeOK, Exchange

LEMMA StopProducersLost == ASSUME LInv, NEW t \in Threads, StopProducers(t) PROVE LostStep
<1>1. /\ pc[t] = "prods" /\ Keeper(t) /\ n[t] \in Nat /\ n[t] > 0
      /\ UNCHANGED <<conn, armed, exc, exs, to>>
  BY Steps DEF StopProducers, Keeper, LInv, IInv, TypeOK, ThreadOK, timers
<1>2. /\ \A s \in Threads : s # t => cur'[s] = cur[s] /\ todo'[s] = todo[s]
      /\ todo'[t] = todo[t] \/ todo'[t] = exs
  BY DEF StopProducers, Destroy, LInv, IInv, TypeOK
<1>3. PICK l \in {"prods", "recvs", "exit"} : pc' = [pc EXCEPT ![t] = l]
  <2>1. pc = [pc EXCEPT ![t] = "prods"]  BY <1>1 DEF LInv, IInv, TypeOK
  <2> QED  BY <2>1 DEF StopProducers, Destroy, GoTo
<1>4. cur'[t] = cur[t] \/ \E p \in ProducerNames : exc[p] = cur'[t]
  <2>1. \/ cur' = cur
        \/ n[t] \in 1 .. Len(Producers) /\ cur' = [cur EXCEPT ![t] = exc[Producers[n[t]]]]
    BY <1>1, OrderAssumption DEF StopProducers, Destroy
  <2> QED  BY <2>1, ProducersTyped DEF LInv, IInv, TypeOK
<1>5. \A o \in Exs : ex'[o].run = ex[o].run
  <2>1. CASE ex' = ex  BY <2>1
  <2>2. CASE ex' # ex
    <3>1. PICK o : ex' = [ex EXCEPT ![o].chan = "nil"] /\ o = exc[Producers[n[t]]] /\ o # Nil
                   /\ n[t] <= Len(Producers)
      BY <2>2 DEF StopProducers, Destroy
    <3>2. o \in Exs  BY <1>1, <3>1, ProducersTyped, OrderAssumption DEF LInv, IInv, TypeOK
    <3> QED  BY <3>1, <3>2, DestroyRun DEF LInv
  <2> QED  BY <2>1, <2>2
<1>6. l \in PCs /\ l \notin Unpublished /\ l # "dead"
  BY <1>3 DEF Unpublished, PCs, Watching, Stopping
<1> QED  BY <1>1, <1>2, <1>3, <1>4, <1>5, <1>6, MoveLost

LEMMA StopReceiversLost == ASSUME LInv, NEW t \in Threads, StopReceivers(t) PROVE LostStep
<1>1. /\ pc[t] = "recvs" /\ Keeper(t)
      /\ UNCHANGED <<conn, armed, exc, to>>
  BY Steps DEF StopReceivers, Keeper, timers
<1>2. todo[t] \in Seq(Exs)  BY DEF LInv, IInv, TypeOK
<1>3. PICK l \in {"close", "exit"} : pc' = [pc EXCEPT ![t] = l]
  BY DEF StopReceivers, Destroy, GoTo
<1>4. l \in PCs /\ l \notin Unpublished /\ l # "dead"
  BY <1>3 DEF Unpublished, PCs, Watching, Stopping
<1>5. CASE todo[t] = <<>>
  <2>1. exs' = <<>> /\ UNCHANGED <<ex, cur, todo>>  BY <1>5 DEF StopReceivers
  <2> QED  BY <1>1, <1>3, <1>4, <2>1, MoveLost, InEmpty
<1>6. CASE todo[t] # <<>>
  <2>1. /\ ex' = [ex EXCEPT ![Head(todo[t])].chan = "nil"] /\ cur' = [cur EXCEPT ![t] = Head(todo[t])]
        /\ todo' = [todo EXCEPT ![t] = Tail(todo[t])] /\ exs' = exs
    BY <1>6 DEF StopReceivers, Destroy
  <2>2. Head(todo[t]) \in Exs  BY <1>2, <1>6
  <2>3. \A o \in Exs : ex'[o].run = ex[o].run  BY <2>1, <2>2, DestroyRun DEF LInv
  <2>4. /\ cur'[t] = Head(todo[t]) /\ todo'[t] = Tail(todo[t])
        /\ \A s \in Threads : s # t => cur'[s] = cur[s] /\ todo'[s] = todo[s]
    BY <2>1 DEF LInv, IInv, TypeOK
  <2>5. \A c \in Exs : /\ cur'[t] = c => In(todo[t], c)
                       /\ In(todo'[t], c) => In(todo[t], c)
    BY <1>2, <1>6, <2>4, InTail
  <2> QED  BY <1>1, <1>3, <1>4, <2>1, <2>3, <2>4, <2>5, MoveLost
<1> QED  BY <1>5, <1>6

\* The exit signal is taken: it was not this goroutine that hung.
LEMMA StopExitLost == ASSUME LInv, NEW t \in Threads, StopExit(t) PROVE LostStep
<1>1. /\ pc[t] = "exit" /\ Keeper(t) /\ cur[t] \in Exs /\ ex[cur[t]].run /\ to[cur[t]] = Nil
      /\ cur' = [cur EXCEPT ![t] = Nil]
      /\ UNCHANGED <<conn, armed, exc, exs, todo, to>>
  BY Steps DEF StopExit, Keeper, LInv, IInv, ThreadOK, timers
<1>2. PICK l \in {"prods", "recvs"} : pc' = [pc EXCEPT ![t] = l]
  BY DEF StopExit, GoTo
<1>3. \A s \in Threads : /\ pc'[s] = IF s = t THEN l ELSE pc[s]
                         /\ cur'[s] = IF s = t THEN Nil ELSE cur[s]
  BY <1>1, <1>2 DEF LInv, IInv, TypeOK
<1>4. \A o \in Exs : ex'[o].run => ex[o].run
  BY <1>1 DEF StopExit, LInv, IInv, TypeOK, Exchange
<1>5. Private'
  <2>1. \A s \in Threads : pc'[s] \in Unpublished => pc[s] \in Unpublished /\ cur'[s] = cur[s]
    BY <1>3 DEF Unpublished
  <2> QED  BY <1>1, <1>3, <2>1, PrivateKept, Apart
<1>6. Kept'
  BY <1>1, <1>3 DEF LInv, Kept, Crashed
<1>7. Stuck
  <2>1. ~Unwatched  BY <1>1, UnwatchedFacts DEF LInv
  <2> QED  BY <1>1, <1>3, <1>4, <2>1 DEF Stuck
<1> QED  BY <1>5, <1>6, <1>7 DEF LostStep

\* The steps at which the keeper changes the connection: there is a keeper, so that
\* the loss has not gone unnoticed, and nothing that others refer to changes.
LEMMA KeeperLost ==
  ASSUME LInv, NEW t \in Threads, Keeper(t), pc[t] # "exit",
         \A s \in Threads : pc'[s] = pc[s] \/ (pc'[s] \notin Unpublished /\ pc[s] # "exit"),
         \A s \in Threads : cur'[s] = cur[s] \/ (s = t /\ cur'[s] = Nil),
         \A s \in Threads : todo'[s] = todo[s] \/ todo'[s] = <<>>,
         UNCHANGED <<exc, exs, to>>, \A o \in Exs : ex'[o].run = ex[o].run, Kept'
  PROVE  LostStep
<1>1. Private'
  <2>1. \A s \in Threads : pc'[s] \in Unpublished => pc[s] \in Unpublished /\ cur'[s] = cur[s]
    BY Steps DEF Keeper, Unpublished
  <2> QED  BY <2>1, PrivateKept, InEmpty, Apart
<1>2. Stuck
  <2>1. ~Unwatched  BY UnwatchedFacts DEF LInv
  <2> QED  BY <2>1 DEF Stuck
<1> QED  BY <1>1, <1>2 DEF LostStep

LEMMA DialLost == ASSUME LInv, NEW t \in Threads, DialFails(t) \/ DialOk(t) PROVE LostStep
<1>1. /\ pc[t] = "dial" /\ Keeper(t) /\ UNCHANGED <<exc, exs, ex, cur, todo, to>>
  BY Steps DEF DialFails, DialOk, Keeper
<1>2. PICK l \in {"failed", "ok"} :
        pc' = [pc EXCEPT ![t] = l] /\ conn' = IF l = "ok" THEN "up" ELSE "nil"
  BY DEF DialFails, DialOk, GoTo
<1>3. \A s \in Threads : pc'[s] = IF s = t THEN l ELSE pc[s]
  BY <1>2 DEF LInv, IInv, TypeOK
<1>4. Kept'
  <2>1. ~Crashed'  BY <1>1, <1>3 DEF LInv, IInv, NoKeeper, Crashed
  <2> QED  BY <1>2, <1>3, <2>1 DEF Kept
<1> QED  BY <1>1, <1>3, <1>4, KeeperLost DEF Unpublished

LEMMA WatchLost == ASSUME LInv, NEW t \in Threads, Watch(t) PROVE LostStep
<1>1. PICK w \in Threads : pc[w] = "idle" /\ pc' = [pc EXCEPT ![t] = "open", ![w] = "notify"]
  BY NewThreadIdle DEF Watch
<1>2. /\ pc[t] = "ok" /\ Keeper(t) /\ UNCHANGED <<conn, exc, exs, ex, cur, todo, to>>
  BY Steps DEF Watch, Keeper
<1>3. \A s \in Threads : pc'[s] = IF s = w THEN "notify" ELSE IF s = t THEN "open" ELSE pc[s]
  BY <1>1, <1>2 DEF LInv, IInv, TypeOK
<1>4. Kept'
  <2>1. ~Crashed'  BY <1>2, <1>3 DEF LInv, IInv, NoKeeper, Crashed
  <2>2. conn # "nil"  BY <1>2 DEF LInv, IInv, KeeperOK
  <2> QED  BY <1>2, <2>1, <2>2 DEF Kept
<1>5. ASSUME NEW s \in Threads PROVE pc'[s] = pc[s] \/ (pc'[s] \notin Unpublished /\ pc[s] # "exit")
  <2>1. CASE s = w
    <3>1. pc'[w] = "notify"  BY <1>3
    <3>2. pc[w] = "idle"  BY <1>1
    <3> QED  BY <2>1, <3>1, <3>2 DEF Unpublished
  <2>2. CASE s # w /\ s = t  BY <1>2, <1>3, <2>2 DEF Unpublished
  <2>3. CASE s # w /\ s # t  BY <1>3, <2>3
  <2> QED  BY <2>1, <2>2, <2>3
<1> QED  BY <1>2, <1>4, <1>5, KeeperLost

LEMMA StopCloseLost == ASSUME LInv, NEW t \in Threads, StopClose(t) PROVE LostStep
<1>1. /\ pc[t] = "close" /\ Keeper(t) /\ armed' = armed + 1 /\ conn' = "nil" /\ ex' = ChannelsClosed
      /\ pc' = [pc EXCEPT ![t] = "idle"] /\ cur' = [cur EXCEPT ![t] = Nil]
      /\ todo' = [todo EXCEPT ![t] = <<>>] /\ UNCHANGED <<exc, exs, to>>
  BY Steps DEF StopClose, Keeper, End, GoTo
<1>2. \A s \in Threads : /\ pc'[s] = IF s = t THEN "idle" ELSE pc[s]
                         /\ cur'[s] = IF s = t THEN Nil ELSE cur[s]
                         /\ todo'[s] = IF s = t THEN <<>> ELSE todo[s]
  BY <1>1 DEF LInv, IInv, TypeOK
<1>3. \A o \in Exs : ex'[o].run = ex[o].run
  BY <1>1 DEF ChannelsClosed, LInv, IInv, TypeOK, Exchange
<1>4. Kept'
  <2>1. armed' = 1  BY <1>1 DEF LInv, IInv, TypeOK, Alone
  <2> QED  BY <1>1, <2>1 DEF Kept
<1>5. /\ \A s \in Threads : pc'[s] = pc[s] \/ (pc'[s] \notin Unpublished /\ pc[s] # "exit")
      /\ \A s \in Threads : cur'[s] = cur[s] \/ (s = t /\ cur'[s] = Nil)
      /\ \A s \in Threads : todo'[s] = todo[s] \/ todo'[s] = <<>>
  BY <1>1, <1>2 DEF Unpublished
<1> QED  BY <1>1, <1>3, <1>4, <1>5, KeeperLost

LEMMA LoseLost == ASSUME LInv, Lose PROVE LostStep
<1>1. /\ conn = "up" /\ conn' = "closed" /\ ex' = ChannelsClosed
      /\ pc' = [t \in Threads |-> IF pc[t] = "watch" THEN "noticed" ELSE pc[t]]
      /\ UNCHANGED <<exc, exs, cur, todo, to>>
  BY DEF Lose
<1>2. \A s \in Threads : pc'[s] = IF pc[s] = "watch" THEN "noticed" ELSE pc[s]
  BY <1>1
<1>3. \A o \in Exs : ex'[o].run = ex[o].run
  BY <1>1 DEF ChannelsClosed, LInv, IInv, TypeOK, Exchange
<1>4. Private'
  <2>1. \A s \in Threads : pc'[s] \in Unpublished => pc[s] \in Unpublished /\ cur'[s] = cur[s]
    BY <1>1, <1>2 DEF Unpublished
  <2> QED  BY <1>1, <2>1, PrivateKept
<1>5. Kept'
  BY <1>1 DEF Kept
<1>6. Stuck
  BY <1>1, <1>2, <1>3 DEF Stuck, Unwatched
<1> QED  BY <1>4, <1>5, <1>6 DEF LostStep

\* An exchange that is opened is one that nobody knows.
LEMMA OpenLost == ASSUME LInv, NEW t \in Threads, Open(t) PROVE Panic \/ LostStep
<1> SUFFICES ASSUME ~Panic PROVE LostStep  OBVIOUS
<1> DEFINE e == NewEx
<1>1. /\ e \in Exs /\ Fresh(e) /\ pc[t] = "open" /\ conn = "up"
      /\ ex' = [ex EXCEPT ![e] = [name |-> Order[n[t]], run |-> FALSE, chan |-> "open"]]
      /\ cur' = [cur EXCEPT ![t] = e] /\ pc' = [pc EXCEPT ![t] = "declare"]
      /\ UNCHANGED <<conn, exc, exs, todo, to>>
  BY NewExFresh DEF Open, GoTo
<1> HIDE DEF e
<1>2. \A s \in Threads : /\ pc'[s] = IF s = t THEN "declare" ELSE pc[s]
                         /\ cur'[s] = IF s = t THEN e ELSE cur[s]
  BY <1>1 DEF LInv, IInv, TypeOK
<1>3. \A o \in Exs : ex'[o].run => ex[o].run
  BY <1>1 DEF LInv, IInv, TypeOK
<1>4. Private'
  <2>1. /\ \A p \in ProducerNames : exc[p] # e
        /\ ~In(exs, e)
        /\ \A s \in Threads : cur[s] # e /\ ~In(todo[s], e)
        /\ \A x \in Senders \cup Exs : to[x] # e
    BY <1>1 DEF Fresh
  <2>2. ASSUME NEW u \in Threads, pc'[u] \in Unpublished
        PROVE  /\ \A p \in ProducerNames : exc'[p] # cur'[u]
               /\ ~In(exs', cur'[u])
               /\ \A s \in Threads : ~In(todo'[s], cur'[u]) /\ (s # u => cur'[s] # cur'[u])
               /\ \A x \in Senders \cup Exs : to'[x] # cur'[u]
    <3>1. CASE u = t  BY <1>1, <1>2, <2>1, <3>1
    <3>2. CASE u # t
      <4>1. pc[u] \in Unpublished /\ cur'[u] = cur[u]  BY <1>2, <2>2, <3>2
      <4> QED  BY <1>1, <1>2, <2>1, <4>1 DEF LInv, Private
    <3> QED  BY <3>1, <3>2
  <2> QED  BY <2>2 DEF Private
<1>5. Kept'
  <2>1. ~Crashed'  BY <1>1, <1>2 DEF LInv, IInv, NoKeeper, Crashed
  <2> QED  BY <1>1, <2>1 DEF Kept
<1>6. Stuck
  <2>1. ~Unwatched  BY <1>1 DEF Unwatched
  <2> QED  BY <1>1, <1>2, <1>3, <2>1 DEF Stuck
<1> QED  BY <1>4, <1>5, <1>6 DEF LostStep

\* Publishing: only who waits for whom changes.
LEMMA DataLost ==
  ASSUME LInv, UNCHANGED <<conn, armed, exc, exs, ex, pc, cur, todo>>,
         \A x \in Senders \cup Exs, c \in Exs :
           to'[x] = c => to[x] = c \/ \E p \in ProducerNames : exc[p] = c,
         \A x \in Exs : to[x] \in Exs /\ ~ex[to[x]].run => to'[x] = to[x]
  PROVE  LostStep
<1>1. Private'  BY PrivateKept
<1>2. Kept'  BY DEF LInv, Kept, Crashed
<1>3. Stuck  BY DEF Stuck, Unwatched, Keepers
<1> QED  BY <1>1, <1>2, <1>3 DEF LostStep

LEMMA NotifyBlockedLost == ASSUME LInv, NotifyBlocked PROVE Panic \/ LostStep
<1>1. Panic \/ UNCHANGED <<conn, armed, exc, exs, ex, pc, cur, todo, to>>
  BY DEF NotifyBlocked, timers, threads
<1> QED  BY <1>1, DataLost

LEMMA PublishLost ==
  ASSUME LInv, NEW x \in Senders \cup Exs, NEW p \in ProducerNames, Publish(x, p) PROVE LostStep
<1>1. /\ to[x] = Nil /\ to' = [to EXCEPT ![x] = p]
      /\ UNCHANGED <<conn, armed, exc, exs, ex, pc, cur, todo>>
  BY DEF Publish, timers, threads
<1>2. \A y \in Senders \cup Exs : to'[y] = IF y = x THEN p ELSE to[y]
  BY <1>1 DEF LInv, IInv, TypeOK
<1> QED  BY <1>1, <1>2, Apart, DataLost

LEMMA SendLost ==
  ASSUME LInv, NEW x \in Senders \cup Exs, Send(x) PROVE Panic \/ LostStep
<1> SUFFICES ASSUME ~Panic PROVE LostStep  OBVIOUS
<1>1. /\ to[x] \in ProducerNames /\ to' = [to EXCEPT ![x] = exc[to[x]]]
      /\ UNCHANGED <<conn, armed, exc, exs, ex, pc, cur, todo>>
  BY DEF Send, timers, threads
<1>2. \A y \in Senders \cup Exs : to'[y] = IF y = x THEN exc[to[x]] ELSE to[y]
  BY <1>1 DEF LInv, IInv, TypeOK
<1> QED  BY <1>1, <1>2, Apart, DataLost

LEMMA TakeLost == ASSUME LInv, NEW o \in Exs, Take(o) PROVE Panic \/ LostStep
<1> SUFFICES ASSUME ~Panic PROVE LostStep  OBVIOUS
<1>1. PICK x \in Senders \cup Exs :
        /\ ex[o].run /\ to[x] = o /\ to' = [to EXCEPT ![x] = Nil]
        /\ UNCHANGED <<conn, armed, exc, exs, ex, pc, cur, todo>>
  BY DEF Take, timers, threads
<1>2. \A y \in Senders \cup Exs : to'[y] = IF y = x THEN Nil ELSE to[y]
  BY <1>1 DEF LInv, IInv, TypeOK
<1> QED  BY <1>1, <1>2, Apart, DataLost

LEMMA NextLost == ASSUME LInv, [Next]_vars PROVE Panic \/ LostStep
<1>1. CASE Fire \/ LoopExit \/ UNCHANGED vars  BY <1>1, TimerLost
<1>2. ASSUME NEW t \in Threads, Connect(t) PROVE Panic \/ LostStep
  BY <1>2, DialLost, RetryLost, WatchLost, OpenLost, DeclareLost, AssignLost, SetConnectedLost
  DEF Connect
<1>3. ASSUME NEW t \in Threads, NotifyClose(t) PROVE Panic \/ LostStep
  BY <1>3, NotifyCloseLost
<1>4. ASSUME NEW t \in Threads, Stop(t) PROVE Panic \/ LostStep
  BY <1>4, ClearConnectedLost, StopProducersLost, StopReceiversLost, StopExitLost, StopCloseLost
  DEF Stop
<1>5. CASE NotifyBlocked \/ Lose  BY <1>5, NotifyBlockedLost, LoseLost
<1>6. ASSUME NEW x \in Senders \cup Exs, Send(x) PROVE Panic \/ LostStep
  BY <1>6, SendLost
<1>7. ASSUME NEW x \in Senders \cup Exs, NEW p \in ProducerNames, Publish(x, p)
      PROVE  Panic \/ LostStep
  BY <1>7, PublishLost
<1>8. ASSUME NEW o \in Exs, Take(o) PROVE Panic \/ LostStep
  BY <1>8, TakeLost
<1> QED
  BY <1>1, <1>2, <1>3, <1>4, <1>5, <1>6, <1>7, <1>8 DEF Next

LEMMA PanicLost == ASSUME Panic PROVE Private' /\ Kept' /\ Crashed'
BY BoundAssumption DEF Panic, Private, Kept, Crashed, Unpublished

LEMMA InitLost == Init => Private /\ Kept
BY DEF Init, Private, Kept, Crashed, Unpublished

-----------------------------------------------------------------------------
(* The theorems.                                                           *)

LEMMA Invariant == Spec => []IInv
<1>1. Init => IInv  BY InitOK
<1>2. IInv /\ [Next]_vars => IInv'  BY NextOK
<1> QED  BY <1>1, <1>2, PTL DEF Spec

LEMMA LostInvariant == Spec => []LInv
<1>1. Init => LInv  BY InitOK, InitLost DEF LInv
<1>2. LInv /\ [Next]_vars => LInv'
  <2> SUFFICES ASSUME LInv, [Next]_vars PROVE LInv'  OBVIOUS
  <2>1. IInv'  BY NextOK DEF LInv
  <2>2. Private' /\ Kept'  BY NextLost, PanicLost DEF LostStep
  <2> QED  BY <2>1, <2>2 DEF LInv
<1> QED  BY <1>1, <1>2, PTL DEF Spec

\* RabbitMQ keeps its types, for any exchanges, goroutines and senders.
THEOREM RabbitMQTyped == Spec => []TypeOK
<1>1. IInv => TypeOK  BY DEF IInv
<1> QED  BY <1>1, Invariant, PTL

\* The connection is never in the hands of two: retry timer, mqConnect and the
\* goroutine that waits for NotifyClose take turns, whatever is lost and when.
THEOREM OneKeeperHolds == Spec => []OneKeeper
<1>1. ASSUME IInv PROVE OneKeeper
  <2>1. armed <= 1 /\ (armed = 1 => Keepers = {})
    BY <1>1 DEF IInv, Alone, Keepers, Keeper
  <2>2. \A s, t \in Keepers : s = t
    BY <1>1 DEF IInv, Alone, Keepers, Keeper
  <2>3. (armed = 1 \/ \E t \in Threads : pc[t] = "dial") => conn = "nil"
    BY <1>1 DEF IInv, Alone, KeeperOK
  <2>4. (\E t \in Threads : pc[t] \in Watching) => conn # "nil"
    BY <1>1 DEF IInv, KeeperOK
  <2> QED  BY <2>1, <2>2, <2>3, <2>4 DEF OneKeeper
<1> QED  BY <1>1, Invariant, PTL

\* The client implements BrokerLink, its liveness apart: one connection at a time,
\* and none is dialled for before Stop has wound up the last.
THEOREM LinkImplemented == Spec => Link!Safe
<1>1. Init => Link!Init
  BY DEF Init, Link!Init, Phase, Crashed
<1>2. IInv /\ [Next]_vars => [Link!Next]_Phase
  BY NextOK DEF LinkStep
<1> QED  BY <1>1, <1>2, Invariant, PTL DEF Spec, Link!Safe

\* Signals and loops of the retry timer match, and a client without connection is
\* always attended to: the part of Reconnects that no fairness is needed for.
THEOREM AttendedHolds == Spec => []Attended
<1>1. ASSUME LInv PROVE Attended
  <2>1. ASSUME NEW t \in Threads, pc[t] \in {"failed", "ok"} PROVE exits = armed + fired
    <3>1. Keeper(t)  BY <2>1, Steps DEF Keeper
    <3>2. armed = 0  BY <1>1, <3>1 DEF LInv, IInv, TypeOK, Alone
    <3>3. fired = exits  BY <1>1, <2>1 DEF LInv, IInv, KeeperOK
    <3> QED  BY <1>1, <3>2, <3>3 DEF LInv, IInv, TypeOK
  <2>2. armed = 1 => exits = 0  BY <1>1 DEF LInv, IInv, Alone
  <2> QED  BY <1>1, <2>1, <2>2 DEF Attended, LInv, Kept
<1> QED  BY <1>1, LostInvariant, PTL

\* A client that is lost stays lost, and is not connected.
LEMMA OverStep == ASSUME LInv, [Next]_vars, Over PROVE Over'
<1>1. CASE Panic  BY <1>1, PanicLost DEF Over
<1>2. CASE ~Panic
  <2>1. LostStep  BY <1>2, NextLost
  <2>2. CASE Crashed
    <3>1. Phase = "dead" /\ LinkStep  BY <2>2, NextOK DEF Phase, LInv
    <3>2. Phase' = "dead"
      BY <3>1 DEF LinkStep, Link!Next, Link!Dial, Link!Refused, Link!Accepted, Link!Lose,
                  Link!WoundUp, Link!Die
    <3> QED  BY <3>2 DEF Phase, Over
  <2>3. CASE Unwatched  BY <2>1, <2>3 DEF LostStep, Stuck, Over
  <2>4. CASE Hung
    <3>1. PICK t \in Threads : /\ pc[t] = "exit"
                               /\ \/ ~ex[cur[t]].run
                                  \/ to[cur[t]] \in Exs /\ ~ex[to[cur[t]]].run
      BY <2>4 DEF Hung
    <3>2. cur[t] \in Exs  BY <3>1 DEF LInv, IInv, ThreadOK
    <3>3. pc'[t] = "exit" /\ cur'[t] = cur[t]
      BY <2>1, <3>1, <3>2, Apart DEF LostStep, Stuck
    <3>4. \A s \in Threads : pc[s] = "declare" => cur[s] # cur[t] /\ cur[s] # to[cur[t]]
      BY <3>1, <3>2 DEF LInv, Private, Unpublished
    <3>5. CASE ~ex[cur[t]].run
      <4>1. ~ex'[cur[t]].run  BY <2>1, <3>2, <3>4, <3>5 DEF LostStep, Stuck
      <4> QED  BY <3>3, <4>1 DEF Hung, Over
    <3>6. CASE to[cur[t]] \in Exs /\ ~ex[to[cur[t]]].run
      <4>1. to'[cur[t]] = to[cur[t]]  BY <2>1, <3>2, <3>6 DEF LostStep, Stuck
      <4>2. ~ex'[to[cur[t]]].run  BY <2>1, <3>4, <3>6 DEF LostStep, Stuck
      <4> QED  BY <3>3, <3>6, <4>1, <4>2 DEF Hung, Over
    <3> QED  BY <3>1, <3>5, <3>6
  <2> QED  BY <2>2, <2>3, <2>4 DEF Over
<1> QED  BY <1>1, <1>2

LEMMA OverDown == ASSUME LInv, Over PROVE conn # "up"
BY DEF LInv, IInv, KeeperOK, Kept, Over, Hung, Unwatched, Stopping

\* Every step of a lost client leaves it lost and without connection: the exceptions
\* that Reconnects makes are no delays.
THEOREM LostForGoodHolds == Spec => LostForGood
<1>1. LInv /\ LInv' /\ [Next]_vars => [Over => Over' /\ conn' # "up"]_vars
  <2> SUFFICES ASSUME LInv, LInv', [Next]_vars, Over PROVE Over' /\ conn' # "up"  OBVIOUS
  <2>1. Over'  BY OverStep
  <2>2. conn' # "up"
    BY <2>1 DEF LInv, IInv, KeeperOK, Kept, Over, Hung, Unwatched, Stopping
  <2> QED  BY <2>1, <2>2
<1> QED  BY <1>1, LostInvariant, PTL DEF Spec, LostForGood

\* Once Stop hangs or a loss has gone unnoticed, there is no connection ever again.
THEOREM NeverAgain == Spec => [](Over => [](conn # "up"))
<1>1. LInv /\ [Next]_vars /\ Over => Over'  BY OverStep
<1>2. LInv /\ Over => conn # "up"  BY OverDown
<1> QED  BY <1>1, <1>2, LostInvariant, PTL DEF Spec

=============================================================================
