------------------------------ MODULE RabbitMQ ------------------------------
(* The RabbitMQ client (rmq.go): one connection, that inside the cluster   *)
(* or the one to the centre (their functions differ only in the exchanges  *)
(* they register), with its retry timer, the goroutine that waits for the  *)
(* loss of the connection and then calls Stop, the producer and receiver   *)
(* goroutines, and the goroutines that publish.                            *)
(*                                                                         *)
(* A QueueExchange is an address; what its goroutine waits for is an       *)
(* unbuffered channel, so that a send and its receive are one step.  An    *)
(* operation of the amqp library on a nil connection or channel is a nil   *)
(* dereference.  Of messages only who is waiting to publish one is kept.   *)
EXTENDS Naturals, Sequences

CONSTANTS
  Order,      \* the names of the exchanges, in the order mqConnect registers them
  Producers,  \* the names among them, of producers, in the order Stop takes them
  Unguarded,  \* producers that are used on the word of the other connection's flag
  Exs,        \* the addresses of QueueExchanges
  Threads,    \* goroutines that run mqConnect, or wait for NotifyClose
  Senders,    \* other goroutines that publish
  MaxBlk,     \* bound on the goroutines about to call NotifyBlocked
  Nil

ProducerNames == {Producers[i] : i \in 1 .. Len(Producers)}
Names == {Order[i] : i \in 1 .. Len(Order)}

ASSUME OrderAssumption == /\ Order \in Seq(Names) /\ Len(Order) > 0
                          /\ Producers \in Seq(Names)
ASSUME UnguardedAssumption == Unguarded \subseteq ProducerNames
ASSUME BoundAssumption == Threads # {} /\ MaxBlk \in Nat \ {0}
ASSUME NilAssumption == Nil \notin Exs /\ Nil \notin Names /\ Names \cap Exs = {}

\* run: the goroutine of addProducer or addReceiver is in its loop; chan: the
\* amqp channel, nil, open, or closed with its connection.
Exchange == [name: Names, run: BOOLEAN, chan: {"nil", "open", "closed"}]

VARIABLES
  conn,         \* r.conn: nil, up, or closed by an error
  connected,    \* the flag of that name (center_connected)
  armed, fired, \* goroutines of lanuchRetryTimer, before and after their timer
  exits,        \* goroutines at r.exitChan <- 0
  blk,          \* goroutines about to call NotifyBlocked
  exc, exs,     \* producer -> its exchange (exc_pub_dr ...); r.exs
  ex,           \* the exchanges, by address
  pc, cur,      \* goroutine -> its step, the exchange in hand
  n, todo,      \* position in Order or Producers; what is left of range r.exs
  to            \* who publishes: sender or receiver -> producer checked for,
                \* then the exchange it waits for

timers == <<armed, fired, exits>>
threads == <<pc, cur, n, todo>>
vars == <<conn, connected, timers, blk, exc, exs, ex, threads, to>>

Connecting == {"dial", "failed", "ok"}
Registering == {"open", "declare", "assign", "flag"}
Stopping == {"noticed", "prods", "recvs", "exit", "close"}
Watching == {"notify", "watch"} \cup Stopping

TypeOK ==
  /\ conn \in {"nil", "up", "closed"} /\ connected \in BOOLEAN
  /\ armed \in Nat /\ fired \in Nat /\ exits \in Nat /\ blk \in Nat
  /\ exc \in [ProducerNames -> Exs \cup {Nil}] /\ exs \in Seq(Exs)
  /\ ex \in [Exs -> Exchange]
  /\ pc \in [Threads -> Connecting \cup Registering \cup Watching \cup {"idle", "dead"}]
  /\ cur \in [Threads -> Exs \cup {Nil}]
  /\ n \in [Threads -> Nat] /\ todo \in [Threads -> Seq(Exs)]
  /\ to \in [Senders \cup Exs -> ProducerNames \cup Exs \cup {Nil}]

Unused == [name |-> Order[1], run |-> FALSE, chan |-> "nil"]

\* InterClusterStartup, CrossClusterStartup: lanuchRetryTimer(0).
Init ==
  /\ conn = "nil" /\ connected = FALSE
  /\ armed = 1 /\ fired = 0 /\ exits = 0 /\ blk = 0
  /\ exc = [p \in ProducerNames |-> Nil] /\ exs = <<>>
  /\ ex = [o \in Exs |-> Unused]
  /\ pc = [t \in Threads |-> "idle"] /\ cur = [t \in Threads |-> Nil]
  /\ n = [t \in Threads |-> 0] /\ todo = [t \in Threads |-> <<>>]
  /\ to = [x \in Senders \cup Exs |-> Nil]

Crashed == \E t \in Threads : pc[t] = "dead"

-----------------------------------------------------------------------------
(* Helpers.                                                                *)

GoTo(t, l) == pc' = [pc EXCEPT ![t] = l]

End(t) == /\ GoTo(t, "idle")
          /\ cur' = [cur EXCEPT ![t] = Nil]
          /\ n' = [n EXCEPT ![t] = 0]
          /\ todo' = [todo EXCEPT ![t] = <<>>]

\* A nil dereference ends the process, and its memory is gone.
Panic ==
  /\ conn' = "nil" /\ connected' = FALSE
  /\ armed' = 0 /\ fired' = 0 /\ exits' = 0 /\ blk' = 0
  /\ exc' = [p \in ProducerNames |-> Nil] /\ exs' = <<>>
  /\ ex' = [o \in Exs |-> Unused]
  /\ pc' = [t \in Threads |-> "dead"] /\ cur' = [t \in Threads |-> Nil]
  /\ n' = [t \in Threads |-> 0] /\ todo' = [t \in Threads |-> <<>>]
  /\ to' = [x \in Senders \cup Exs |-> Nil]

In(s, o) == \E i \in 1 .. Len(s) : s[i] = o

\* An address that nothing refers to any more; which of them does not matter.
Fresh(o) == /\ ~ex[o].run /\ to[o] = Nil
            /\ \A p \in ProducerNames : exc[p] # o
            /\ ~In(exs, o)
            /\ \A t \in Threads : cur[t] # o /\ ~In(todo[t], o)
            /\ \A x \in Senders \cup Exs : to[x] # o
NewEx == CHOOSE o \in Exs : Fresh(o)

\* A new goroutine.
ThreadFree == \E t \in Threads : pc[t] = "idle"
NewThread == CHOOSE t \in Threads : pc[t] = "idle"

\* The amqp channels of a connection that ends.
ChannelsClosed ==
  [o \in Exs |-> IF ex[o].chan = "open" THEN [ex[o] EXCEPT !.chan = "closed"] ELSE ex[o]]

-----------------------------------------------------------------------------
(* The retry timer, and mqConnect.                                         *)

\* The timer fires: go r.mqConnect().  The goroutine stays in its loop.
Fire ==
  /\ armed > 0 /\ ThreadFree
  /\ armed' = armed - 1 /\ fired' = fired + 1
  /\ GoTo(NewThread, "dial")
  /\ UNCHANGED <<conn, connected, exits, blk, exc, exs, ex, cur, n, todo, to>>

\* Mutant: the loop ends without a signal.
LoopExit_NoSignal ==
  /\ exits' = exits - 1
  /\ \E a, f \in 0 .. 1 : /\ a + f = 1 /\ a <= armed /\ f <= fired
                          /\ armed' = armed - a /\ fired' = fired - f
  /\ UNCHANGED <<conn, connected, blk, exc, exs, ex, threads, to>>

\* The loop of the retry timer takes an exit signal, whether or not its timer has
\* fired.
LoopExit ==
  /\ exits > 0
  /\ exits' = exits - 1
  /\ \E a, f \in 0 .. 1 : /\ a + f = 1 /\ a <= armed /\ f <= fired
                          /\ armed' = armed - a /\ fired' = fired - f
  /\ UNCHANGED <<conn, connected, blk, exc, exs, ex, threads, to>>

\* DialConfig, and cancelRetryTimer up to its Wait.
DialFails(t) ==
  /\ pc[t] = "dial"
  /\ conn' = "nil"
  /\ exits' = exits + 1
  /\ GoTo(t, "failed")
  /\ UNCHANGED <<connected, armed, fired, blk, exc, exs, ex, cur, n, todo, to>>

DialOk(t) ==
  /\ pc[t] = "dial"
  /\ conn' = "up"
  /\ exits' = exits + 1
  /\ GoTo(t, "ok")
  /\ UNCHANGED <<connected, armed, fired, blk, exc, exs, ex, cur, n, todo, to>>

\* Mutant: the failed attempt sets a new timer and does not wait for the old one.
Retry_NoWait(t) ==
  /\ pc[t] = "failed"
  /\ armed' = armed + 1
  /\ End(t)
  /\ UNCHANGED <<conn, connected, fired, exits, blk, exc, exs, ex, to>>

\* Mutant: after a failure the client does not try again.
Retry_Never(t) ==
  /\ pc[t] = "failed" /\ armed + fired = 0
  /\ End(t)
  /\ UNCHANGED <<conn, connected, timers, blk, exc, exs, ex, to>>

\* "try again until connect success": the old timer has gone, a new one is set.
Retry(t) ==
  /\ pc[t] = "failed" /\ armed + fired = 0
  /\ armed' = armed + 1
  /\ End(t)
  /\ UNCHANGED <<conn, connected, fired, exits, blk, exc, exs, ex, to>>

\* The goroutines for NotifyClose and NotifyBlocked are started.
Watch(t) ==
  /\ pc[t] = "ok" /\ armed + fired = 0 /\ blk < MaxBlk /\ ThreadFree
  /\ pc' = [pc EXCEPT ![t] = "open", ![NewThread] = "notify"]
  /\ n' = [n EXCEPT ![t] = 1]
  /\ blk' = blk + 1
  /\ UNCHANGED <<conn, connected, timers, exc, exs, ex, cur, todo, to>>

\* RegisterProducer or RegisterReceiver of the next exchange, from r.conn as it is
\* now: without a channel the declaration dereferences nil.
Open(t) ==
  /\ pc[t] = "open"
  /\ \/ conn # "up" /\ Panic
     \/ /\ conn = "up"
        /\ \E o \in Exs : Fresh(o)
        /\ ex' = [ex EXCEPT ![NewEx] = [name |-> Order[n[t]], run |-> FALSE, chan |-> "open"]]
        /\ cur' = [cur EXCEPT ![t] = NewEx]
        /\ GoTo(t, "declare")
        /\ UNCHANGED <<conn, connected, timers, blk, exc, exs, n, todo, to>>

\* Exchange, queue and consumer are declared, and the goroutine is started; on an
\* error none is.
Declare(t) ==
  /\ pc[t] = "declare"
  /\ \/ ex[cur[t]].chan = "open" /\ ex' = [ex EXCEPT ![cur[t]].run = TRUE]
     \/ UNCHANGED ex
  /\ GoTo(t, "assign")
  /\ UNCHANGED <<conn, connected, timers, blk, exc, exs, cur, n, todo, to>>

\* In either case the exchange is kept, where Stop will find it.
Assign(t) ==
  LET o == cur[t]
  IN /\ pc[t] = "assign"
     /\ \/ /\ ex[o].name \in ProducerNames
           /\ exc' = [exc EXCEPT ![ex[o].name] = o]
           /\ UNCHANGED exs
        \/ /\ ex[o].name \notin ProducerNames
           /\ exs' = Append(exs, o)
           /\ UNCHANGED exc
     /\ GoTo(t, IF n[t] = Len(Order) THEN "flag" ELSE "open")
     /\ n' = [n EXCEPT ![t] = @ + 1]
     /\ cur' = [cur EXCEPT ![t] = Nil]
     /\ UNCHANGED <<conn, connected, timers, blk, ex, todo, to>>

SetConnected(t) ==
  /\ pc[t] = "flag"
  /\ connected' = TRUE
  /\ End(t)
  /\ UNCHANGED <<conn, timers, blk, exc, exs, ex, to>>

NotifyBlocked ==
  /\ blk > 0
  /\ \/ conn = "nil" /\ Panic
     \/ /\ conn # "nil"
        /\ blk' = blk - 1
        /\ UNCHANGED <<conn, connected, timers, exc, exs, ex, threads, to>>

-----------------------------------------------------------------------------
(* The loss of the connection, and Stop.                                   *)

\* The connection ends with an error; who has called NotifyClose is told.
Lose ==
  /\ conn = "up"
  /\ conn' = "closed"
  /\ ex' = ChannelsClosed
  /\ pc' = [t \in Threads |-> IF pc[t] = "watch" THEN "noticed" ELSE pc[t]]
  /\ UNCHANGED <<connected, timers, blk, exc, exs, cur, n, todo, to>>

\* NotifyClose on a connection that is closed already closes the channel given: nil
\* is received, which is taken for a shutdown of our own.  (r.conn is not nil here,
\* nor at the end of Stop: nobody else sets it to nil, OneKeeper.)
NotifyClose(t) ==
  /\ pc[t] = "notify"
  /\ \/ /\ conn = "closed" /\ End(t)
        /\ UNCHANGED <<conn, connected, timers, blk, exc, exs, ex, to>>
     \/ /\ conn = "up" /\ GoTo(t, "watch")
        /\ UNCHANGED <<conn, connected, timers, blk, exc, exs, ex, cur, n, todo, to>>

\* Mutant: the timer for the next attempt is set before Stop is called.
ClearConnected_RetryFirst(t) ==
  /\ pc[t] = "noticed"
  /\ connected' = FALSE
  /\ armed' = armed + 1
  /\ GoTo(t, "prods")
  /\ n' = [n EXCEPT ![t] = 1]
  /\ UNCHANGED <<conn, fired, exits, blk, exc, exs, ex, cur, todo, to>>

ClearConnected(t) ==
  /\ pc[t] = "noticed"
  /\ connected' = FALSE
  /\ GoTo(t, "prods")
  /\ n' = [n EXCEPT ![t] = 1]
  /\ UNCHANGED <<conn, timers, blk, exc, exs, ex, cur, todo, to>>

\* destroyEXC up to exitChan <- 0: the channel is closed and set to nil.
Destroy(t, o) ==
  /\ ex' = [ex EXCEPT ![o].chan = "nil"]
  /\ cur' = [cur EXCEPT ![t] = o]
  /\ GoTo(t, "exit")

\* Stop: the producers, one by one, as far as they have been registered ...
StopProducers(t) ==
  /\ pc[t] = "prods"
  /\ \/ /\ n[t] > Len(Producers)
        /\ GoTo(t, "recvs")
        /\ todo' = [todo EXCEPT ![t] = exs]
        /\ UNCHANGED <<ex, cur, n>>
     \/ /\ n[t] <= Len(Producers)
        /\ \/ /\ exc[Producers[n[t]]] = Nil
              /\ n' = [n EXCEPT ![t] = @ + 1]
              /\ UNCHANGED <<ex, pc, cur, todo>>
           \/ /\ exc[Producers[n[t]]] # Nil
              /\ Destroy(t, exc[Producers[n[t]]])
              /\ UNCHANGED <<n, todo>>
  /\ UNCHANGED <<conn, connected, timers, blk, exc, exs, to>>

\* ... then the receivers in r.exs, as that is when the loop begins.
StopReceivers(t) ==
  /\ pc[t] = "recvs"
  /\ \/ /\ todo[t] = <<>>
        /\ exs' = <<>>
        /\ GoTo(t, "close")
        /\ UNCHANGED <<ex, cur, todo>>
     \/ /\ todo[t] # <<>>
        /\ Destroy(t, Head(todo[t]))
        /\ todo' = [todo EXCEPT ![t] = Tail(@)]
        /\ UNCHANGED exs
  /\ UNCHANGED <<conn, connected, timers, blk, exc, n, to>>

\* Mutant: the exit signal is given up when there is nobody to take it.
StopExit_NoWait(t) ==
  /\ pc[t] = "exit"
  /\ ex' = [ex EXCEPT ![cur[t]].run = FALSE]
  /\ GoTo(t, IF n[t] <= Len(Producers) THEN "prods" ELSE "recvs")
  /\ n' = [n EXCEPT ![t] = IF @ <= Len(Producers) THEN @ + 1 ELSE @]
  /\ cur' = [cur EXCEPT ![t] = Nil]
  /\ UNCHANGED <<conn, connected, timers, blk, exc, exs, todo, to>>

\* ex.exitChan <- 0 meets the exchange's goroutine in its select: never, if there
\* is no goroutine, and not while a receiver's goroutine is in its handler.
StopExit(t) ==
  /\ pc[t] = "exit"
  /\ ex[cur[t]].run /\ to[cur[t]] = Nil
  /\ ex' = [ex EXCEPT ![cur[t]].run = FALSE]
  /\ GoTo(t, IF n[t] <= Len(Producers) THEN "prods" ELSE "recvs")
  /\ n' = [n EXCEPT ![t] = IF @ <= Len(Producers) THEN @ + 1 ELSE @]
  /\ cur' = [cur EXCEPT ![t] = Nil]
  /\ UNCHANGED <<conn, connected, timers, blk, exc, exs, todo, to>>

\* The end of Stop, and lanuchRetryTimer(3).
StopClose(t) ==
  /\ pc[t] = "close" /\ conn # "nil"
  /\ conn' = "nil"
  /\ ex' = ChannelsClosed
  /\ armed' = armed + 1
  /\ End(t)
  /\ UNCHANGED <<connected, fired, exits, blk, exc, exs, to>>

-----------------------------------------------------------------------------
(* Publishing: by a receiver's handler, or by any other goroutine.         *)

\* Whether connected is looked at.  A message that finds it false is dropped.
\* PublishMessage2CrossClusterPod looks at the flag of the other connection, which
\* may have any value.
Publish(x, p) ==
  /\ to[x] = Nil
  /\ x \in Exs => /\ ex[x].run /\ ex[x].chan # "nil"
                  /\ ex[x].name \notin ProducerNames
  /\ connected \/ p \in Unguarded
  /\ ~Crashed
  /\ to' = [to EXCEPT ![x] = p]
  /\ UNCHANGED <<conn, connected, timers, blk, exc, exs, ex, threads>>

\* The exchange is read, and the send on its msgChan begins.
Send(x) ==
  /\ to[x] \in ProducerNames
  /\ \/ exc[to[x]] = Nil /\ Panic
     \/ /\ exc[to[x]] # Nil
        /\ to' = [to EXCEPT ![x] = exc[to[x]]]
        /\ UNCHANGED <<conn, connected, timers, blk, exc, exs, ex, threads>>

\* The producer's goroutine takes the message and publishes it, on a channel that
\* destroyEXC may have set to nil.
Take(o) ==
  /\ ex[o].run
  /\ \E x \in Senders \cup Exs :
       /\ to[x] = o
       /\ \/ ex[o].chan = "nil" /\ Panic
          \/ /\ ex[o].chan # "nil"
             /\ to' = [to EXCEPT ![x] = Nil]
             /\ UNCHANGED <<conn, connected, timers, blk, exc, exs, ex, threads>>

-----------------------------------------------------------------------------

Connect(t) == \/ DialFails(t) \/ DialOk(t) \/ Retry(t) \/ Watch(t)
              \/ Open(t) \/ Declare(t) \/ Assign(t) \/ SetConnected(t)
Stop(t) == \/ ClearConnected(t) \/ StopProducers(t) \/ StopReceivers(t)
           \/ StopExit(t) \/ StopClose(t)

Next ==
  \/ Fire
  \/ \E t \in Threads : Connect(t) \/ NotifyClose(t) \/ Stop(t)
  \/ LoopExit \/ NotifyBlocked \/ Lose
  \/ \E x \in Senders \cup Exs : Send(x) \/ \E p \in ProducerNames : Publish(x, p)
  \/ \E o \in Exs : Take(o)

Spec == Init /\ [][Next]_vars

\* Goroutines that can run do run, timers fire, and a broker that is dialled again
\* and again accepts some time.  Nothing is assumed of losses and of messages.
Fairness ==
  /\ WF_vars(Fire)
  /\ \A t \in Threads : WF_vars(Connect(t) \/ NotifyClose(t) \/ Stop(t))
  /\ SF_vars(\E t \in Threads : DialOk(t))
  /\ WF_vars(LoopExit) /\ WF_vars(NotifyBlocked)
  /\ \A x \in Senders \cup Exs : WF_vars(Send(x))
  /\ \A o \in Exs : WF_vars(Take(o))

FairSpec == Spec /\ Fairness

-----------------------------------------------------------------------------
(* Properties.                                                             *)

Keepers == {t \in Threads : pc[t] \in Connecting \cup Watching}

\* The connection is in the hands of one goroutine at most: a retry timer, or an
\* mqConnect that dials, or a watcher that waits for the loss or is in Stop; and
\* nobody is to dial while a connection has not been wound up, or wind up one that
\* is not there.  With two of them a second connection would overwrite r.conn: the
\* first could never be closed, and its receivers would handle every message twice.
OneKeeper ==
  /\ armed <= 1
  /\ armed = 1 => Keepers = {}
  /\ \A s, t \in Keepers : s = t
  /\ (armed = 1 \/ \E t \in Threads : pc[t] = "dial") => conn = "nil"
  /\ (\E t \in Threads : pc[t] \in Watching) => conn # "nil"

\* The exit signals of cancelRetryTimer and the loops of lanuchRetryTimer match: who
\* waits for the loops to end has a signal on its way for each of them, and no signal
\* is left over when a timer is set, where it would end the new loop and with it the
\* last attempt to connect.  So a client without connection is always attended to: a
\* timer is set, or an mqConnect is at it.
Attended ==
  /\ \A t \in Threads : pc[t] \in {"failed", "ok"} => exits = armed + fired
  /\ armed = 1 => exits = 0
  /\ conn = "nil" /\ ~Crashed => armed = 1 \/ \E t \in Threads : pc[t] \in {"dial", "failed"}

\* Where the client stands, in the terms of BrokerLink.
Phase == IF Crashed THEN "dead"
         ELSE IF armed > 0 THEN "waiting"
         ELSE IF \E t \in Threads : pc[t] \in {"dial", "failed"} THEN "dialing"
         ELSE IF conn = "up" THEN "up" ELSE "lost"

Link == INSTANCE BrokerLink WITH phase <- Phase

\* The client keeps the promise of BrokerLink: one connection at a time, each wound
\* up by Stop before the retry timer is set, and the timer always leads to dialling.
KeepsLink == Link!Spec

\* Stop will never return: it sends the exit signal to an exchange without
\* goroutine, or to a receiver whose handler waits for a producer without.
Hung == \E t \in Threads :
          /\ pc[t] = "exit"
          /\ \/ ~ex[cur[t]].run
             \/ to[cur[t]] \in Exs /\ ~ex[to[cur[t]]].run

\* The connection was lost before NotifyClose was called.
Unwatched == conn = "closed" /\ Keepers = {}

Over == Crashed \/ Hung \/ Unwatched

\* These are for good: neither a late registration of mqConnect nor a message, a
\* producer or a handler that comes to its end wakes a Stop that hangs, and a loss
\* that nobody has noticed is noticed by nobody later.
LostForGood == [][Over => Over' /\ conn' # "up"]_vars

\* A client without connection gets one, unless the process ends, or in one of two
\* ways: Stop hangs, or nobody has noticed the loss.
Reconnects == (conn # "up") ~> (conn = "up" \/ Crashed \/ Hung \/ Unwatched)

\* What the comment in mqConnect says: it tries again until it has a connection.
TriesAgain == (conn # "up") ~> (conn = "up" \/ Crashed)

=============================================================================
