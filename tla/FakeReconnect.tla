--------------------------- MODULE FakeReconnect ---------------------------
(* The reconnection of a fake session (session.go): one that stands for a  *)
(* publisher of another cluster.  It asks the other pod for the stream     *)
(* (fakesubscribe), starts a goroutine that checks after a while whether   *)
(* the stream has come, and asks again, a few times, if it has not; a      *)
(* failure of ICE starts this anew.  The check goroutines of a session     *)
(* share an unbuffered exitChan and a WaitGroup, which FakePublisherReConnect *)
(* and DoLeave use to end them: a signal is taken by any of them.          *)
(*                                                                         *)
(* The other pod, the messages to it and ICE are the environment.  A fake  *)
(* session has one peer id.                                                *)
EXTENDS Naturals, FiniteSets

CONSTANTS
  MaxTimes,   \* CLUSTER_RECONNECTION_MAXTIMES
  Checks,     \* check goroutines of FakeSubscribe
  Calls,      \* goroutines in FakePublisherReConnect
  MaxFails    \* bound on the failures of ICE, and on late "closed" callbacks

ASSUME MaxTimesAssumption == MaxTimes \in Nat
ASSUME PoolAssumption == IsFiniteSet(Checks) /\ IsFiniteSet(Calls)
ASSUME MaxFailsAssumption == MaxFails \in Nat

Times == 0 .. MaxTimes

\* A check goroutine: its timer runs, has fired and found a publisher, or is spent.
\* A call: its exit signal is on the way, it is in Wait, it has been released from
\* Wait and not returned yet, or it has returned.  time is curtime.
Check == [at: {"none", "timer", "found", "spent"}, time: Times]
Call == [at: {"none", "exit", "wait", "woken", "ask"}, time: Times]
None == [at |-> "none", time |-> 0]
Spent == [at |-> "spent", time |-> 0]  \* curtime is not read any more

VARIABLES
  check, call,  \* the goroutines
  exits,        \* goroutines at sess.exitChan <- 0
  wg,           \* the counter of sess.waitGroup
  first,        \* HandleMessage(fakepublish) has not called FakeSubscribe yet
  leave,        \* DoLeave: not called, or its step
  stream,       \* sess.publishers[pid]: none, not connected yet, ready,
                \* disconnected, or given up by ICE
  iced,         \* OnIceFailed calls that are past the callback's nil check
  rel,          \* release goroutines of this publisher under way
  fails,        \* what MaxFails bounds, so far
  spent, taken, \* history: the retries were used up; a release goroutine has
                \* released a publisher that came after the failed one
  dead          \* the process has panicked

env == <<iced, rel, fails, spent, taken>>
vars == <<check, call, exits, wg, first, leave, stream, env, dead>>

TypeOK ==
  /\ check \in [Checks -> Check] /\ call \in [Calls -> Call]
  /\ exits \in Nat /\ wg \in Nat
  /\ first \in BOOLEAN
  /\ leave \in {"no", "exit", "wait", "woken", "done"}
  /\ stream \in {"none", "new", "ready", "lost", "failed"}
  /\ spent \in BOOLEAN /\ taken \in BOOLEAN
  /\ iced \in Nat /\ rel \in Nat /\ fails \in Nat
  /\ dead \in BOOLEAN

\* room.go, fakepublish: the new session is in the room.
Init ==
  /\ check = [c \in Checks |-> None] /\ call = [r \in Calls |-> None]
  /\ exits = 0 /\ wg = 0
  /\ first = TRUE /\ leave = "no"
  /\ stream = "none"
  /\ iced = 0 /\ rel = 0 /\ fails = 0
  /\ spent = FALSE /\ taken = FALSE /\ dead = FALSE

Running == {c \in Checks : check[c].at # "none"}
Pending == {r \in Calls : call[r].at # "none"}
CheckFree == \E c \in Checks : check[c] = None
CallFree == \E r \in Calls : call[r] = None
NewCheck == CHOOSE c \in Checks : check[c] = None
NewCall == CHOOSE r \in Calls : call[r] = None

-----------------------------------------------------------------------------
(* FakeSubscribe, and FakePublisherReConnect, which ends in it.            *)

\* Mutant: the new check goroutine is not counted.
FakeSubscribe_NoAdd(time) ==
  /\ CheckFree
  /\ check' = [check EXCEPT ![NewCheck] = [at |-> "timer", time |-> time]]
  /\ wg' = wg

\* The message to the other pod, and a check goroutine.
FakeSubscribe(time) ==
  /\ CheckFree
  /\ check' = [check EXCEPT ![NewCheck] = [at |-> "timer", time |-> time]]
  /\ wg' = wg + 1

\* session.HandleMessage, fakepublish.
FakePublish ==
  /\ first /\ ~dead
  /\ first' = FALSE
  /\ FakeSubscribe(MaxTimes)
  /\ UNCHANGED <<call, exits, leave, stream, iced, rel, fails, spent, taken, dead>>

\* Mutant: no signal is sent to the check goroutine.
FakePublisherReConnect_NoExit(time) ==
  /\ CallFree
  /\ call' = [call EXCEPT ![NewCall] = [at |-> "exit", time |-> time]]
  /\ exits' = exits

\* Its beginning: go exitChan <- 0.  (A fake session is never origin.)
FakePublisherReConnect(time) ==
  /\ CallFree
  /\ call' = [call EXCEPT ![NewCall] = [at |-> "exit", time |-> time]]
  /\ exits' = exits + 1

\* waitGroup.Wait: no waiting if the counter is zero.
Wait(r) ==
  /\ call[r].at = "exit" /\ ~dead
  /\ call' = [call EXCEPT ![r].at = IF wg = 0 THEN "ask" ELSE "wait"]
  /\ UNCHANGED <<check, exits, wg, first, leave, stream, env, dead>>

\* A panic of the WaitGroup, "reused before previous Wait has returned".
Reused ==
  /\ wg # 0
  /\ dead' = TRUE
  /\ UNCHANGED <<check, call, exits, wg, first, leave, stream, env>>

\* Wait returns after it was released.
Return(r) ==
  /\ call[r].at = "woken" /\ ~dead
  /\ \/ Reused
     \/ /\ wg = 0
        /\ call' = [call EXCEPT ![r].at = "ask"]
        /\ UNCHANGED <<check, exits, wg, first, leave, stream, env, dead>>

AskAgain(r) ==
  /\ call[r].at = "ask" /\ ~dead
  /\ FakeSubscribe(call[r].time)
  /\ call' = [call EXCEPT ![r] = None]
  /\ UNCHANGED <<exits, first, leave, stream, iced, rel, fails, spent, taken, dead>>

-----------------------------------------------------------------------------
(* The check goroutine.                                                    *)

\* Mutant: the counter of retries is not counted down.
TryAgain_Forever(c) ==
  /\ check' = [check EXCEPT ![c] = Spent]
  /\ FakePublisherReConnect(check[c].time)
  /\ UNCHANGED spent

\* "try again": go FakePublisherReConnect with one time less, or none any more.
\* The goroutine stays in its loop.
TryAgain(c) ==
  \/ /\ check[c].time > 0
     /\ check' = [check EXCEPT ![c] = Spent]
     /\ FakePublisherReConnect(check[c].time - 1)
     /\ UNCHANGED spent
  \/ /\ check[c].time = 0
     /\ check' = [check EXCEPT ![c] = Spent]
     /\ spent' = TRUE
     /\ UNCHANGED <<call, exits>>

\* The timer fires: is there a publisher?
Fire(c) ==
  /\ check[c].at = "timer" /\ ~dead
  /\ \/ /\ stream # "none"
        /\ check' = [check EXCEPT ![c].at = "found"]
        /\ UNCHANGED <<call, exits, spent>>
     \/ stream = "none" /\ TryAgain(c)
  /\ UNCHANGED <<wg, first, leave, stream, iced, rel, fails, taken, dead>>

\* It is looked up again, without a lock: is it ready?
Ready(c) ==
  /\ check[c].at = "found" /\ ~dead
  /\ \/ /\ stream = "none" /\ dead' = TRUE
        /\ UNCHANGED <<check, call, exits, spent>>
     \/ /\ stream = "ready"
        /\ check' = [check EXCEPT ![c] = Spent]
        /\ UNCHANGED <<call, exits, spent, dead>>
     \/ /\ stream \notin {"none", "ready"}
        /\ TryAgain(c)
        /\ UNCHANGED dead
  /\ UNCHANGED <<wg, first, leave, stream, iced, rel, fails, taken>>

\* When the counter falls to zero, everyone in Wait is released.
WakeUp ==
  /\ call' = [r \in Calls |-> IF call[r].at = "wait" /\ wg' = 0
                              THEN [call[r] EXCEPT !.at = "woken"] ELSE call[r]]
  /\ leave' = IF leave = "wait" /\ wg' = 0 THEN "woken" ELSE leave

\* Mutant: the signal ends the select, and not the loop.
Exit_Break(c) ==
  /\ check[c].at \in {"timer", "spent"} /\ exits > 0 /\ ~dead
  /\ exits' = exits - 1
  /\ UNCHANGED <<check, call, wg, first, leave, stream, env, dead>>

\* The goroutine takes a signal, and returns: waitGroup.Done.
Exit(c) ==
  /\ check[c].at \in {"timer", "spent"} /\ exits > 0 /\ ~dead
  /\ exits' = exits - 1
  /\ check' = [check EXCEPT ![c] = None]
  /\ wg' = wg - 1
  /\ WakeUp
  /\ UNCHANGED <<first, stream, env, dead>>

-----------------------------------------------------------------------------
(* DoLeave.                                                                *)

\* Mutant: DoLeave waits without having sent a signal.
DoLeave_NoSignal ==
  /\ leave = "no" /\ ~dead
  /\ leave' = "exit"
  /\ stream' = "none"
  /\ UNCHANGED <<check, call, exits, wg, first, env, dead>>

\* The publishers are destroyed, then go exitChan <- 0.
DoLeave ==
  /\ leave = "no" /\ ~dead
  /\ leave' = "exit"
  /\ stream' = "none"
  /\ exits' = exits + 1
  /\ UNCHANGED <<check, call, wg, first, env, dead>>

LeaveWait ==
  /\ leave = "exit" /\ ~dead
  /\ leave' = IF wg = 0 THEN "done" ELSE "wait"
  /\ UNCHANGED <<check, call, exits, wg, first, stream, env, dead>>

LeaveReturn ==
  /\ leave = "woken" /\ ~dead
  /\ \/ Reused
     \/ /\ wg = 0
        /\ leave' = "done"
        /\ UNCHANGED <<check, call, exits, wg, first, stream, env, dead>>

-----------------------------------------------------------------------------
(* The stream.                                                             *)

\* A fakeoffer, the answer to one of the requests: a publisher there is destroyed,
\* whose "closed" callback may release the new one (OnIceClosed), and a new one takes
\* its place.  (Of offers to a session that has left, see SessionPeers.)
FakeOffer ==
  /\ ~first /\ leave = "no" /\ ~dead
  /\ stream' = "new"
  /\ \/ UNCHANGED <<rel, fails>>
     \/ /\ stream # "none" /\ fails < MaxFails
        /\ rel' = rel + 1 /\ fails' = fails + 1
  /\ UNCHANGED <<check, call, exits, wg, first, leave, iced, spent, taken, dead>>

\* ICE connects, or has lost contact.
IceChanges ==
  /\ ~dead
  /\ \/ stream \in {"new", "lost"} /\ stream' = "ready"
     \/ stream = "ready" /\ stream' = "lost"
  /\ UNCHANGED <<check, call, exits, wg, first, leave, env, dead>>

\* ICE gives up, and the callback is past its nil check: isReady is false, and
\* OnIceFailed is called.
IceFails ==
  /\ stream \in {"new", "lost"} /\ fails < MaxFails /\ ~dead
  /\ stream' = "failed"
  /\ iced' = iced + 1 /\ fails' = fails + 1
  /\ UNCHANGED <<check, call, exits, wg, first, leave, rel, spent, taken, dead>>

\* Mutant: the failed publisher is released, and the stream is not asked for.
OnIceFailed_NoReconnect ==
  /\ iced > 0 /\ ~dead
  /\ iced' = iced - 1
  /\ rel' = IF stream = "none" THEN rel ELSE rel + 1
  /\ UNCHANGED <<check, call, exits, wg, first, leave, stream, fails, spent, taken, dead>>

\* OnIceFailed: go OnPublisherPeerFailed, if the peer id is published, and the
\* reconnection, in any case.
OnIceFailed ==
  /\ iced > 0 /\ ~dead
  /\ iced' = iced - 1
  /\ rel' = IF stream = "none" THEN rel ELSE rel + 1
  /\ FakePublisherReConnect(MaxTimes)
  /\ UNCHANGED <<check, wg, first, leave, stream, fails, spent, taken, dead>>

\* ReleasePublisher, of what is published now; the "closed" callback of that one may
\* find a newer one published, and start another release.
Release ==
  /\ rel > 0 /\ ~dead
  /\ \/ rel' = rel - 1 /\ UNCHANGED fails
     \/ /\ stream # "none" /\ fails < MaxFails
        /\ UNCHANGED rel /\ fails' = fails + 1
  /\ stream' = "none"
  /\ taken' = (taken \/ stream \in {"new", "ready", "lost"})
  /\ UNCHANGED <<check, call, exits, wg, first, leave, iced, spent, dead>>

-----------------------------------------------------------------------------

Next ==
  \/ FakePublish \/ DoLeave \/ LeaveWait \/ LeaveReturn
  \/ \E r \in Calls : Wait(r) \/ Return(r) \/ AskAgain(r)
  \/ \E c \in Checks : Fire(c) \/ Ready(c) \/ Exit(c)
  \/ FakeOffer \/ IceChanges \/ IceFails \/ OnIceFailed \/ Release

Spec == Init /\ [][Next]_vars

\* Goroutines that can run do run, timers fire, and the message to the other pod is
\* taken from who sends it.  Nothing is assumed of the other pod, nor of DoLeave.
Fairness ==
  /\ WF_vars(FakePublish)
  /\ WF_vars(LeaveWait \/ LeaveReturn)
  /\ \A r \in Calls : WF_vars(Wait(r) \/ Return(r) \/ AskAgain(r))
  /\ \A c \in Checks : WF_vars(Fire(c) \/ Ready(c))
  /\ WF_vars(\E c \in Checks : Exit(c))
  /\ WF_vars(OnIceFailed) /\ WF_vars(Release)

FairSpec == Spec /\ Fairness

-----------------------------------------------------------------------------
(* Properties.                                                             *)

\* The signals are as many as the goroutines that have to end.  Each reconnection
\* sends one and starts one goroutine; so one goroutine is left over, to look after
\* the stream, until DoLeave ends it too, and nobody waits for a goroutine that no
\* signal is meant for - although any goroutine may take any signal.
Signals ==
  LET owed == (IF first THEN 1 ELSE 0) + wg + Cardinality(Pending)
  IN /\ wg = Cardinality(Running)
     /\ owed = exits + (IF leave = "no" THEN 1 ELSE 0)

\* Nobody sleeps in waitGroup.Wait in vain: while DoLeave or a reconnection is in it,
\* there is a goroutine to wait for and a signal under way that will end one, although
\* the signal it sent itself may long since have been taken by another's goroutine.
Waited ==
  (leave = "wait" \/ \E r \in Calls : call[r].at = "wait") => (wg > 0 /\ exits > 0)

\* The session that has not left does not forget its stream: a publisher that ICE
\* still looks after is there, or a check or another request is to come, or ICE's
\* failure is just being reported; unless the retries have been used up, or a
\* release goroutine came too late and took the new publisher for the failed one.
Asking ==
  (leave = "no" /\ ~dead) =>
    \/ first
    \/ stream \in {"new", "ready", "lost"} \/ iced > 0
    \/ \E c \in Checks : check[c].at \in {"timer", "found"}
    \/ Pending # {}
    \/ spent \/ taken

\* DoLeave, which the room calls with its sessionsLock held, returns.
Leaves == (leave # "no") ~> (leave = "done" \/ dead)

\* No check goroutine, reconnection or signal outlives the session, even when ICE's
\* failure or fakepublish itself is handled after DoLeave.
WoundUp == (leave # "no") ~> [](dead \/ (Running = {} /\ Pending = {} /\ exits = 0))

=============================================================================
