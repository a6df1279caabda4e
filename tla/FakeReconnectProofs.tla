------------------------ MODULE FakeReconnectProofs ------------------------
(* Theorems about FakeReconnect, for every number of retries and any       *)
(* finite pools of goroutines.  Signals is inductive: it is a matter of    *)
(* counting.  Asking is not, and follows from Signals and Guarded; Waited  *)
(* follows from Signals and Held.                                          *)
EXTENDS FakeReconnect, FiniteSetTheorems, TLAPS

\* As long as a check goroutine is in its loop without a timer, the publisher it saw
\* is there, or someone waits for the goroutine to end, who will ask again.
Guarded ==
  (leave = "no" /\ ~spent /\ ~taken /\ \E c \in Checks : check[c].at = "spent") =>
    \/ stream \in {"new", "ready", "lost"} \/ iced > 0
    \/ \E r \in Calls : call[r].at \in {"exit", "wait"}

IInv == TypeOK /\ Signals /\ Guarded

USE MaxTimesAssumption, MaxFailsAssumption DEF Times

-----------------------------------------------------------------------------
(* Counting goroutines.                                                    *)

\* The goroutines in their loops, and the calls under way, can be counted.
LEMMA Counted == /\ IsFiniteSet(Running) /\ Cardinality(Running) \in Nat
                 /\ IsFiniteSet(Pending) /\ Cardinality(Pending) \in Nat
<1>1. Running \subseteq Checks /\ Pending \subseteq Calls  BY DEF Running, Pending
<1>2. IsFiniteSet(Running) /\ IsFiniteSet(Pending)  BY <1>1, PoolAssumption, FS_Subset
<1> QED  BY <1>2, FS_CardinalityType

\* FakeSubscribe starts one more check goroutine.
LEMMA OneMoreCheck ==
  ASSUME TypeOK, NEW k \in Checks, check[k] = None, NEW time \in Times,
         check' = [check EXCEPT ![k] = [at |-> "timer", time |-> time]]
  PROVE  /\ check' \in [Checks -> Check]
         /\ Cardinality(Running') = Cardinality(Running) + 1
<1>1. [at |-> "timer", time |-> time] \in Check  BY DEF Check
<1>2. check' \in [Checks -> Check]  BY <1>1 DEF TypeOK
<1>3. Running' = Running \cup {k} /\ k \notin Running  BY DEF TypeOK, Running, None
<1>4. Cardinality(Running \cup {k}) = Cardinality(Running) + 1
  BY <1>3, Counted, FS_AddElement
<1> QED  BY <1>2, <1>3, <1>4

\* A check goroutine that ends.
LEMMA OneCheckLess ==
  ASSUME TypeOK, NEW c \in Checks, check[c].at # "none",
         check' = [check EXCEPT ![c] = None]
  PROVE  /\ check' \in [Checks -> Check]
         /\ Running' = Running \ {c}
         /\ Cardinality(Running') = Cardinality(Running) - 1
<1>1. None \in Check  BY DEF Check, None
<1>2. check' \in [Checks -> Check]  BY <1>1 DEF TypeOK
<1>3. Running' = Running \ {c} /\ c \in Running  BY DEF TypeOK, Running, None
<1>4. Cardinality(Running \ {c}) = Cardinality(Running) - 1
  BY <1>3, Counted, FS_RemoveElement
<1> QED  BY <1>2, <1>3, <1>4

\* A check goroutine whose timer fires stays in its loop.
LEMMA SameChecks ==
  ASSUME TypeOK, NEW c \in Checks, check[c].at # "none",
         NEW v \in Check, v.at # "none", check' = [check EXCEPT ![c] = v]
  PROVE  check' \in [Checks -> Check] /\ Running' = Running
BY DEF TypeOK, Running

\* FakePublisherReConnect is called.
LEMMA OneMoreCall ==
  ASSUME TypeOK, NEW k \in Calls, call[k] = None, NEW time \in Times,
         call' = [call EXCEPT ![k] = [at |-> "exit", time |-> time]]
  PROVE  /\ call' \in [Calls -> Call]
         /\ Cardinality(Pending') = Cardinality(Pending) + 1
         /\ \E r \in Calls : call'[r].at = "exit"
<1>1. [at |-> "exit", time |-> time] \in Call  BY DEF Call
<1>2. call' \in [Calls -> Call]  BY <1>1 DEF TypeOK
<1>3. Pending' = Pending \cup {k} /\ k \notin Pending  BY DEF TypeOK, Pending, None
<1>4. Cardinality(Pending \cup {k}) = Cardinality(Pending) + 1
  BY <1>3, Counted, FS_AddElement
<1> QED  BY <1>2, <1>3, <1>4 DEF TypeOK

\* It has called FakeSubscribe.
LEMMA OneCallLess ==
  ASSUME TypeOK, NEW r \in Calls, call[r].at # "none",
         call' = [call EXCEPT ![r] = None]
  PROVE  /\ call' \in [Calls -> Call]
         /\ Cardinality(Pending') = Cardinality(Pending) - 1
<1>1. None \in Call  BY DEF Call, None
<1>2. call' \in [Calls -> Call]  BY <1>1 DEF TypeOK
<1>3. Pending' = Pending \ {r} /\ r \in Pending  BY DEF TypeOK, Pending, None
<1>4. Cardinality(Pending \ {r}) = Cardinality(Pending) - 1
  BY <1>3, Counted, FS_RemoveElement
<1> QED  BY <1>2, <1>3, <1>4

\* The other steps of a call.
LEMMA SameCalls ==
  ASSUME TypeOK, NEW r \in Calls, call[r].at # "none",
         NEW a \in {"wait", "woken", "ask"}, call' = [call EXCEPT ![r].at = a]
  PROVE  call' \in [Calls -> Call] /\ Pending' = Pending
<1>1. [call[r] EXCEPT !.at = a] \in Call  BY DEF TypeOK, Call
<1>2. call' = [call EXCEPT ![r] = [call[r] EXCEPT !.at = a]]  OBVIOUS
<1>3. call' \in [Calls -> Call]  BY <1>1, <1>2 DEF TypeOK
<1>4. Pending' = Pending  BY DEF TypeOK, Pending, Call
<1> QED  BY <1>3, <1>4

\* While nothing is in its loop, nothing is spent.
LEMMA NoneRuns == ASSUME IInv, wg = 0 PROVE \A c \in Checks : check[c].at = "none"
<1>1. Cardinality(Running) = 0  BY DEF IInv, Signals
<1>2. Running = {}  BY <1>1, Counted, FS_EmptySet
<1> QED  BY <1>2 DEF Running

-----------------------------------------------------------------------------
(* The steps.                                                              *)

LEMMA InitOK == ASSUME Init PROVE IInv
<1>1. None \in Check /\ None \in Call  BY DEF None, Check, Call
<1>2. TypeOK  BY <1>1 DEF Init, TypeOK
<1>3. Running = {} /\ Pending = {}  BY DEF Init, Running, Pending, None
<1>4. Cardinality(Running) = 0 /\ Cardinality(Pending) = 0  BY <1>3, FS_EmptySet
<1>5. Signals  BY <1>4 DEF Init, Signals
<1>6. Guarded  BY DEF Init, Guarded, None
<1> QED  BY <1>2, <1>5, <1>6 DEF IInv

LEMMA FakePublishOK == ASSUME IInv, FakePublish PROVE IInv'
<1> DEFINE k == NewCheck
<1>1. /\ first /\ first' = FALSE /\ wg' = wg + 1
      /\ check' = [check EXCEPT ![k] = [at |-> "timer", time |-> MaxTimes]]
      /\ UNCHANGED <<call, exits, leave, stream, iced, rel, fails, spent, taken, dead>>
  BY DEF FakePublish, FakeSubscribe
<1>2. k \in Checks /\ check[k] = None  BY DEF FakePublish, FakeSubscribe, CheckFree, NewCheck
<1> HIDE DEF k
<1>3. TypeOK /\ MaxTimes \in Times  BY DEF IInv
<1>4. check' \in [Checks -> Check] /\ Cardinality(Running') = Cardinality(Running) + 1
  BY <1>1, <1>2, <1>3, OneMoreCheck
<1>5. Pending' = Pending  BY <1>1 DEF Pending
<1>6. TypeOK'
  <2>1. first' \in BOOLEAN  BY <1>1
  <2> QED  BY <1>1, <1>3, <1>4, <2>1 DEF TypeOK
<1>7. Signals'  BY <1>1, <1>3, <1>4, <1>5, Counted DEF IInv, Signals, TypeOK
<1>8. Guarded'  BY <1>1, <1>2, <1>3 DEF IInv, Guarded, TypeOK
<1> QED  BY <1>6, <1>7, <1>8 DEF IInv

LEMMA AskAgainOK == ASSUME IInv, NEW r \in Calls, AskAgain(r) PROVE IInv'
<1> DEFINE k == NewCheck
<1> DEFINE time == call[r].time
<1>1. /\ call[r].at = "ask" /\ wg' = wg + 1
      /\ check' = [check EXCEPT ![k] = [at |-> "timer", time |-> time]]
      /\ call' = [call EXCEPT ![r] = None]
      /\ UNCHANGED <<exits, first, leave, stream, iced, rel, fails, spent, taken, dead>>
  BY DEF AskAgain, FakeSubscribe
<1>2. k \in Checks /\ check[k] = None  BY DEF AskAgain, FakeSubscribe, CheckFree, NewCheck
<1>3. TypeOK /\ time \in Times  BY DEF IInv, TypeOK, Call
<1> HIDE DEF k, time
<1>4. check' \in [Checks -> Check] /\ Cardinality(Running') = Cardinality(Running) + 1
  BY <1>1, <1>2, <1>3, OneMoreCheck
<1>5. call' \in [Calls -> Call] /\ Cardinality(Pending') = Cardinality(Pending) - 1
  BY <1>1, <1>3, OneCallLess
<1>6. TypeOK'  BY <1>1, <1>3, <1>4, <1>5 DEF TypeOK
<1>7. Signals'  BY <1>1, <1>3, <1>4, <1>5, Counted DEF IInv, Signals, TypeOK
<1>8. Guarded'  BY <1>1, <1>2, <1>3 DEF IInv, Guarded, TypeOK
<1> QED  BY <1>6, <1>7, <1>8 DEF IInv

\* A step of a call that neither starts nor ends it.
LEMMA CallStepOK ==
  ASSUME IInv, NEW r \in Calls, call[r].at # "none", NEW a \in {"wait", "ask"},
         a = "ask" => wg = 0,
         call' = [call EXCEPT ![r].at = a],
         UNCHANGED <<check, exits, wg, first, leave, stream, env, dead>>
  PROVE  IInv'
<1>1. TypeOK  BY DEF IInv
<1>2. call' \in [Calls -> Call] /\ Pending' = Pending  BY <1>1, SameCalls
<1>3. Running' = Running  BY DEF Running
<1>4. TypeOK'  BY <1>1, <1>2 DEF TypeOK, env
<1>5. Signals'  BY <1>2, <1>3 DEF IInv, Signals
<1>6. CASE wg = 0  BY <1>4, <1>5, <1>6, NoneRuns DEF IInv, Guarded
<1>7. CASE wg # 0
  <2>1. a = "wait"  BY <1>7
  <2> QED  BY <1>1, <1>4, <1>5, <2>1 DEF IInv, Guarded, TypeOK, Call, env
<1> QED  BY <1>6, <1>7

LEMMA WaitOK == ASSUME IInv, NEW r \in Calls, Wait(r) PROVE IInv'
<1> DEFINE a == IF wg = 0 THEN "ask" ELSE "wait"
<1>1. /\ call[r].at # "none" /\ a \in {"wait", "ask"} /\ (a = "ask" => wg = 0)
      /\ call' = [call EXCEPT ![r].at = a]
      /\ UNCHANGED <<check, exits, wg, first, leave, stream, env, dead>>
  BY DEF Wait
<1> HIDE DEF a
<1> QED  BY <1>1, CallStepOK

\* A panic changes nothing else.
LEMMA ReusedOK ==
  ASSUME IInv, dead' \in BOOLEAN,
         UNCHANGED <<check, call, exits, wg, first, leave, stream, env>>
  PROVE  IInv'
BY DEF IInv, TypeOK, Signals, Running, Pending, Guarded, env

LEMMA ReturnOK == ASSUME IInv, NEW r \in Calls, Return(r) PROVE IInv'
<1>1. CASE Reused  BY <1>1, ReusedOK DEF Reused
<1>2. CASE ~Reused
  <2>1. /\ call[r].at # "none" /\ wg = 0 /\ call' = [call EXCEPT ![r].at = "ask"]
        /\ UNCHANGED <<check, exits, wg, first, leave, stream, env, dead>>
    BY <1>2 DEF Return
  <2> QED  BY <2>1, CallStepOK
<1> QED  BY <1>1, <1>2

\* The first lookup finds a publisher, or the second a publisher that is ready.
LEMMA LookOK ==
  ASSUME IInv, NEW c \in Checks, check[c].at # "none",
         NEW v \in Check, v.at # "none", v.at = "spent" => stream = "ready",
         check' = [check EXCEPT ![c] = v],
         UNCHANGED <<call, exits, wg, first, leave, stream, env, dead>>
  PROVE  IInv'
<1>1. TypeOK  BY DEF IInv
<1>2. check' \in [Checks -> Check] /\ Running' = Running  BY <1>1, SameChecks
<1>3. Pending' = Pending  BY DEF Pending
<1>4. TypeOK'  BY <1>1, <1>2 DEF TypeOK, env
<1>5. Signals'  BY <1>2, <1>3 DEF IInv, Signals
<1>6. Guarded'  BY <1>1 DEF IInv, Guarded, TypeOK, env
<1> QED  BY <1>4, <1>5, <1>6 DEF IInv

LEMMA TryAgainOK ==
  ASSUME IInv, NEW c \in Checks, check[c].at # "none", TryAgain(c),
         UNCHANGED <<wg, first, leave, stream, iced, rel, fails, taken, dead>>
  PROVE  IInv'
<1>1. TypeOK  BY DEF IInv
<1>2. check' = [check EXCEPT ![c] = Spent]  BY DEF TryAgain
<1>3. Spent \in Check /\ Spent.at # "none"  BY DEF Spent, Check
<1>4. check' \in [Checks -> Check] /\ Running' = Running
  BY <1>1, <1>2, <1>3, SameChecks
<1>5. CASE check[c].time > 0 /\ FakePublisherReConnect(check[c].time - 1) /\ spent' = spent
  <2> DEFINE k == NewCall
  <2> DEFINE time == check[c].time - 1
  <2>1. exits' = exits + 1 /\ call' = [call EXCEPT ![k] = [at |-> "exit", time |-> time]]
    BY <1>5 DEF FakePublisherReConnect
  <2>2. k \in Calls /\ call[k] = None
    BY <1>5 DEF FakePublisherReConnect, CallFree, NewCall
  <2>3. time \in Times
    <3>1. check[c].time \in Times  BY <1>1 DEF TypeOK, Check
    <3> QED  BY <1>5, <3>1
  <2> HIDE DEF k, time
  <2>4. /\ call' \in [Calls -> Call] /\ Cardinality(Pending') = Cardinality(Pending) + 1
        /\ \E r \in Calls : call'[r].at = "exit"
    BY <1>1, <2>1, <2>2, <2>3, OneMoreCall
  <2>5. TypeOK'  BY <1>1, <1>4, <1>5, <2>1, <2>4 DEF TypeOK
  <2>6. Signals'  BY <1>1, <1>4, <2>1, <2>4, Counted DEF IInv, Signals, TypeOK
  <2>7. Guarded'  BY <2>4 DEF Guarded
  <2> QED  BY <2>5, <2>6, <2>7 DEF IInv
<1>6. CASE spent' = TRUE /\ UNCHANGED <<call, exits>>
  <2>1. TypeOK'  BY <1>1, <1>4, <1>6 DEF TypeOK
  <2>2. Pending' = Pending  BY <1>6 DEF Pending
  <2>3. Signals'  BY <1>4, <1>6, <2>2 DEF IInv, Signals
  <2>4. Guarded'  BY <1>6 DEF Guarded
  <2> QED  BY <2>1, <2>3, <2>4 DEF IInv
<1> QED  BY <1>5, <1>6 DEF TryAgain

LEMMA FireOK == ASSUME IInv, NEW c \in Checks, Fire(c) PROVE IInv'
<1>1. /\ check[c].at # "none"
      /\ UNCHANGED <<wg, first, leave, stream, iced, rel, fails, taken, dead>>
  BY DEF Fire
<1>2. CASE TryAgain(c)  BY <1>1, <1>2, TryAgainOK
<1>3. CASE ~TryAgain(c)
  <2> DEFINE v == [check[c] EXCEPT !.at = "found"]
  <2>1. check' = [check EXCEPT ![c] = v] /\ UNCHANGED <<call, exits, spent>>
    BY <1>3 DEF Fire
  <2>2. v \in Check /\ v.at = "found"  BY DEF IInv, TypeOK, Check
  <2> HIDE DEF v
  <2> QED  BY <1>1, <2>1, <2>2, LookOK DEF env
<1> QED  BY <1>2, <1>3

LEMMA ReadyOK == ASSUME IInv, NEW c \in Checks, Ready(c) PROVE IInv'
<1>1. /\ check[c].at # "none"
      /\ UNCHANGED <<wg, first, leave, stream, iced, rel, fails, taken>>
  BY DEF Ready
<1>2. CASE dead' = TRUE /\ UNCHANGED <<check, call, exits, spent>>
  BY <1>1, <1>2, ReusedOK DEF env
<1>3. CASE /\ stream = "ready" /\ check' = [check EXCEPT ![c] = Spent]
           /\ UNCHANGED <<call, exits, spent, dead>>
  <2>1. Spent \in Check /\ Spent.at = "spent"  BY DEF Spent, Check
  <2> QED  BY <1>1, <1>3, <2>1, LookOK DEF env
<1>4. CASE TryAgain(c) /\ UNCHANGED dead  BY <1>1, <1>4, TryAgainOK
<1> QED  BY <1>2, <1>3, <1>4 DEF Ready

LEMMA ExitOK == ASSUME IInv, NEW c \in Checks, Exit(c) PROVE IInv'
<1>1. /\ check[c].at # "none" /\ exits > 0 /\ exits' = exits - 1
      /\ check' = [check EXCEPT ![c] = None] /\ wg' = wg - 1
      /\ UNCHANGED <<first, stream, iced, rel, fails, spent, taken, dead>>
  BY DEF Exit, env
<1>2. TypeOK  BY DEF IInv
<1>3. /\ check' \in [Checks -> Check] /\ Running' = Running \ {c}
      /\ Cardinality(Running') = Cardinality(Running) - 1
  BY <1>1, <1>2, OneCheckLess
<1>4. wg' \in Nat /\ wg' = Cardinality(Running')
  <2>1. Running' \subseteq Checks  BY <1>3 DEF Running
  <2>2. Cardinality(Running') \in Nat
    BY <2>1, PoolAssumption, FS_Subset, FS_CardinalityType
  <2> QED  BY <1>1, <1>2, <1>3, <2>2 DEF IInv, Signals, TypeOK
<1>5. call' \in [Calls -> Call]
  <2>1. \A r \in Calls : call[r] \in Call /\ [call[r] EXCEPT !.at = "woken"] \in Call
    BY <1>2 DEF TypeOK, Call
  <2> QED  BY <2>1 DEF Exit, WakeUp
<1>6. \A r \in Calls : call'[r].at = call[r].at \/ (call[r].at = "wait" /\ wg' = 0
                                                    /\ call'[r].at = "woken")
  BY <1>2 DEF Exit, WakeUp, TypeOK, Call
<1>7. Pending' = Pending  BY <1>6 DEF Pending
<1>8. leave' \in {"no", "exit", "wait", "woken", "done"} /\ (leave' = "no" <=> leave = "no")
  BY <1>2 DEF Exit, WakeUp, TypeOK
<1>9. TypeOK'  BY <1>1, <1>2, <1>3, <1>4, <1>5, <1>8 DEF TypeOK
<1>10. Signals'
  BY <1>1, <1>2, <1>4, <1>7, <1>8, Counted DEF IInv, Signals, TypeOK
<1>11. CASE wg' = 0
  <2>1. Running' = {}
    <3>1. IsFiniteSet(Running')  BY <1>3, Counted, FS_Subset
    <3> QED  BY <1>4, <1>11, <3>1, FS_EmptySet
  <2>2. \A d \in Checks : check'[d].at = "none"  BY <2>1 DEF Running
  <2>3. Guarded'  BY <2>2 DEF Guarded
  <2> QED  BY <1>9, <1>10, <2>3 DEF IInv
<1>12. CASE wg' # 0
  <2>1. \A r \in Calls : call'[r].at = call[r].at  BY <1>6, <1>12
  <2>2. \A d \in Checks : check'[d].at = "spent" => check[d].at = "spent"
    BY <1>1, <1>2 DEF TypeOK, None
  <2>3. Guarded'  BY <1>1, <1>8, <2>1, <2>2 DEF IInv, Guarded
  <2> QED  BY <1>9, <1>10, <2>3 DEF IInv
<1> QED  BY <1>11, <1>12

\* The rest changes no goroutine.
LEMMA QuietOK ==
  ASSUME IInv, TypeOK', UNCHANGED <<check, call, wg, first>>, Guarded',
         \/ exits' = exits /\ (leave' = "no" <=> leave = "no")
         \/ exits' = exits + 1 /\ leave = "no" /\ leave' # "no"
  PROVE  IInv'
<1>1. Running' = Running /\ Pending' = Pending  BY DEF Running, Pending
<1>2. exits \in Nat /\ exits' \in Nat  BY DEF IInv, TypeOK
<1>3. Signals'
  <2>1. CASE exits' = exits /\ (leave' = "no" <=> leave = "no")
    BY <1>1, <2>1 DEF IInv, Signals
  <2>2. CASE exits' = exits + 1 /\ leave = "no" /\ leave' # "no"
    BY <1>1, <1>2, <2>2, Counted DEF IInv, Signals, TypeOK
  <2> QED  BY <2>1, <2>2
<1> QED  BY <1>3 DEF IInv

LEMMA LeaveOK == ASSUME IInv, DoLeave \/ LeaveWait \/ LeaveReturn PROVE IInv'
<1>1. CASE LeaveReturn /\ Reused  BY <1>1, ReusedOK DEF Reused
<1>2. CASE DoLeave \/ LeaveWait \/ (LeaveReturn /\ ~Reused)
  <2>1. /\ UNCHANGED <<check, call, wg, first, env, dead>>
        /\ leave' \in {"exit", "done", "wait"}
        /\ stream' \in {"none", stream}
        /\ \/ leave = "no" /\ exits' = exits + 1
           \/ leave # "no" /\ exits' = exits
    BY <1>2 DEF DoLeave, LeaveWait, LeaveReturn
  <2>2. TypeOK'  BY <2>1 DEF IInv, TypeOK, env
  <2>3. Guarded'  BY <2>1 DEF Guarded
  <2>4. exits \in Nat  BY DEF IInv, TypeOK
  <2> QED  BY <2>1, <2>2, <2>3, <2>4, QuietOK
<1> QED  BY <1>1, <1>2

LEMMA StreamOK ==
  ASSUME IInv, FakeOffer \/ IceChanges \/ IceFails \/ Release PROVE IInv'
<1>1. UNCHANGED <<check, call, exits, wg, first, leave, spent, dead>>
  BY DEF FakeOffer, IceChanges, IceFails, Release, env
<1>2. TypeOK'
  <2>1. CASE Release
    <3>1. taken' \in BOOLEAN  BY <2>1 DEF Release
    <3>2. rel' \in Nat /\ stream' = "none" /\ iced' = iced /\ fails' \in Nat
      BY <2>1 DEF Release, IInv, TypeOK
    <3> QED  BY <1>1, <3>1, <3>2 DEF IInv, TypeOK
  <2>2. CASE ~Release  BY <1>1, <2>2 DEF IInv, TypeOK, FakeOffer, IceChanges, IceFails, env
  <2> QED  BY <2>1, <2>2
<1>3. Guarded'
  <2>1. CASE Release
    <3> SUFFICES ASSUME leave' = "no", ~spent', ~taken', \E c \in Checks : check'[c].at = "spent"
                 PROVE  iced' > 0 \/ \E r \in Calls : call'[r].at \in {"exit", "wait"}
      BY DEF Guarded
    <3>1. ~taken /\ stream \notin {"new", "ready", "lost"} /\ iced' = iced
      BY <2>1 DEF Release
    <3> QED  BY <1>1, <3>1 DEF IInv, Guarded
  <2>2. CASE IceFails
    <3>1. iced' > 0  BY <2>2 DEF IceFails, IInv, TypeOK
    <3> QED  BY <3>1 DEF Guarded
  <2>3. CASE FakeOffer \/ IceChanges
    BY <2>3 DEF Guarded, FakeOffer, IceChanges
  <2> QED  BY <2>1, <2>2, <2>3
<1> QED  BY <1>1, <1>2, <1>3, QuietOK

LEMMA OnIceFailedOK == ASSUME IInv, OnIceFailed PROVE IInv'
<1> DEFINE k == NewCall
<1>1. /\ iced > 0 /\ iced' = iced - 1 /\ rel' \in {rel, rel + 1} /\ exits' = exits + 1
      /\ call' = [call EXCEPT ![k] = [at |-> "exit", time |-> MaxTimes]]
      /\ UNCHANGED <<check, wg, first, leave, stream, fails, spent, taken, dead>>
  BY DEF OnIceFailed, FakePublisherReConnect
<1>2. k \in Calls /\ call[k] = None
  BY DEF OnIceFailed, FakePublisherReConnect, CallFree, NewCall
<1> HIDE DEF k
<1>3. TypeOK /\ MaxTimes \in Times  BY DEF IInv
<1>4. /\ call' \in [Calls -> Call] /\ Cardinality(Pending') = Cardinality(Pending) + 1
      /\ \E r \in Calls : call'[r].at = "exit"
  BY <1>1, <1>2, <1>3, OneMoreCall
<1>5. Running' = Running  BY <1>1 DEF Running
<1>6. TypeOK'  BY <1>1, <1>3, <1>4 DEF TypeOK
<1>7. Signals'  BY <1>1, <1>3, <1>4, <1>5, Counted DEF IInv, Signals, TypeOK
<1>8. Guarded'  BY <1>4 DEF Guarded
<1> QED  BY <1>6, <1>7, <1>8 DEF IInv

LEMMA NextOK == ASSUME IInv, [Next]_vars PROVE IInv'
<1>1. CASE UNCHANGED vars
  <2>1. UNCHANGED <<check, call, exits, wg, first, leave, stream, env, dead>>
    BY <1>1 DEF vars
  <2> QED  BY <2>1, ReusedOK DEF IInv, TypeOK
<1>2. CASE Next
  BY <1>2, FakePublishOK, LeaveOK, WaitOK, ReturnOK, AskAgainOK, FireOK, ReadyOK,
     ExitOK, StreamOK, OnIceFailedOK DEF Next
<1> QED  BY <1>1, <1>2

LEMMA Invariance == Spec => []IInv
<1>1. Init => IInv  BY InitOK
<1>2. IInv /\ [Next]_vars => IInv'  BY NextOK
<1> QED  BY <1>1, <1>2, PTL DEF Spec

-----------------------------------------------------------------------------
(* Who is in waitGroup.Wait.                                               *)

\* The counter is not zero while someone is in Wait: whoever brings it to zero releases
\* everyone (WakeUp).
Held == (leave = "wait" \/ \E r \in Calls : call[r].at = "wait") => wg > 0

\* Only Wait and LeaveWait enter it, and see the counter; only Exit lowers the counter.
LEMMA EntersHeld ==
  ASSUME IInv, Held, wg' \in Nat, wg' >= wg,
         leave' = "wait" => leave = "wait" \/ wg' > 0,
         \A r \in Calls : call'[r].at = "wait" => call[r].at = "wait" \/ wg' > 0
  PROVE  Held'
<1>1. wg \in Nat  BY DEF IInv, TypeOK
<1> QED  BY <1>1 DEF Held

LEMMA WaitHeld == ASSUME IInv, Held, NEW r \in Calls, Wait(r) PROVE Held'
<1>1. wg \in Nat /\ wg' = wg /\ leave' = leave /\ call \in [Calls -> Call]
  BY DEF Wait, IInv, TypeOK
<1>2. call'[r].at = "wait" => wg' > 0  BY <1>1 DEF Wait, Call
<1>3. \A q \in Calls \ {r} : call'[q] = call[q]  BY <1>1 DEF Wait
<1> QED  BY <1>1, <1>2, <1>3, EntersHeld

LEMMA ExitHeld == ASSUME IInv, Held, NEW c \in Checks, Exit(c), IInv' PROVE Held'
<1>1. wg' \in Nat  BY DEF IInv, TypeOK
<1>2. CASE wg' = 0
  <2>1. leave' # "wait"  BY <1>2 DEF Exit, WakeUp
  <2>2. \A r \in Calls : call'[r].at # "wait"
    BY <1>2 DEF Exit, WakeUp, IInv, TypeOK, Call
  <2> QED  BY <2>1, <2>2 DEF Held
<1>3. CASE wg' > 0  BY <1>3 DEF Held
<1> QED  BY <1>1, <1>2, <1>3

\* FakePublisherReConnect begins a call at its exit signal.
LEMMA CalledHeld ==
  ASSUME IInv, Held, UNCHANGED <<wg, leave>>, NEW time, FakePublisherReConnect(time)
  PROVE  Held'
<1>1. wg \in Nat /\ call \in [Calls -> Call]  BY DEF IInv, TypeOK
<1>2. call' = [call EXCEPT ![NewCall] = [at |-> "exit", time |-> time]]
  BY DEF FakePublisherReConnect
<1>3. \A r \in Calls : call'[r].at = "wait" => call[r].at = "wait"  BY <1>1, <1>2
<1> QED  BY <1>1, <1>3, EntersHeld

\* A check goroutine asks again, or leaves the calls alone.
LEMMA CheckHeld == ASSUME IInv, Held, NEW c \in Checks, Fire(c) \/ Ready(c) PROVE Held'
<1>1. wg \in Nat /\ UNCHANGED <<wg, leave>>  BY DEF Fire, Ready, IInv, TypeOK
<1>2. \/ call' = call
      \/ FakePublisherReConnect(check[c].time - 1)
  BY DEF Fire, Ready, TryAgain
<1>3. CASE call' = call  BY <1>1, <1>3, EntersHeld
<1> QED  BY <1>1, <1>2, <1>3, CalledHeld

LEMMA LeaveHeld == ASSUME IInv, Held, DoLeave \/ LeaveWait \/ LeaveReturn PROVE Held'
<1>1. wg \in Nat  BY DEF IInv, TypeOK
<1>2. wg' = wg /\ call' = call /\ (leave' = "wait" => leave = "wait" \/ wg' > 0)
  BY <1>1 DEF DoLeave, LeaveWait, LeaveReturn, Reused
<1> QED  BY <1>1, <1>2, EntersHeld

\* The steps that start a check goroutine, end a call or change no goroutine.
LEMMA OtherHeld ==
  ASSUME IInv, Held,
         \/ FakePublish \/ FakeOffer \/ IceChanges \/ IceFails \/ Release
         \/ \E r \in Calls : Return(r) \/ AskAgain(r)
         \/ UNCHANGED vars
  PROVE  Held'
<1>1. wg \in Nat /\ call \in [Calls -> Call]  BY DEF IInv, TypeOK
<1>2. CASE \E r \in Calls : Return(r) \/ AskAgain(r)
  <2>1. PICK r \in Calls : Return(r) \/ AskAgain(r)  BY <1>2
  <2>2. leave' = leave /\ wg' \in {wg, wg + 1}
    BY <2>1 DEF Return, AskAgain, Reused, FakeSubscribe
  <2>3. \/ call' = call
        \/ call' = [call EXCEPT ![r].at = "ask"]
        \/ call' = [call EXCEPT ![r] = None]
    BY <2>1 DEF Return, AskAgain, Reused
  <2>4. \A q \in Calls : call'[q].at = "wait" => call[q].at = "wait"
    BY <1>1, <2>3 DEF None, Call
  <2> QED  BY <1>1, <2>2, <2>4, EntersHeld
<1>3. CASE ~ \E r \in Calls : Return(r) \/ AskAgain(r)
  <2>1. UNCHANGED <<call, leave>> /\ wg' \in {wg, wg + 1}
    BY <1>3 DEF FakePublish, FakeSubscribe, FakeOffer, IceChanges, IceFails, Release, vars
  <2> QED  BY <1>1, <2>1, EntersHeld
<1> QED  BY <1>2, <1>3

LEMMA NextHeld == ASSUME IInv, Held, [Next]_vars PROVE Held'
<1>1. IInv'  BY NextOK
<1>2. CASE OnIceFailed  BY <1>2, CalledHeld DEF OnIceFailed
<1>3. CASE [Next]_vars /\ ~OnIceFailed
  BY <1>1, <1>3, WaitHeld, ExitHeld, CheckHeld, LeaveHeld, OtherHeld DEF Next
<1> QED  BY <1>2, <1>3

LEMMA HeldInvariant == Spec => [](IInv /\ Held)
<1>1. ASSUME Init PROVE IInv /\ Held
  <2>1. leave = "no" /\ \A r \in Calls : call[r].at = "none"  BY <1>1 DEF Init, None
  <2> QED  BY <1>1, <2>1, InitOK DEF Held
<1>2. IInv /\ Held /\ [Next]_vars => (IInv /\ Held)'  BY NextOK, NextHeld
<1> QED  BY <1>1, <1>2, PTL DEF Spec

-----------------------------------------------------------------------------
(* The theorems.                                                           *)

\* The state keeps its type: no goroutine takes a signal, or leaves the WaitGroup,
\* that is not there.
THEOREM FakeReconnectTyped == Spec => []TypeOK
<1>1. IInv => TypeOK  BY DEF IInv
<1> QED  BY <1>1, Invariance, PTL

\* Signals and goroutines match, for any number of reconnections at a time.
THEOREM SignalsMatch == Spec => []Signals
<1>1. IInv => Signals  BY DEF IInv
<1> QED  BY <1>1, Invariance, PTL

\* Nobody is in waitGroup.Wait without a goroutine to wait for and a signal that is to
\* end one: no wake-up of DoLeave or of a reconnection is lost (Waited).
THEOREM NoLostWakeUp == Spec => []Waited
<1>1. ASSUME IInv, Held PROVE Waited
  <2> SUFFICES ASSUME leave = "wait" \/ \E r \in Calls : call[r].at = "wait"
               PROVE  wg > 0 /\ exits > 0
    BY DEF Waited
  <2>1. wg > 0  BY <1>1 DEF Held
  <2>2. wg \in Nat /\ exits \in Nat  BY <1>1 DEF IInv, TypeOK
  <2>3. CASE leave = "wait"
    BY <1>1, <2>1, <2>2, <2>3, Counted DEF IInv, Signals
  <2>4. CASE \E r \in Calls : call[r].at = "wait"
    <3>1. Pending # {}  BY <2>4 DEF Pending
    <3>2. Cardinality(Pending) > 0  BY <3>1, Counted, FS_EmptySet
    <3> QED  BY <1>1, <2>1, <2>2, <3>2, Counted DEF IInv, Signals
  <2> QED  BY <2>1, <2>3, <2>4
<1> QED  BY <1>1, HeldInvariant, PTL

\* A session that is in its room does not forget its stream (Asking).
THEOREM StreamNotForgotten == Spec => []Asking
<1>1. ASSUME IInv PROVE Asking
  <2> SUFFICES ASSUME leave = "no", ~first, Pending = {}, ~spent, ~taken,
                      \A c \in Checks : check[c].at \notin {"timer", "found"}
               PROVE  stream \in {"new", "ready", "lost"} \/ iced > 0
    BY DEF Asking
  <2>1. Cardinality(Pending) = 0  BY FS_EmptySet
  <2>2. wg > 0  BY <1>1, <2>1 DEF IInv, Signals, TypeOK
  <2>3. Running # {}  BY <1>1, <2>2, FS_EmptySet DEF IInv, Signals
  <2>4. \E c \in Checks : check[c].at = "spent"
    BY <1>1, <2>3 DEF IInv, TypeOK, Check, Running
  <2>5. \A r \in Calls : call[r].at \notin {"exit", "wait"}  BY DEF Pending
  <2> QED  BY <1>1, <2>4, <2>5 DEF IInv, Guarded
<1> QED  BY <1>1, Invariance, PTL

=============================================================================
