------------------------ MODULE RegistrationProofs ------------------------
(* Proofs about Registration, for any set of receivers and cluster ids.    *)
EXTENDS Registration, TLAPS

\* Before the load balancer's first restart there is no podregistnow anywhere,
\* so nothing resets regist between its being set and the stop signal.
Quiet == restarts = 0 =>
           /\ nows = 0
           /\ \A t \in Receivers : msg[t].cmd # "registnow"
           /\ \A t \in Receivers : pc[t] = "stop" => regist

IInv == TypeOK /\ Quiet /\ RegisteredHasCluster /\ AsksUntilAccepted

\* A receiver at work on a message: the steps of HandleMessage.
LEMMA HandleStep ==
  ASSUME IInv, NEW t \in Receivers, Handle(t)
  PROVE  IInv'
<1> USE ClusterAssumption, LimitAssumption DEF IInv
<1>1. CASE PodRegist(t)
  <2>1. msg[t] \in Message
    BY <1>1 DEF PodRegist, TypeOK, NoMsg
  <2>2. /\ UNCHANGED <<lbmode, started, registrars, requests, answers, restarts, nows>>
        /\ \/ Return(t) /\ UNCHANGED <<cluster, regist>>
           \/ /\ regist' = TRUE /\ cluster' \in ClusterIds
              /\ pc' = [pc EXCEPT ![t] = "stop"] /\ UNCHANGED msg
    BY <1>1, <2>1 DEF PodRegist, net, TypeOK, Message
  <2>3. TypeOK'
    BY <2>2 DEF TypeOK, Return
  <2>4. Quiet'
    BY <2>2 DEF Quiet, Return, TypeOK, NoMsg
  <2>5. RegisteredHasCluster' /\ AsksUntilAccepted'
    BY <2>2 DEF RegisteredHasCluster, AsksUntilAccepted
  <2> QED BY <2>3, <2>4, <2>5
<1>2. CASE PodRegistNow(t)
  <2>1. restarts # 0
    BY <1>2 DEF PodRegistNow, Quiet
  <2>2. TypeOK'
    <3>1. CASE regist
      <4>1. regist' = FALSE /\ registrars' = registrars + 1 /\ registrars \in Nat
        BY <1>2, <3>1 DEF PodRegistNow, TypeOK
      <4>2. /\ pc' \in [Receivers -> {"idle", "closed", "open", "stop", "dead"}]
            /\ msg' \in [Receivers -> Message \cup {NoMsg}]
        BY <1>2 DEF PodRegistNow, TypeOK, Return
      <4>3. UNCHANGED <<lbmode, started, cluster, requests, answers, restarts, nows>>
        BY <1>2 DEF PodRegistNow, net
      <4>4. lbmode' \in BOOLEAN /\ started' \in BOOLEAN /\ regist' \in BOOLEAN
        BY <4>1, <4>3 DEF TypeOK
      <4>5. registrars' \in Nat
        BY <4>1
      <4>6. /\ cluster' \in ClusterIds \cup {NoCluster}
            /\ requests' \in 0 .. MaxNet /\ answers' \in 0 .. MaxNet
            /\ restarts' \in 0 .. MaxRestart /\ nows' \in 0 .. restarts'
        BY <4>3 DEF TypeOK
      <4> QED BY <4>2, <4>4, <4>5, <4>6 DEF TypeOK
    <3>2. CASE ~regist
      BY <1>2, <3>2 DEF PodRegistNow, TypeOK, Return, net
    <3> QED BY <3>1, <3>2
  <2>3. Quiet' /\ RegisteredHasCluster' /\ AsksUntilAccepted'
    BY <1>2, <2>1 DEF PodRegistNow, Quiet, RegisteredHasCluster, AsksUntilAccepted, net
  <2> QED BY <2>2, <2>3
<1>3. CASE OtherCommand(t)
  <2>1. UNCHANGED <<lbmode, started, regist, cluster, registrars, requests, answers,
                    restarts, nows>>
    BY <1>3 DEF OtherCommand, net
  <2>2. TypeOK'
    BY <1>3, <2>1 DEF OtherCommand, TypeOK, Return
  <2>3. Quiet'
    BY <1>3, <2>1 DEF OtherCommand, Quiet, Return, TypeOK, NoMsg
  <2>4. RegisteredHasCluster' /\ AsksUntilAccepted'
    BY <2>1 DEF RegisteredHasCluster, AsksUntilAccepted
  <2> QED BY <2>2, <2>3, <2>4
<1>4. CASE StopRegist(t)
  <2>1. restarts = 0 => regist
    BY <1>4 DEF StopRegist, Quiet
  <2>2. TypeOK'
    BY <1>4 DEF StopRegist, TypeOK, Return, net
  <2>3. Quiet'
    BY <1>4 DEF StopRegist, Quiet, Return, TypeOK, NoMsg, net
  <2>4. RegisteredHasCluster' /\ AsksUntilAccepted'
    BY <1>4, <2>1 DEF StopRegist, RegisteredHasCluster, AsksUntilAccepted, net
  <2> QED BY <2>2, <2>3, <2>4
<1> QED BY <1>1, <1>2, <1>3, <1>4 DEF Handle

\* Every step keeps the inductive invariant.
LEMMA NextIInv == IInv /\ [Next]_vars => IInv'
<1> SUFFICES ASSUME IInv, [Next]_vars PROVE IInv'
  OBVIOUS
<1> USE ClusterAssumption, LimitAssumption DEF IInv
<1>1. CASE SetSendMessageHandler
  <2>1. TypeOK'
    <3>1. CASE lbmode
      BY <1>1, <3>1 DEF SetSendMessageHandler, TypeOK, net
    <3>2. CASE ~lbmode
      BY <1>1, <3>2 DEF SetSendMessageHandler, TypeOK, net
    <3> QED BY <3>1, <3>2
  <2>2. Quiet'
    BY <1>1 DEF SetSendMessageHandler, Quiet, net
  <2>3. RegisteredHasCluster' /\ AsksUntilAccepted'
    BY <1>1 DEF SetSendMessageHandler, RegisteredHasCluster, AsksUntilAccepted, TypeOK, net
  <2> QED BY <2>1, <2>2, <2>3
<1>2. CASE Tick
  <2>1. TypeOK'
    BY <1>2 DEF Tick, TypeOK
  <2>2. Quiet' /\ RegisteredHasCluster'
    BY <1>2 DEF Tick, Quiet, RegisteredHasCluster
  <2>3. AsksUntilAccepted'
    BY <1>2 DEF Tick, AsksUntilAccepted
  <2> QED BY <2>1, <2>2, <2>3
<1>3. ASSUME NEW t \in Receivers, Receive(t) PROVE IInv'
  <2>1. TypeOK'
    BY <1>3 DEF Receive, TypeOK
  <2>2. Quiet'
    BY <1>3 DEF Receive, Quiet, TypeOK
  <2>3. RegisteredHasCluster' /\ AsksUntilAccepted'
    BY <1>3 DEF Receive, RegisteredHasCluster, AsksUntilAccepted
  <2> QED BY <2>1, <2>2, <2>3
<1>4. ASSUME NEW t \in Receivers, Handle(t) PROVE IInv'
  BY <1>4, HandleStep
<1>5. CASE LBAnswer \/ LoseRequest
  <2>1. TypeOK'
    BY <1>5 DEF LBAnswer, LoseRequest, TypeOK
  <2>2. Quiet' /\ RegisteredHasCluster' /\ AsksUntilAccepted'
    BY <1>5 DEF LBAnswer, LoseRequest, Quiet, RegisteredHasCluster, AsksUntilAccepted
  <2> QED BY <2>1, <2>2
<1>6. CASE LBRestart
  <2>1. TypeOK' /\ restarts' # 0
    BY <1>6 DEF LBRestart, TypeOK
  <2>2. Quiet' /\ RegisteredHasCluster' /\ AsksUntilAccepted'
    BY <1>6, <2>1 DEF LBRestart, Quiet, RegisteredHasCluster, AsksUntilAccepted
  <2> QED BY <2>1, <2>2
<1>7. CASE UNCHANGED vars
  BY <1>7 DEF vars, TypeOK, Quiet, RegisteredHasCluster, AsksUntilAccepted
<1> QED BY <1>1, <1>2, <1>3, <1>4, <1>5, <1>6, <1>7 DEF Next

\* The inductive invariant holds at the start.
LEMMA InitIInv == Init => IInv
<1> SUFFICES ASSUME Init PROVE IInv
  OBVIOUS
<1>1. TypeOK
  <2>1. /\ pc \in [Receivers -> {"idle", "closed", "open", "stop", "dead"}]
        /\ msg \in [Receivers -> Message \cup {NoMsg}]
    BY DEF Init
  <2>2. /\ requests \in 0 .. MaxNet /\ answers \in 0 .. MaxNet
        /\ restarts \in 0 .. MaxRestart /\ nows \in 0 .. restarts /\ registrars \in Nat
    BY LimitAssumption DEF Init
  <2>3. regist \in BOOLEAN /\ started \in BOOLEAN /\ lbmode \in BOOLEAN
    BY DEF Init
  <2> QED BY <2>1, <2>2, <2>3 DEF TypeOK, Init
<1>2. Quiet
  BY DEF Init, Quiet, NoMsg
<1>3. RegisteredHasCluster /\ AsksUntilAccepted
  BY DEF Init, RegisteredHasCluster, AsksUntilAccepted
<1> QED BY <1>1, <1>2, <1>3 DEF IInv

\* Registration: a registered pod behind a load balancer has a cluster id.
THEOREM RegisteredHasClusterHolds == Spec => []RegisteredHasCluster
<1>1. IInv => RegisteredHasCluster
  BY DEF IInv
<1> QED BY <1>1, InitIInv, NextIInv, PTL DEF Spec

\* Registration: until its first registration a pod keeps a goroutine asking.
THEOREM AsksUntilAcceptedHolds == Spec => []AsksUntilAccepted
<1>1. IInv => AsksUntilAccepted
  BY DEF IInv
<1> QED BY <1>1, InitIInv, NextIInv, PTL DEF Spec

\* Registration: every variable keeps its type.
THEOREM RegistrationTyped == Spec => []TypeOK
<1>1. IInv => TypeOK
  BY DEF IInv
<1> QED BY <1>1, InitIInv, NextIInv, PTL DEF Spec

\* A step that receives no answer, accepts none and starts no goroutine.
LEMMA StaysGivenUp ==
  ASSUME GivenUp, UNCHANGED <<started, regist, registrars>>, requests' = 0, answers' = 0,
         \A t \in Receivers :
           (msg'[t].cmd = "accepted" => msg[t].cmd = "accepted" /\ pc'[t] = pc[t])
  PROVE  GivenUp'
BY DEF GivenUp

\* The receivers: what they still have in hand is no accepting answer.
LEMMA ReceiverGivenUp ==
  ASSUME IInv, GivenUp, NEW t \in Receivers, Receive(t) \/ Handle(t)
  PROVE  GivenUp'
<1> USE DEF GivenUp
<1>1. /\ pc \in [Receivers -> {"idle", "closed", "open", "stop", "dead"}]
      /\ msg \in [Receivers -> Message \cup {NoMsg}]
  BY DEF IInv, TypeOK
<1>2. CASE Receive(t)
  <2> DEFINE Taken(m) == /\ \/ m.cmd \in {"accepted", "refused"} /\ answers > 0
                               /\ answers' = answers - 1 /\ UNCHANGED nows
                            \/ m.cmd = "registnow" /\ nows > 0
                               /\ nows' = nows - 1 /\ UNCHANGED answers
                            \/ m.cmd = "other" /\ UNCHANGED <<answers, nows>>
                         /\ msg' = [msg EXCEPT ![t] = m]
  <2>0. PICK m \in Message : Taken(m)  BY <1>2 DEF Receive
  <2>1. m.cmd # "accepted" /\ answers' = answers /\ msg' = [msg EXCEPT ![t] = m]
    BY <2>0
  <2>2. \A r \in Receivers \ {t} : pc'[r] = pc[r]  BY <1>1, <1>2 DEF Receive
  <2>3. UNCHANGED <<started, regist, registrars, requests>>  BY <1>2 DEF Receive
  <2> QED  BY <1>1, <2>1, <2>2, <2>3, StaysGivenUp
<1>3. CASE PodRegist(t) \/ PodRegistNow(t)
  <2>1. Return(t) /\ UNCHANGED <<started, regist, registrars, requests, answers>>
    BY <1>3 DEF PodRegist, PodRegistNow, net
  <2> QED  BY <1>1, <2>1, StaysGivenUp DEF Return, NoMsg
<1>4. CASE OtherCommand(t)
  <2>1. UNCHANGED <<started, regist, registrars, requests, answers>>
    BY <1>4 DEF OtherCommand, net
  <2>2. \A r \in Receivers : \/ msg'[r] = NoMsg
                             \/ msg'[r] = msg[r] /\ pc'[r] = pc[r]
    <3>1. CASE Return(t)  BY <1>1, <3>1 DEF Return
    <3>2. CASE msg' = [r \in Receivers |-> NoMsg]  BY <3>2
    <3> QED  BY <1>4, <3>1, <3>2 DEF OtherCommand
  <2> QED  BY <2>1, <2>2, StaysGivenUp DEF NoMsg
<1>5. ~StopRegist(t)  BY DEF StopRegist
<1> QED  BY <1>2, <1>3, <1>4, <1>5 DEF Handle

LEMMA NextGivenUp == ASSUME IInv, GivenUp, [Next]_vars PROVE GivenUp'
<1>1. CASE \E t \in Receivers : Receive(t) \/ Handle(t)  BY <1>1, ReceiverGivenUp
<1>2. CASE SetSendMessageHandler \/ Tick \/ LBAnswer \/ LoseRequest
  BY <1>2 DEF GivenUp, SetSendMessageHandler, Tick, LBAnswer, LoseRequest
<1>3. CASE LBRestart \/ UNCHANGED vars
  BY <1>3, StaysGivenUp DEF LBRestart, vars, GivenUp
<1> QED  BY <1>1, <1>2, <1>3 DEF Next

\* Registration: a registration that has been given up stays so, step by step, however
\* often the load balancer restarts.
THEOREM GivenUpForGoodHolds == Spec => GivenUpForGood
<1>1. IInv /\ [Next]_vars => [GivenUp => GivenUp']_vars  BY NextGivenUp
<1> QED BY <1>1, InitIInv, NextIInv, PTL DEF Spec, GivenUpForGood

\* Registration: from then on the pod never counts as registered again.
THEOREM NeverRegistered == Spec => [](GivenUp => [](~regist))
<1>1. IInv /\ [Next]_vars /\ GivenUp => GivenUp'  BY NextGivenUp
<1>2. GivenUp => ~regist  BY DEF GivenUp
<1> QED BY <1>1, <1>2, InitIInv, NextIInv, PTL DEF Spec


=============================================================================
