---------------------------- MODULE Registration ----------------------------
(* How a pod registers with the load balancer: the regist flag, the        *)
(* cluster id and the StartRegistToLB goroutines of roommgr.go, driven by  *)
(* the receivers that run HandleMessage, and the start of the process      *)
(* (mediaserver.go), in which the receivers come up before                 *)
(* SetSendMessageHandler has been called.                                  *)
(*                                                                         *)
(* The load balancer is external: it answers podregist requests, as late   *)
(* as it likes, and broadcasts podregistnow when it has restarted.         *)
EXTENDS Naturals

CONSTANTS
  ClusterIds,   \* cluster ids the load balancer hands out
  NoCluster,    \* the empty cluster id
  Receivers,    \* goroutines that run HandleMessage
  MaxNet,       \* bound on podregist messages in flight, in each direction
  MaxRestart    \* bound on restarts of the load balancer

ASSUME ClusterAssumption == NoCluster \notin ClusterIds

ASSUME LimitAssumption == MaxNet \in Nat /\ MaxRestart \in Nat

\* What HandleMessage tells apart: a podregist answer with code 0 (with or
\* without cluster id), one with another code, podregistnow, any other command.
Message == [cmd: {"accepted"}, cluster: ClusterIds \cup {NoCluster}]
           \cup [cmd: {"refused", "registnow", "other"}, cluster: {NoCluster}]

NoMsg == [cmd |-> "none", cluster |-> NoCluster]

VARIABLES
  lbmode,      \* the MQTT topic has 36 characters
  started,     \* SetSendMessageHandler has run
  regist,      \* roommgr.regist
  cluster,     \* conf.Clusterid
  registrars,  \* goroutines in the loop of StartRegistToLB
  pc, msg,     \* receiver -> step of HandleMessage, message in hand
  requests,    \* podregist requests the load balancer has not answered
  answers,     \* its answers that have not been received
  restarts,    \* how often the load balancer has restarted
  nows         \* its podregistnow broadcasts that have not been received

vars == <<lbmode, started, regist, cluster, registrars, pc, msg, requests,
          answers, restarts, nows>>
net == <<requests, answers, restarts, nows>>

TypeOK ==
  /\ lbmode \in BOOLEAN /\ started \in BOOLEAN /\ regist \in BOOLEAN
  /\ cluster \in ClusterIds \cup {NoCluster}
  /\ registrars \in Nat
  /\ pc \in [Receivers -> {"idle", "closed", "open", "stop", "dead"}]
  /\ msg \in [Receivers -> Message \cup {NoMsg}]
  /\ requests \in 0 .. MaxNet /\ answers \in 0 .. MaxNet
  /\ restarts \in 0 .. MaxRestart /\ nows \in 0 .. restarts

\* CreateRoomMgr; the configuration may name a cluster id.
Init ==
  /\ lbmode \in BOOLEAN
  /\ cluster \in ClusterIds \cup {NoCluster}
  /\ started = FALSE /\ regist = FALSE
  /\ registrars = 0
  /\ pc = [t \in Receivers |-> "idle"]
  /\ msg = [t \in Receivers |-> NoMsg]
  /\ requests = 0 /\ answers = 0 /\ restarts = 0 /\ nows = 0

Crashed == \E t \in Receivers : pc[t] = "dead"

-----------------------------------------------------------------------------

\* The send handler is set, and the pod starts to register with the load
\* balancer, or counts as registered when it is not behind one.
SetSendMessageHandler ==
  /\ ~started /\ ~Crashed
  /\ started' = TRUE
  /\ IF lbmode THEN registrars' = registrars + 1 /\ UNCHANGED regist
               ELSE regist' = TRUE /\ UNCHANGED registrars
  /\ UNCHANGED <<lbmode, cluster, pc, msg, net>>

\* HandleMessage starts: one message, and one look at rm.regist.
Receive(t) ==
  /\ pc[t] = "idle"
  /\ \E m \in Message :
       /\ \/ m.cmd \in {"accepted", "refused"} /\ answers > 0
             /\ answers' = answers - 1 /\ UNCHANGED nows
          \/ m.cmd = "registnow" /\ nows > 0
             /\ nows' = nows - 1 /\ UNCHANGED answers
          \/ m.cmd = "other" /\ UNCHANGED <<answers, nows>>
       /\ msg' = [msg EXCEPT ![t] = m]
  /\ pc' = [pc EXCEPT ![t] = IF regist THEN "open" ELSE "closed"]
  /\ UNCHANGED <<lbmode, started, regist, cluster, registrars, requests, restarts>>

Return(t) == /\ pc' = [pc EXCEPT ![t] = "idle"]
             /\ msg' = [msg EXCEPT ![t] = NoMsg]

\* Mutant: an answer without cluster id registers a pod that has none either.
PodRegist_AnyCluster(t) ==
  /\ pc[t] \in {"open", "closed"} /\ msg[t].cmd \in {"accepted", "refused"}
  /\ IF msg[t].cmd = "refused"
       THEN Return(t) /\ UNCHANGED <<cluster, regist>>
       ELSE /\ cluster' = IF msg[t].cluster # NoCluster THEN msg[t].cluster ELSE cluster
            /\ regist' = TRUE
            /\ pc' = [pc EXCEPT ![t] = "stop"]
            /\ UNCHANGED msg
  /\ UNCHANGED <<lbmode, started, registrars, net>>

\* The podregist answer, handled the same way whatever regist was: the flag is
\* set before the receiver tells a StartRegistToLB goroutine to stop.
PodRegist(t) ==
  /\ pc[t] \in {"open", "closed"} /\ msg[t].cmd \in {"accepted", "refused"}
  /\ IF msg[t].cmd = "refused" \/ (msg[t].cluster = NoCluster /\ cluster = NoCluster)
       THEN Return(t) /\ UNCHANGED <<cluster, regist>>
       ELSE /\ cluster' = IF msg[t].cluster # NoCluster THEN msg[t].cluster ELSE cluster
            /\ regist' = TRUE
            /\ pc' = [pc EXCEPT ![t] = "stop"]
            /\ UNCHANGED msg
  /\ UNCHANGED <<lbmode, started, registrars, net>>

\* Mutant: the stop signal is given whether or not a goroutine takes it.
StopRegist_NoWait(t) ==
  /\ pc[t] = "stop"
  /\ registrars' = registrars - 1
  /\ Return(t)
  /\ UNCHANGED <<lbmode, started, regist, cluster, net>>

\* rm.stopRegist <- 0: the channel has no buffer, so the receiver stays here
\* until some StartRegistToLB goroutine takes the value, and that one ends.
StopRegist(t) ==
  /\ pc[t] = "stop" /\ registrars > 0
  /\ registrars' = registrars - 1
  /\ Return(t)
  /\ UNCHANGED <<lbmode, started, regist, cluster, net>>

\* Mutant: a goroutine is started whether or not the pod is registered.
PodRegistNow_Always(t) ==
  /\ pc[t] \in {"open", "closed"} /\ msg[t].cmd = "registnow"
  /\ regist' = FALSE /\ registrars' = registrars + 1
  /\ Return(t)
  /\ UNCHANGED <<lbmode, started, cluster, net>>

\* podregistnow: the load balancer has restarted, so register again.
PodRegistNow(t) ==
  /\ pc[t] \in {"open", "closed"} /\ msg[t].cmd = "registnow"
  /\ IF regist THEN regist' = FALSE /\ registrars' = registrars + 1
               ELSE UNCHANGED <<regist, registrars>>
  /\ Return(t)
  /\ UNCHANGED <<lbmode, started, cluster, net>>

\* Any other command: served (elsewhere) or answered "not available" through
\* the send handler, a nil function until SetSendMessageHandler has run.
OtherCommand(t) ==
  /\ pc[t] \in {"open", "closed"} /\ msg[t].cmd = "other"
  /\ IF pc[t] = "closed" /\ ~started
       THEN /\ pc' = [r \in Receivers |-> "dead"]
            /\ msg' = [r \in Receivers |-> NoMsg]
       ELSE Return(t)
  /\ UNCHANGED <<lbmode, started, regist, cluster, registrars, net>>

\* Mutant: the goroutine ends after its first tick.
Tick_Once ==
  /\ registrars > 0 /\ ~Crashed
  /\ registrars' = registrars - 1
  /\ IF regist THEN UNCHANGED requests
               ELSE requests < MaxNet /\ requests' = requests + 1
  /\ UNCHANGED <<lbmode, started, regist, cluster, pc, msg, answers, restarts, nows>>

\* A 5 second tick of a StartRegistToLB goroutine.
Tick ==
  /\ registrars > 0 /\ ~Crashed
  /\ IF regist THEN registrars' = registrars - 1 /\ UNCHANGED requests
               ELSE /\ requests < MaxNet /\ requests' = requests + 1
                    /\ UNCHANGED registrars
  /\ UNCHANGED <<lbmode, started, regist, cluster, pc, msg, answers, restarts, nows>>

-----------------------------------------------------------------------------
(* The load balancer and the network.                                      *)

LBAnswer ==
  /\ requests > 0 /\ answers < MaxNet
  /\ requests' = requests - 1 /\ answers' = answers + 1
  /\ UNCHANGED <<lbmode, started, regist, cluster, registrars, pc, msg, restarts, nows>>

\* A request is lost: the pod was not connected, or the load balancer was away.
LoseRequest ==
  /\ requests > 0 /\ requests' = requests - 1
  /\ UNCHANGED <<lbmode, started, regist, cluster, registrars, pc, msg, answers,
                 restarts, nows>>

LBRestart ==
  /\ restarts < MaxRestart
  /\ restarts' = restarts + 1 /\ nows' = nows + 1
  /\ UNCHANGED <<lbmode, started, regist, cluster, registrars, pc, msg, requests, answers>>

Handle(t) == PodRegist(t) \/ PodRegistNow(t) \/ OtherCommand(t) \/ StopRegist(t)

Next ==
  \/ SetSendMessageHandler \/ Tick
  \/ \E t \in Receivers : Receive(t) \/ Handle(t)
  \/ LBAnswer \/ LoseRequest \/ LBRestart

Spec == Init /\ [][Next]_vars

\* The process gets to its send handler, goroutines run, the ticker ticks, and
\* the load balancer is willing: if asked again and again it answers, and among
\* its answers are accepting ones with a cluster id.
Accepted(t) == \E c \in ClusterIds :
                 Receive(t) /\ msg' = [msg EXCEPT ![t] = [cmd |-> "accepted", cluster |-> c]]

Fairness ==
  /\ WF_vars(SetSendMessageHandler) /\ SF_vars(Tick) /\ SF_vars(LBAnswer)
  /\ \A t \in Receivers : WF_vars(Handle(t)) /\ SF_vars(Accepted(t))

FairSpec == Spec /\ Fairness

-----------------------------------------------------------------------------
(* Properties.                                                             *)

\* A pod behind a load balancer that counts as registered knows its cluster:
\* what it puts in roomcreated and fakepublish messages (roommgr.go 81-90,
\* 154-163) is never the empty id, in whatever order answers arrive.
RegisteredHasCluster == regist /\ lbmode => cluster # NoCluster

\* Until a pod counts as registered for the first time there is a goroutine
\* that goes on asking, so its first registration cannot be given up
\* (StartRegistToLB ends only on a stop signal or once regist is set).
AsksUntilAccepted ==
  started /\ lbmode /\ ~regist /\ restarts = 0 => registrars > 0

\* Nobody asks any more, and nothing is left of what was asked: a stop signal that an
\* older answer had left over has ended the goroutine of a later podregistnow.
GivenUp ==
  /\ started /\ ~regist /\ registrars = 0
  /\ requests = 0 /\ answers = 0
  /\ \A t \in Receivers : msg[t].cmd = "accepted" => pc[t] = "stop"

\* That is for good: neither an answer that is still in hand, nor a receiver that is
\* still blocked, nor another restart of the load balancer gets the pod registered, as
\* podregistnow starts a goroutine only if regist is set (roommgr.go 167).
GivenUpForGood == [][GivenUp => GivenUp']_vars

\* A pod gets registered once, unless it crashes before: lost requests, refusals
\* and answers without cluster id only delay it (StartRegistToLB asks again).
FirstRegistration == <>(regist \/ Crashed)

\* A pod told to register anew (roommgr.go 95, 168: "must be LB restart,
\* startup goroutine to regist") gets registered again.
RegistersAgain == (started /\ ~regist) ~> (regist \/ Crashed)

=============================================================================
