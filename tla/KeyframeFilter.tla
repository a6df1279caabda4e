--------------------------- MODULE KeyframeFilter ---------------------------
(* The keyframe request filter of a publisher (keyframerequestfilter.go)   *)
(* and those who use it (peer.go): the ICE callbacks, which start it up    *)
(* and shut it down, each in a goroutine of pion's; peer.Destroy; and the  *)
(* goroutines that ask for a keyframe.  mutex guards cached and lasttime   *)
(* only: the timer and the send function are read and written without it.  *)
(*                                                                         *)
(* Time goes in units of which MinInterval make 2 s and MaxInterval 30 s;  *)
(* lasttime is kept as the time since, age, as far as it matters.          *)
EXTENDS Naturals, FiniteSets

CONSTANTS
  Callers,      \* goroutines that run ICE callbacks or Destroy
  Loops,        \* goroutines of startDelayTimer
  Timers,       \* the addresses of timers
  Nil,
  MinInterval, MaxInterval,
  MaxConnect,   \* bound on the times the connection comes up
  MaxTry,       \* bound on the requests under way
  MaxNow        \* bound on the requestKeyframeNow goroutines under way

ASSUME CallersAssumption == IsFiniteSet(Callers)
ASSUME NilAssumption == Nil \notin Timers
ASSUME TimersAssumption == "none" \notin Timers /\ "eval" \notin Timers
ASSUME IntervalAssumption == /\ MinInterval \in Nat \ {0}
                             /\ MaxInterval \in Nat /\ MaxInterval > MinInterval
ASSUME BoundAssumption == /\ MaxConnect \in Nat
                          /\ MaxTry \in Nat \ {0} /\ MaxNow \in Nat \ {0}

Reports == {"connected", "disconnected", "failed", "closed"}

VARIABLES
  tick,         \* the publisher is an origin one
  send,         \* sendRequestKeyframe is set
  timer,        \* filter.timer
  due, fired,   \* timer -> time left (0: stopped); a value is in its channel
  cached, age,  \* filter.cached; time since filter.lasttime
  holder,       \* who holds mutex over several steps: refreshMaxIntervalTimer
  loop,         \* goroutine -> "none", "eval" or the timer it waits for
  exits,        \* goroutines at exitChan <- 0
  nows, tries,  \* goroutines at the start of requestKeyframeNow, TryRequestKeyframe
  ready, conn,  \* peer.isReady, peerConnection is not nil
  ice, ups,     \* what pion reported last, and how often "connected"
  gone,         \* Destroy has been called
  pc, job,      \* caller -> its step; what it was started for, while that matters
  unready,      \* history: a Startup has found the filter not at rest
  doubled       \* history: startDelayTimer has found an earlier timer or goroutine

filter == <<send, timer, due, fired, cached, age, holder>>
goroutines == <<loop, exits, nows, tries>>
callers == <<gone, pc, job>>
history == <<unready, doubled>>
vars == <<tick, filter, goroutines, ready, conn, ice, ups, callers, history>>

Steps == {"idle", "enter", "startup", "new", "add", "shut", "wait", "blocked", "woken",
          "clear", "reset", "close", "dead"}

\* Callers in Shutdown that have sent their signal and not cleared the timer yet.
Shutting == {c \in Callers : pc[c] \in {"wait", "blocked", "woken", "clear"}}

NoHolder == [at |-> "none", d |-> 0]

TypeOK ==
  /\ tick \in BOOLEAN /\ send \in BOOLEAN
  /\ timer \in Timers \cup {Nil}
  /\ due \in [Timers -> 0 .. MaxInterval] /\ fired \in [Timers -> BOOLEAN]
  /\ cached \in BOOLEAN /\ age \in 0 .. MinInterval
  /\ holder \in [at: {"check", "arm", "reset", "add"}, d: 1 .. MaxInterval] \cup {NoHolder}
  /\ loop \in [Loops -> Timers \cup {"none", "eval"}]
  /\ exits \in Nat /\ nows \in 0 .. MaxNow /\ tries \in 0 .. MaxTry
  /\ ready \in BOOLEAN /\ conn \in BOOLEAN
  /\ ice \in Reports \cup {"new"} /\ ups \in 0 .. MaxConnect
  /\ pc \in [Callers -> Steps]
  /\ job \in [Callers -> {"up", "down", "destroy", "none"}]
  /\ gone \in BOOLEAN
  /\ unready \in BOOLEAN /\ doubled \in BOOLEAN

Init ==
  /\ tick \in BOOLEAN
  /\ send = FALSE /\ timer = Nil
  /\ due = [t \in Timers |-> 0] /\ fired = [t \in Timers |-> FALSE]
  /\ cached = FALSE /\ age = MinInterval
  /\ holder = NoHolder
  /\ loop = [g \in Loops |-> "none"]
  /\ exits = 0 /\ nows = 0 /\ tries = 0
  /\ ready = FALSE /\ conn = TRUE
  /\ ice = "new" /\ ups = 0
  /\ pc = [c \in Callers |-> "idle"] /\ job = [c \in Callers |-> "none"]
  /\ gone = FALSE
  /\ unready = FALSE /\ doubled = FALSE

Crashed == \E c \in Callers : pc[c] = "dead"

-----------------------------------------------------------------------------
(* Helpers.                                                                *)

GoTo(c, l) == /\ pc' = [pc EXCEPT ![c] = l]
              /\ job' = IF l = "idle" THEN [job EXCEPT ![c] = "none"] ELSE job

MutexFree == holder = NoHolder

\* A nil dereference, or a WaitGroup used again while Wait has not returned: the
\* process ends, and its memory is gone.
Panic ==
  /\ send' = FALSE /\ timer' = Nil
  /\ due' = [t \in Timers |-> 0] /\ fired' = [t \in Timers |-> FALSE]
  /\ cached' = FALSE /\ age' = MinInterval /\ holder' = NoHolder
  /\ loop' = [g \in Loops |-> "none"]
  /\ exits' = 0 /\ nows' = 0 /\ tries' = 0
  /\ ready' = FALSE /\ conn' = FALSE /\ ice' = "closed" /\ ups' = 0 /\ gone' = TRUE
  /\ pc' = [c \in Callers |-> "dead"] /\ job' = [c \in Callers |-> "none"]
  /\ UNCHANGED <<tick, history>>

Awaited(t) == \E g \in Loops : loop[g] = t

\* A goroutine of startDelayTimer has not called waitGroup.Done yet, or is about to
\* start.
Running == \E g \in Loops : loop[g] # "none"
Adding == holder.at = "add" \/ \E c \in Callers : pc[c] = "add"

\* startDelayTimer: a timer is made, and then a goroutine that waits for it.  The
\* timer it replaces is heard of no more unless some goroutine waits for it.
MakeTimer(d) ==
  \E t \in Timers :
    /\ t # timer /\ ~Awaited(t)
    /\ timer' = t
    /\ doubled' = (doubled \/ timer # Nil \/ Running \/ Adding)
    /\ due' = [x \in Timers |-> IF x = t THEN d ELSE IF Awaited(x) THEN due[x] ELSE 0]
    /\ fired' = [x \in Timers |-> x # t /\ Awaited(x) /\ fired[x]]

StartLoop ==
  \E g \in Loops : loop[g] = "none" /\ loop' = [loop EXCEPT ![g] = "eval"]

\* go filter.requestKeyframeNow()
GoNow == nows < MaxNow /\ nows' = nows + 1

-----------------------------------------------------------------------------
(* Callbacks and Destroy.                                                  *)

\* pion reports a new state, in a goroutine of its own (with peerConnection nil the
\* callback does nothing).  All but "connected" do the same to the filter.
Report(c, s) ==
  /\ pc[c] = "idle" /\ conn
  /\ \/ s = "connected" /\ ice \in {"new", "disconnected"} /\ ups < MaxConnect
     \/ s = "disconnected" /\ ice = "connected"
     \/ s = "failed" /\ ice \in {"new", "connected", "disconnected"}
     \/ s = "closed" /\ ice # "closed" /\ \E b \in Callers : pc[b] = "close"
  /\ ice' = s
  /\ ups' = IF s = "connected" THEN ups + 1 ELSE ups
  /\ pc' = [pc EXCEPT ![c] = "enter"]
  /\ job' = [job EXCEPT ![c] = IF s = "connected" THEN "up" ELSE "down"]
  /\ UNCHANGED <<tick, filter, goroutines, ready, conn, gone, history>>

\* The callback.
Enter(c) ==
  /\ pc[c] = "enter"
  /\ IF conn THEN /\ ready' = (job[c] = "up")
                  /\ pc' = [pc EXCEPT ![c] = IF job[c] = "up" THEN "startup" ELSE "shut"]
             ELSE /\ pc' = [pc EXCEPT ![c] = "idle"]
                  /\ UNCHANGED ready
  /\ job' = [job EXCEPT ![c] = "none"]
  /\ UNCHANGED <<tick, filter, goroutines, conn, ice, ups, gone, history>>

\* Nothing is left of an earlier Startup: no timer, no exit signal, and no Shutdown
\* at work.
AtRest == timer = Nil /\ exits = 0 /\ Shutting = {}

Startup(c) ==
  /\ pc[c] = "startup"
  /\ unready' = (unready \/ ~AtRest) /\ UNCHANGED doubled
  /\ send' = TRUE
  /\ GoTo(c, IF tick THEN "new" ELSE "idle")
  /\ UNCHANGED <<tick, timer, due, fired, cached, age, holder, goroutines, ready,
                 conn, ice, ups, gone>>

StartupTimer(c) ==
  /\ pc[c] = "new"
  /\ MakeTimer(MaxInterval)
  /\ GoTo(c, "add")
  /\ UNCHANGED <<tick, send, cached, age, holder, goroutines, ready, conn, ice, ups,
                 gone, unready>>

StartupLoop(c) ==
  /\ pc[c] = "add"
  /\ StartLoop
  /\ GoTo(c, "idle")
  /\ UNCHANGED <<tick, filter, exits, nows, tries, ready, conn, ice, ups, gone, history>>

\* peer.Destroy, called once, by the one that takes the peer out of its map.
Destroy(c) ==
  /\ pc[c] = "idle" /\ ~gone
  /\ gone' = TRUE
  /\ pc' = [pc EXCEPT ![c] = "shut"] /\ job' = [job EXCEPT ![c] = "destroy"]
  /\ UNCHANGED <<tick, filter, goroutines, ready, conn, ice, ups, history>>

\* Shutdown.  With a timer: the send function is taken away, a goroutine is
\* started to send the exit signal, and all timer goroutines are waited for.
Shutdown(c) ==
  /\ pc[c] = "shut"
  /\ \/ timer = Nil /\ GoTo(c, "reset") /\ UNCHANGED <<send, exits>>
     \/ timer # Nil /\ send' = FALSE /\ exits' = exits + 1 /\ GoTo(c, "wait")
  /\ UNCHANGED <<tick, timer, due, fired, cached, age, holder, loop, nows, tries,
                 ready, conn, ice, ups, gone, history>>

\* waitGroup.Wait: nothing to wait for, or blocked until the last goroutine is done.
ShutdownWait(c) ==
  /\ pc[c] = "wait"
  /\ GoTo(c, IF Running THEN "blocked" ELSE "clear")
  /\ UNCHANGED <<tick, filter, goroutines, ready, conn, ice, ups, gone, history>>

\* Wait goes on; it panics if the group is in use again.
ShutdownWoken(c) ==
  /\ pc[c] = "woken"
  /\ \/ Running /\ Panic
     \/ /\ ~Running
        /\ GoTo(c, "clear")
        /\ UNCHANGED <<tick, filter, goroutines, ready, conn, ice, ups, gone, history>>

\* A timer that nobody waits for is not heard of again.
ShutdownClear(c) ==
  /\ pc[c] = "clear"
  /\ timer' = Nil
  /\ due' = [t \in Timers |-> IF Awaited(t) THEN due[t] ELSE 0]
  /\ fired' = [t \in Timers |-> Awaited(t) /\ fired[t]]
  /\ GoTo(c, "reset")
  /\ UNCHANGED <<tick, send, cached, age, holder, goroutines, ready, conn,
                 ice, ups, gone, history>>

ShutdownReset(c) ==
  /\ pc[c] = "reset" /\ MutexFree
  /\ cached' = FALSE /\ age' = MinInterval
  /\ GoTo(c, IF job[c] = "destroy" THEN "close" ELSE "idle")
  /\ UNCHANGED <<tick, send, timer, due, fired, holder, goroutines, ready, conn, ice,
                 ups, gone, history>>

\* The rest of Destroy: Close, during which pion may report "closed", and then
\* peerConnection = nil.
SetNil(c) ==
  /\ pc[c] = "close"
  /\ conn' = FALSE /\ ice' = "closed"
  /\ GoTo(c, "idle")
  /\ UNCHANGED <<tick, filter, goroutines, ready, ups, gone, history>>

-----------------------------------------------------------------------------
(* Requests.                                                               *)

\* go peer.RequestKeyframe(): the peer is ready.
RequestKeyframe ==
  /\ ready /\ tries < MaxTry
  /\ tries' = tries + 1
  /\ UNCHANGED <<tick, filter, loop, exits, nows, ready, conn, ice, ups, callers, history>>

\* Sent at once, or put off until the minimal interval is over, or dropped.
TryRequestKeyframe ==
  /\ tries > 0 /\ MutexFree
  /\ tries' = tries - 1
  /\ \/ cached /\ UNCHANGED <<cached, holder, nows>>
     \/ ~cached /\ age = MinInterval /\ GoNow /\ UNCHANGED <<cached, holder>>
     \/ /\ ~cached /\ age < MinInterval
        /\ cached' = TRUE
        /\ holder' = [at |-> "check", d |-> MinInterval - age]
        /\ UNCHANGED nows
  /\ UNCHANGED <<tick, send, timer, due, fired, age, loop, exits, ready, conn, ice, ups,
                 callers, history>>

\* The send function is called, through which sendPli uses the connection: a
\* panic if one of them is nil.
RequestKeyframeNow ==
  /\ nows > 0 /\ MutexFree
  /\ \/ ~(send /\ conn) /\ Panic
     \/ /\ send /\ conn
        /\ nows' = nows - 1
        /\ age' = 0 /\ cached' = FALSE
        /\ holder' = IF tick THEN [at |-> "check", d |-> MaxInterval] ELSE NoHolder
        /\ UNCHANGED <<tick, send, timer, due, fired, loop, exits, tries, ready, conn,
                       ice, ups, callers, history>>

\* refreshMaxIntervalTimer, under mutex: nothing after a Shutdown ...
RefreshCheck ==
  /\ holder.at = "check"
  /\ holder' = IF send THEN [holder EXCEPT !.at = "arm"] ELSE NoHolder
  /\ UNCHANGED <<tick, send, timer, due, fired, cached, age, goroutines, ready, conn, ice,
                 ups, callers, history>>

\* Mutant: a timer is made each time.
RefreshArm_Always ==
  /\ holder.at = "arm"
  /\ MakeTimer(holder.d) /\ holder' = [holder EXCEPT !.at = "add"]
  /\ UNCHANGED <<tick, send, cached, age, goroutines, ready, conn, ice, ups, callers, unready>>

\* ... else the first timer is made ...
RefreshArm ==
  /\ holder.at = "arm"
  /\ \/ timer = Nil /\ MakeTimer(holder.d) /\ holder' = [holder EXCEPT !.at = "add"]
     \/ /\ timer # Nil
        /\ holder' = [holder EXCEPT !.at = "reset"]
        /\ UNCHANGED <<timer, due, fired, doubled>>
  /\ UNCHANGED <<tick, send, cached, age, goroutines, ready, conn, ice, ups, callers, unready>>

RefreshLoop ==
  /\ holder.at = "add"
  /\ StartLoop
  /\ holder' = NoHolder
  /\ UNCHANGED <<tick, send, timer, due, fired, cached, age, exits, nows, tries, ready,
                 conn, ice, ups, callers, history>>

\* Mutant: a timer that is there is left as it is.
RefreshReset_Missing ==
  /\ holder.at = "reset"
  /\ holder' = NoHolder
  /\ UNCHANGED <<tick, send, timer, due, fired, cached, age, goroutines, ready, conn, ice,
                 ups, callers, history>>

\* ... or the one there is set anew: a panic if it is gone since.
RefreshReset ==
  /\ holder.at = "reset"
  /\ \/ timer = Nil /\ Panic
     \/ /\ timer # Nil
        /\ due' = [due EXCEPT ![timer] = holder.d]
        /\ holder' = NoHolder
        /\ UNCHANGED <<tick, send, timer, fired, cached, age, goroutines, ready, conn, ice,
                       ups, callers, history>>

-----------------------------------------------------------------------------
(* The goroutine of startDelayTimer, and time.                             *)

\* select evaluates filter.timer.C: a panic if the timer is nil.
LoopEval(g) ==
  /\ loop[g] = "eval"
  /\ \/ timer = Nil /\ Panic
     \/ /\ timer # Nil
        /\ loop' = [loop EXCEPT ![g] = timer]
        /\ UNCHANGED <<tick, filter, exits, nows, tries, ready, conn, ice, ups, callers, history>>

\* A timer that this goroutine alone waits for, and that is not filter.timer any
\* more, is not heard of again once the goroutine goes on.
Dropped(g) == loop[g] # timer /\ \A h \in Loops \ {g} : loop[h] # loop[g]

LoopTimer(g) ==
  /\ loop[g] \in Timers /\ fired[loop[g]]
  /\ fired' = [fired EXCEPT ![loop[g]] = FALSE]
  /\ due' = IF Dropped(g) THEN [due EXCEPT ![loop[g]] = 0] ELSE due
  /\ GoNow
  /\ loop' = [loop EXCEPT ![g] = "eval"]
  /\ UNCHANGED <<tick, send, timer, cached, age, holder, exits, tries, ready, conn,
                 ice, ups, callers, history>>

\* waitGroup.Done: the last one wakes those blocked in Wait.
WakeIfLast(g) ==
  pc' = IF \A h \in Loops \ {g} : loop[h] = "none"
          THEN [c \in Callers |-> IF pc[c] = "blocked" THEN "woken" ELSE pc[c]]
          ELSE pc

\* Mutant: the goroutine leaves without an exit signal.
LoopExit_NoSignal(g) ==
  /\ loop[g] \in Timers
  /\ exits' = exits - 1
  /\ loop' = [loop EXCEPT ![g] = "none"]
  /\ due' = IF Dropped(g) THEN [due EXCEPT ![loop[g]] = 0] ELSE due
  /\ fired' = IF Dropped(g) THEN [fired EXCEPT ![loop[g]] = FALSE] ELSE fired
  /\ WakeIfLast(g)
  /\ UNCHANGED <<tick, send, timer, cached, age, holder, nows, tries, ready, conn, ice, ups,
                 gone, job, history>>

LoopExit(g) ==
  /\ loop[g] \in Timers /\ exits > 0
  /\ exits' = exits - 1
  /\ loop' = [loop EXCEPT ![g] = "none"]
  /\ due' = IF Dropped(g) THEN [due EXCEPT ![loop[g]] = 0] ELSE due
  /\ fired' = IF Dropped(g) THEN [fired EXCEPT ![loop[g]] = FALSE] ELSE fired
  /\ WakeIfLast(g)
  /\ UNCHANGED <<tick, send, timer, cached, age, holder, nows, tries, ready, conn, ice, ups,
                 gone, job, history>>

Tick ==
  /\ age < MinInterval \/ \E t \in Timers : due[t] > 0
  /\ ~Crashed
  /\ age' = IF age < MinInterval THEN age + 1 ELSE age
  /\ due' = [t \in Timers |-> IF due[t] > 0 THEN due[t] - 1 ELSE 0]
  /\ fired' = [t \in Timers |-> fired[t] \/ due[t] = 1]
  /\ UNCHANGED <<tick, send, timer, cached, holder, goroutines, ready, conn, ice, ups,
                 callers, history>>

-----------------------------------------------------------------------------

Call(c) == \/ Enter(c) \/ Startup(c) \/ StartupTimer(c) \/ StartupLoop(c)
           \/ Shutdown(c) \/ ShutdownWait(c) \/ ShutdownWoken(c) \/ ShutdownClear(c)
           \/ ShutdownReset(c) \/ SetNil(c)
Refresh == RefreshCheck \/ RefreshArm \/ RefreshLoop \/ RefreshReset
Loop(g) == LoopEval(g) \/ LoopTimer(g) \/ LoopExit(g)

Next ==
  \/ \E c \in Callers : Call(c) \/ Destroy(c) \/ \E s \in Reports : Report(c, s)
  \/ RequestKeyframe \/ TryRequestKeyframe \/ RequestKeyframeNow \/ Refresh
  \/ \E g \in Loops : Loop(g)
  \/ Tick

Spec == Init /\ [][Next]_vars

-----------------------------------------------------------------------------
(* Properties.                                                             *)

\* A request that was put off will be looked at again: by a goroutine about to
\* send, by a timer that is running, or has fired, and has somebody waiting for
\* it or about to, or by a Shutdown that will drop it.  While cached is set every
\* other request is dropped ("already exists in the cache", TryRequestKeyframe),
\* so one that is forgotten leaves the subscribers without a picture.  This goes on
\* over any number of reconnections for as long as each Startup has found the filter
\* at rest.  One that has not (unready: the exit signal of an earlier Shutdown is left,
\* or that Shutdown is still at work, or its timer is there) may lose its goroutine
\* to the old signal, and then the request is forgotten.
NoStuckCache ==
  ~unready /\ cached =>
    \/ nows > 0 \/ holder # NoHolder
    \/ \E c \in Callers : pc[c] \in {"new", "add", "shut", "wait", "blocked", "woken",
                                     "clear", "reset"}
    \/ \E g \in Loops : \/ loop[g] = "eval"
                        \/ loop[g] \in Timers /\ (due[loop[g]] > 0 \/ fired[loop[g]])

\* A Shutdown that waits for a timer goroutine is not left waiting: there is a signal
\* for the goroutine, although callbacks and Destroy shut down at the same time, a
\* signal ends any goroutine, and a refresh begun before Shutdown may start another
\* one after it.  That holds unless startDelayTimer was called twice (doubled: Startup
\* and a first refresh each make a timer and a goroutine, and Shutdown ends only one of
\* them), and that only happens in a filter that ticks, or after a Startup that did not
\* find the filter at rest.
ShutdownEnds ==
  /\ ~doubled /\ Running /\ (\E c \in Callers : pc[c] \in {"wait", "blocked"}) => exits > 0
  /\ doubled => tick \/ unready

=============================================================================
