------------------------ MODULE KeyframeFilterProofs ------------------------
(* Theorems about KeyframeFilter, for any intervals and any numbers of     *)
(* connections, goroutines, requests and timers: the type invariant,       *)
(* NoStuckCache (from IInv) and ShutdownEnds (from IInv and EInv).         *)
EXTENDS KeyframeFilter, FiniteSetTheorems, TLAPS

\* Somebody is going to reset cached.
Resetting == Shutting # {} \/ \E c \in Callers : pc[c] = "reset"

\* While the send function is there, no Shutdown has taken it away.
Sending == send => exits = 0 /\ Shutting = {}

\* Without it, a request that is put off will be dropped.
Silent == ~send => (age = MinInterval /\ ~cached) \/ Resetting

\* Whoever makes a timer starts a goroutine, which waits for the timer there is.
Served == send /\ timer # Nil /\ ~Adding => \E g \in Loops : loop[g] \in {timer, "eval"}

\* The timer that is there will send the request that was put off.
Live ==
  cached /\ nows = 0 /\ holder.at \in {"none", "add"} /\ ~Resetting =>
    timer # Nil /\ (due[timer] > 0 \/ fired[timer])

\* All of it holds as long as each Startup has found the filter at rest.
IInv == TypeOK /\ (~unready => Sending /\ Silent /\ Served /\ Live)

USE NilAssumption, IntervalAssumption, BoundAssumption DEF filter, goroutines, callers, history

-----------------------------------------------------------------------------
(* Types.                                                                  *)

LEMMA InitTyped == ASSUME Init PROVE TypeOK
<1>1. due \in [Timers -> 0 .. MaxInterval] /\ age \in 0 .. MinInterval /\ ups \in 0 .. MaxConnect
  BY DEF Init
<1>2. nows \in 0 .. MaxNow /\ tries \in 0 .. MaxTry  BY DEF Init
<1> QED  BY <1>1, <1>2 DEF Init, TypeOK, Steps

LEMMA PanicTyped == ASSUME TypeOK, Panic PROVE TypeOK'
<1>1. due' \in [Timers -> 0 .. MaxInterval] /\ age' \in 0 .. MinInterval /\ ups' \in 0 .. MaxConnect
  BY DEF Panic
<1>2. nows' \in 0 .. MaxNow /\ tries' \in 0 .. MaxTry  BY DEF Panic
<1> QED  BY <1>1, <1>2 DEF TypeOK, Panic, Reports, Steps

LEMMA ReportTyped == ASSUME TypeOK, NEW c \in Callers, NEW s \in Reports, Report(c, s) PROVE TypeOK'
<1>1. pc' \in [Callers -> Steps]  BY DEF TypeOK, Report, Steps
<1>2. job' \in [Callers -> {"up", "down", "destroy", "none"}]  BY DEF TypeOK, Report
<1>3. ice' \in Reports \cup {"new"} /\ ups' \in 0 .. MaxConnect  BY DEF TypeOK, Report
<1> QED  BY <1>1, <1>2, <1>3 DEF TypeOK, Report

LEMMA EnterTyped == ASSUME TypeOK, NEW c \in Callers, Enter(c) PROVE TypeOK'
<1>1. ready' \in BOOLEAN  BY DEF TypeOK, Enter
<1>2. PICK l \in {"idle", "startup", "shut"} : pc' = [pc EXCEPT ![c] = l]
  BY DEF Enter
<1>3. pc' \in [Callers -> Steps]  BY <1>2 DEF TypeOK, Steps
<1> QED  BY <1>1, <1>3 DEF TypeOK, Enter

LEMMA StartupTyped == ASSUME TypeOK, NEW c \in Callers, Startup(c) PROVE TypeOK'
BY DEF TypeOK, Startup, GoTo, NoHolder, Steps

LEMMA MakeTimerTyped ==
  ASSUME TypeOK, NEW d \in 0 .. MaxInterval, MakeTimer(d)
  PROVE  /\ timer' \in Timers /\ due' \in [Timers -> 0 .. MaxInterval]
         /\ fired' \in [Timers -> BOOLEAN] /\ doubled' \in BOOLEAN
BY DEF TypeOK, MakeTimer

LEMMA StartupTimerTyped == ASSUME TypeOK, NEW c \in Callers, StartupTimer(c) PROVE TypeOK'
<1>1. MaxInterval \in 0 .. MaxInterval /\ MakeTimer(MaxInterval)  BY DEF StartupTimer
<1> QED  BY <1>1, MakeTimerTyped DEF TypeOK, StartupTimer, GoTo, Steps

LEMMA StartupLoopTyped == ASSUME TypeOK, NEW c \in Callers, StartupLoop(c) PROVE TypeOK'
BY DEF TypeOK, StartupLoop, GoTo, StartLoop, NoHolder, Steps

LEMMA DestroyTyped == ASSUME TypeOK, NEW c \in Callers, Destroy(c) PROVE TypeOK'
BY DEF TypeOK, Destroy, NoHolder, Steps

LEMMA ShutdownTyped == ASSUME TypeOK, NEW c \in Callers, Shutdown(c) PROVE TypeOK'
<1>1. CASE timer = Nil  BY <1>1 DEF TypeOK, Shutdown, GoTo, Steps
<1>2. CASE timer # Nil
  <2>1. send' \in BOOLEAN  BY <1>2 DEF Shutdown
  <2>2. exits' \in Nat  BY <1>2 DEF TypeOK, Shutdown
  <2> QED  BY <1>2, <2>1, <2>2 DEF TypeOK, Shutdown, GoTo, Steps
<1> QED  BY <1>1, <1>2

LEMMA ShutdownWaitTyped == ASSUME TypeOK, NEW c \in Callers, ShutdownWait(c) PROVE TypeOK'
BY DEF TypeOK, ShutdownWait, GoTo, NoHolder, Steps

LEMMA ShutdownWokenTyped == ASSUME TypeOK, NEW c \in Callers, ShutdownWoken(c) PROVE TypeOK'
<1>1. CASE Panic  BY <1>1, PanicTyped
<1>2. CASE ~Panic  BY <1>2 DEF TypeOK, ShutdownWoken, GoTo, NoHolder, Steps
<1> QED  BY <1>1, <1>2

LEMMA ShutdownClearTyped == ASSUME TypeOK, NEW c \in Callers, ShutdownClear(c) PROVE TypeOK'
BY DEF TypeOK, ShutdownClear, GoTo, Awaited, NoHolder, Steps

LEMMA ShutdownResetTyped == ASSUME TypeOK, NEW c \in Callers, ShutdownReset(c) PROVE TypeOK'
<1>1. age' \in 0 .. MinInterval /\ cached' \in BOOLEAN
  <2>1. age' = MinInterval /\ cached' = FALSE  BY DEF ShutdownReset
  <2>2. age' \in 0 .. MinInterval  BY <2>1
  <2>3. cached' \in BOOLEAN  BY <2>1
  <2> QED  BY <2>2, <2>3
<1>2. CASE job[c] = "destroy"  BY <1>1, <1>2 DEF TypeOK, ShutdownReset, GoTo, Steps
<1>3. CASE job[c] # "destroy"  BY <1>1, <1>3 DEF TypeOK, ShutdownReset, GoTo, Steps
<1> QED  BY <1>2, <1>3

LEMMA SetNilTyped == ASSUME TypeOK, NEW c \in Callers, SetNil(c) PROVE TypeOK'
<1>1. pc' \in [Callers -> Steps] /\ job' \in [Callers -> {"up", "down", "destroy", "none"}]
  BY DEF TypeOK, SetNil, GoTo, Steps
<1>2. conn' \in BOOLEAN /\ ice' \in Reports \cup {"new"}  BY DEF SetNil, Reports
<1> QED  BY <1>1, <1>2 DEF TypeOK, SetNil

LEMMA RequestKeyframeTyped == ASSUME TypeOK, RequestKeyframe PROVE TypeOK'
BY DEF TypeOK, RequestKeyframe, NoHolder

LEMMA TryRequestKeyframeTyped == ASSUME TypeOK, TryRequestKeyframe PROVE TypeOK'
<1>1. tries' \in 0 .. MaxTry /\ nows' \in 0 .. MaxNow /\ cached' \in BOOLEAN
  <2>1. cached' \in BOOLEAN  BY DEF TypeOK, TryRequestKeyframe
  <2>2. tries' \in 0 .. MaxTry  BY DEF TypeOK, TryRequestKeyframe
  <2>3. nows' \in 0 .. MaxNow
    <3>1. nows' = nows \/ (nows < MaxNow /\ nows' = nows + 1)  BY DEF TryRequestKeyframe, GoNow
    <3> QED  BY <3>1 DEF TypeOK
  <2> QED  BY <2>1, <2>2, <2>3
<1>2. CASE age < MinInterval /\ holder' = [at |-> "check", d |-> MinInterval - age]
  <2>1. MinInterval - age \in 1 .. MaxInterval  BY <1>2 DEF TypeOK
  <2> QED  BY <1>1, <1>2, <2>1 DEF TypeOK, TryRequestKeyframe
<1>3. CASE holder' = holder  BY <1>1, <1>3 DEF TypeOK, TryRequestKeyframe
<1> QED  BY <1>2, <1>3 DEF TryRequestKeyframe

LEMMA RequestKeyframeNowTyped == ASSUME TypeOK, RequestKeyframeNow PROVE TypeOK'
<1>1. CASE Panic  BY <1>1, PanicTyped
<1>2. CASE ~Panic
  <2>1. nows' \in 0 .. MaxNow /\ age' \in 0 .. MinInterval
    BY <1>2 DEF TypeOK, RequestKeyframeNow
  <2>2. cached' \in BOOLEAN  BY <1>2 DEF RequestKeyframeNow
  <2>3. holder' \in [at: {"check", "arm", "reset", "add"}, d: 1 .. MaxInterval] \cup {NoHolder}
    BY <1>2 DEF RequestKeyframeNow
  <2> QED  BY <1>2, <2>1, <2>2, <2>3 DEF TypeOK, RequestKeyframeNow
<1> QED  BY <1>1, <1>2

LEMMA RefreshCheckTyped == ASSUME TypeOK, RefreshCheck PROVE TypeOK'
BY DEF TypeOK, RefreshCheck, NoHolder

LEMMA RefreshArmTyped == ASSUME TypeOK, RefreshArm PROVE TypeOK'
<1>1. /\ holder \in [at: {"check", "arm", "reset", "add"}, d: 1 .. MaxInterval]
      /\ holder.d \in 0 .. MaxInterval
  BY DEF TypeOK, RefreshArm, NoHolder
<1>2. CASE timer = Nil /\ MakeTimer(holder.d) /\ holder' = [holder EXCEPT !.at = "add"]
  BY <1>1, <1>2, MakeTimerTyped DEF TypeOK, RefreshArm
<1>3. CASE holder' = [holder EXCEPT !.at = "reset"] /\ UNCHANGED <<timer, due, fired, doubled>>
  BY <1>1, <1>3 DEF TypeOK, RefreshArm
<1> QED  BY <1>2, <1>3 DEF RefreshArm

LEMMA RefreshLoopTyped == ASSUME TypeOK, RefreshLoop PROVE TypeOK'
BY DEF TypeOK, RefreshLoop, StartLoop, NoHolder

LEMMA RefreshResetTyped == ASSUME TypeOK, RefreshReset PROVE TypeOK'
<1>1. CASE Panic  BY <1>1, PanicTyped
<1>2. CASE ~Panic  BY <1>2 DEF TypeOK, RefreshReset, NoHolder
<1> QED  BY <1>1, <1>2

LEMMA LoopEvalTyped == ASSUME TypeOK, NEW g \in Loops, LoopEval(g) PROVE TypeOK'
<1>1. CASE Panic  BY <1>1, PanicTyped
<1>2. CASE ~Panic  BY <1>2 DEF TypeOK, LoopEval, NoHolder
<1> QED  BY <1>1, <1>2

LEMMA LoopTimerTyped == ASSUME TypeOK, NEW g \in Loops, LoopTimer(g) PROVE TypeOK'
<1>1. due' \in [Timers -> 0 .. MaxInterval] /\ fired' \in [Timers -> BOOLEAN]
  BY DEF TypeOK, LoopTimer
<1> QED  BY <1>1 DEF TypeOK, LoopTimer, GoNow, NoHolder

LEMMA LoopExitTyped == ASSUME TypeOK, NEW g \in Loops, LoopExit(g) PROVE TypeOK'
<1>1. due' \in [Timers -> 0 .. MaxInterval] /\ fired' \in [Timers -> BOOLEAN]
  BY DEF TypeOK, LoopExit
<1>2. pc' \in [Callers -> Steps]  BY DEF TypeOK, LoopExit, WakeIfLast, Steps
<1> QED  BY <1>1, <1>2 DEF TypeOK, LoopExit, NoHolder

LEMMA TickTyped == ASSUME TypeOK, Tick PROVE TypeOK'
BY DEF TypeOK, Tick, NoHolder

LEMMA NextTyped == ASSUME TypeOK, [Next]_vars PROVE TypeOK'
<1>1. CASE UNCHANGED vars  BY <1>1 DEF vars, TypeOK
<1>2. ASSUME NEW c \in Callers, Call(c) PROVE TypeOK'
  BY <1>2, EnterTyped, StartupTyped, StartupTimerTyped, StartupLoopTyped, ShutdownTyped,
     ShutdownWaitTyped, ShutdownWokenTyped, ShutdownClearTyped, ShutdownResetTyped, SetNilTyped DEF Call
<1>3. ASSUME NEW c \in Callers, Destroy(c) \/ \E s \in Reports : Report(c, s) PROVE TypeOK'
  BY <1>3, DestroyTyped, ReportTyped
<1>4. CASE RequestKeyframe \/ TryRequestKeyframe \/ RequestKeyframeNow \/ Refresh
  BY <1>4, RequestKeyframeTyped, TryRequestKeyframeTyped, RequestKeyframeNowTyped,
     RefreshCheckTyped, RefreshArmTyped, RefreshLoopTyped, RefreshResetTyped DEF Refresh
<1>5. ASSUME NEW g \in Loops, Loop(g) PROVE TypeOK'
  BY <1>5, LoopEvalTyped, LoopTimerTyped, LoopExitTyped DEF Loop
<1>6. CASE Tick  BY <1>6, TickTyped
<1> QED  BY <1>1, <1>2, <1>3, <1>4, <1>5, <1>6 DEF Next

-----------------------------------------------------------------------------
(* The steps.                                                              *)

LEMMA InitOK == ASSUME Init PROVE IInv
<1>1. TypeOK  BY InitTyped
<1> QED
  BY <1>1 DEF Init, IInv, Sending, Silent, Served, Live, NoHolder, Shutting

\* A panic leaves nothing to be wrong.
LEMMA PanicOK == ASSUME IInv, Panic PROVE IInv'
<1>1. TypeOK'  BY PanicTyped DEF IInv
<1> QED
  BY <1>1 DEF IInv, Panic, Sending, Silent, Served, Live, NoHolder, Shutting

LEMMA ReportOK == ASSUME IInv, NEW c \in Callers, NEW s \in Reports, Report(c, s) PROVE IInv'
<1>1. TypeOK'  BY ReportTyped DEF IInv
<1> SUFFICES ASSUME ~unready' PROVE (Sending /\ Silent /\ Served /\ Live)'
  BY <1>1 DEF IInv
<1>2. ~unready /\ Sending /\ Silent /\ Served /\ Live
  BY DEF IInv, Report
<1>3. Sending' /\ Silent'
  BY <1>2 DEF IInv, TypeOK, Report, Sending, Silent, Resetting, Shutting
<1>4. Live'
  BY <1>2 DEF IInv, TypeOK, Report, Silent, Resetting, Shutting, Live, NoHolder
<1>5. Served'
  BY <1>2 DEF IInv, TypeOK, Report, Sending, Shutting, Served, Adding, NoHolder
<1> QED  BY <1>3, <1>4, <1>5

LEMMA EnterOK == ASSUME IInv, NEW c \in Callers, Enter(c) PROVE IInv'
<1>1. TypeOK'  BY EnterTyped DEF IInv
<1> SUFFICES ASSUME ~unready' PROVE (Sending /\ Silent /\ Served /\ Live)'
  BY <1>1 DEF IInv
<1>2. ~unready /\ Sending /\ Silent /\ Served /\ Live
  BY DEF IInv, Enter
<1>3. Sending' /\ Silent'
  BY <1>2 DEF IInv, TypeOK, Enter, Sending, Silent, Resetting, Shutting
<1>4. Live'
  BY <1>2 DEF IInv, TypeOK, Enter, Silent, Resetting, Shutting, Live, NoHolder
<1>5. Served'
  BY <1>2 DEF IInv, TypeOK, Enter, Sending, Shutting, Served, Adding, NoHolder
<1> QED  BY <1>3, <1>4, <1>5

LEMMA StartupOK == ASSUME IInv, NEW c \in Callers, Startup(c) PROVE IInv'
<1>1. TypeOK'  BY StartupTyped DEF IInv
<1> SUFFICES ASSUME ~unready' PROVE (Sending /\ Silent /\ Served /\ Live)'
  BY <1>1 DEF IInv
<1>2. ~unready /\ Sending /\ Silent /\ Served /\ Live
  BY DEF IInv, Startup
<1>3. Sending' /\ Silent'
  BY <1>2 DEF IInv, TypeOK, Startup, GoTo, AtRest, Sending, Silent, Resetting, Shutting
<1>4. Live'
  BY <1>2 DEF IInv, TypeOK, Startup, GoTo, AtRest, Silent, Resetting, Shutting, Live,
     NoHolder
<1>5. Served'
  BY <1>2 DEF IInv, TypeOK, Startup, GoTo, AtRest, Sending, Shutting, Served, Adding,
     NoHolder
<1> QED  BY <1>3, <1>4, <1>5

LEMMA StartupTimerOK == ASSUME IInv, NEW c \in Callers, StartupTimer(c) PROVE IInv'
<1>1. TypeOK'  BY StartupTimerTyped DEF IInv
<1> SUFFICES ASSUME ~unready' PROVE (Sending /\ Silent /\ Served /\ Live)'
  BY <1>1 DEF IInv
<1>2. ~unready /\ Sending /\ Silent /\ Served /\ Live
  BY DEF IInv, StartupTimer, MakeTimer
<1>3. Sending' /\ Silent'
  BY <1>2 DEF IInv, TypeOK, StartupTimer, GoTo, MakeTimer, Sending, Silent, Resetting,
     Shutting
<1>4. Live'
  BY <1>2 DEF IInv, TypeOK, StartupTimer, GoTo, MakeTimer, Silent, Resetting, Shutting,
     Live, NoHolder
<1>5. Served'
  BY <1>2 DEF IInv, TypeOK, StartupTimer, GoTo, MakeTimer, Sending, Shutting, Served,
     Adding, NoHolder
<1> QED  BY <1>3, <1>4, <1>5

LEMMA StartupLoopOK == ASSUME IInv, NEW c \in Callers, StartupLoop(c) PROVE IInv'
<1>1. TypeOK'  BY StartupLoopTyped DEF IInv
<1> SUFFICES ASSUME ~unready' PROVE (Sending /\ Silent /\ Served /\ Live)'
  BY <1>1 DEF IInv
<1>2. ~unready /\ Sending /\ Silent /\ Served /\ Live
  BY DEF IInv, StartupLoop
<1>3. Sending' /\ Silent'
  BY <1>2 DEF IInv, TypeOK, StartupLoop, GoTo, StartLoop, Sending, Silent, Resetting,
     Shutting
<1>4. Live'
  BY <1>2 DEF IInv, TypeOK, StartupLoop, GoTo, StartLoop, Silent, Resetting, Shutting,
     Live, NoHolder
<1>5. Served'
  BY <1>2 DEF IInv, TypeOK, StartupLoop, GoTo, StartLoop, Sending, Shutting, Served,
     Adding, NoHolder
<1> QED  BY <1>3, <1>4, <1>5

LEMMA DestroyOK == ASSUME IInv, NEW c \in Callers, Destroy(c) PROVE IInv'
<1>1. TypeOK'  BY DestroyTyped DEF IInv
<1> SUFFICES ASSUME ~unready' PROVE (Sending /\ Silent /\ Served /\ Live)'
  BY <1>1 DEF IInv
<1>2. ~unready /\ Sending /\ Silent /\ Served /\ Live
  BY DEF IInv, Destroy
<1>3. Sending' /\ Silent'
  BY <1>2 DEF IInv, TypeOK, Destroy, Sending, Silent, Resetting, Shutting
<1>4. Live'
  BY <1>2 DEF IInv, TypeOK, Destroy, Silent, Resetting, Shutting, Live, NoHolder
<1>5. Served'
  BY <1>2 DEF IInv, TypeOK, Destroy, Sending, Shutting, Served, Adding, NoHolder
<1> QED  BY <1>3, <1>4, <1>5

LEMMA ShutdownOK == ASSUME IInv, NEW c \in Callers, Shutdown(c) PROVE IInv'
<1>1. TypeOK'  BY ShutdownTyped DEF IInv
<1> SUFFICES ASSUME ~unready' PROVE (Sending /\ Silent /\ Served /\ Live)'
  BY <1>1 DEF IInv
<1>2. ~unready /\ Sending /\ Silent /\ Served /\ Live
  BY DEF IInv, Shutdown
<1>3. Sending' /\ Silent'
  BY <1>2 DEF IInv, TypeOK, Shutdown, GoTo, Sending, Silent, Resetting, Shutting
<1>4. Live'
  BY <1>2 DEF IInv, TypeOK, Shutdown, GoTo, Silent, Resetting, Shutting, Live, NoHolder
<1>5. Served'
  BY <1>2 DEF IInv, TypeOK, Shutdown, GoTo, Sending, Shutting, Served, Adding, NoHolder
<1> QED  BY <1>3, <1>4, <1>5

LEMMA ShutdownWaitOK == ASSUME IInv, NEW c \in Callers, ShutdownWait(c) PROVE IInv'
<1>1. TypeOK'  BY ShutdownWaitTyped DEF IInv
<1> SUFFICES ASSUME ~unready' PROVE (Sending /\ Silent /\ Served /\ Live)'
  BY <1>1 DEF IInv
<1>2. ~unready /\ Sending /\ Silent /\ Served /\ Live
  BY DEF IInv, ShutdownWait
<1>3. Sending' /\ Silent'
  BY <1>2 DEF IInv, TypeOK, ShutdownWait, GoTo, Sending, Silent, Resetting, Shutting
<1>4. Live'
  BY <1>2 DEF IInv, TypeOK, ShutdownWait, GoTo, Silent, Resetting, Shutting, Live,
     NoHolder
<1>5. Served'
  BY <1>2 DEF IInv, TypeOK, ShutdownWait, GoTo, Sending, Shutting, Served, Adding,
     NoHolder
<1> QED  BY <1>3, <1>4, <1>5

LEMMA ShutdownWokenOK == ASSUME IInv, NEW c \in Callers, ShutdownWoken(c) PROVE IInv'
<1>1. CASE Panic  BY <1>1, PanicOK
<1>2. CASE ~Panic
  <2>1. TypeOK'  BY ShutdownWokenTyped DEF IInv
  <2> SUFFICES ASSUME ~unready' PROVE (Sending /\ Silent /\ Served /\ Live)'
    BY <2>1 DEF IInv
  <2>2. ~unready /\ Sending /\ Silent /\ Served /\ Live
    BY <1>2 DEF IInv, ShutdownWoken
  <2>3. Sending' /\ Silent'
    BY <1>2, <2>2 DEF IInv, TypeOK, ShutdownWoken, GoTo, Sending, Silent, Resetting,
       Shutting
  <2>4. Live'
    BY <1>2, <2>2 DEF IInv, TypeOK, ShutdownWoken, GoTo, Silent, Resetting, Shutting, Live,
       NoHolder
  <2>5. Served'
    BY <1>2, <2>2 DEF IInv, TypeOK, ShutdownWoken, GoTo, Sending, Shutting, Served, Adding,
       NoHolder
  <2> QED  BY <2>3, <2>4, <2>5
<1> QED  BY <1>1, <1>2

LEMMA ShutdownClearOK == ASSUME IInv, NEW c \in Callers, ShutdownClear(c) PROVE IInv'
<1>1. TypeOK'  BY ShutdownClearTyped DEF IInv
<1> SUFFICES ASSUME ~unready' PROVE (Sending /\ Silent /\ Served /\ Live)'
  BY <1>1 DEF IInv
<1>2. ~unready /\ Sending /\ Silent /\ Served /\ Live
  BY DEF IInv, ShutdownClear
<1>3. Sending' /\ Silent'
  BY <1>2 DEF IInv, TypeOK, ShutdownClear, GoTo, Sending, Silent, Resetting, Shutting
<1>4. Live'
  BY <1>2 DEF IInv, TypeOK, ShutdownClear, GoTo, Silent, Resetting, Shutting, Live,
     NoHolder
<1>5. Served'
  BY <1>2 DEF IInv, TypeOK, ShutdownClear, GoTo, Sending, Shutting, Served, Adding,
     NoHolder
<1> QED  BY <1>3, <1>4, <1>5

LEMMA ShutdownResetOK == ASSUME IInv, NEW c \in Callers, ShutdownReset(c) PROVE IInv'
<1>1. TypeOK'  BY ShutdownResetTyped DEF IInv
<1> SUFFICES ASSUME ~unready' PROVE (Sending /\ Silent /\ Served /\ Live)'
  BY <1>1 DEF IInv
<1>2. ~unready /\ Sending /\ Silent /\ Served /\ Live
  BY DEF IInv, ShutdownReset
<1>3. Sending' /\ Silent'
  BY <1>2 DEF IInv, TypeOK, ShutdownReset, GoTo, MutexFree, Sending, Silent, Resetting,
     Shutting
<1>4. Live'
  BY <1>2 DEF IInv, TypeOK, ShutdownReset, GoTo, MutexFree, Silent, Resetting, Shutting,
     Live, NoHolder
<1>5. Served'
  BY <1>2 DEF IInv, TypeOK, ShutdownReset, GoTo, MutexFree, Sending, Shutting, Served,
     Adding, NoHolder
<1> QED  BY <1>3, <1>4, <1>5

LEMMA SetNilOK == ASSUME IInv, NEW c \in Callers, SetNil(c) PROVE IInv'
<1>1. TypeOK'  BY SetNilTyped DEF IInv
<1> SUFFICES ASSUME ~unready' PROVE (Sending /\ Silent /\ Served /\ Live)'
  BY <1>1 DEF IInv
<1>2. ~unready /\ Sending /\ Silent /\ Served /\ Live
  BY DEF IInv, SetNil
<1>3. Sending' /\ Silent'
  BY <1>2 DEF IInv, TypeOK, SetNil, GoTo, Sending, Silent, Resetting, Shutting
<1>4. Live'
  BY <1>2 DEF IInv, TypeOK, SetNil, GoTo, Silent, Resetting, Shutting, Live, NoHolder
<1>5. Served'
  BY <1>2 DEF IInv, TypeOK, SetNil, GoTo, Sending, Shutting, Served, Adding, NoHolder
<1> QED  BY <1>3, <1>4, <1>5

LEMMA RequestKeyframeOK == ASSUME IInv, RequestKeyframe PROVE IInv'
<1>1. TypeOK'  BY RequestKeyframeTyped DEF IInv
<1> SUFFICES ASSUME ~unready' PROVE (Sending /\ Silent /\ Served /\ Live)'
  BY <1>1 DEF IInv
<1>2. ~unready /\ Sending /\ Silent /\ Served /\ Live
  BY DEF IInv, RequestKeyframe
<1>3. Sending' /\ Silent'
  BY <1>2 DEF IInv, TypeOK, RequestKeyframe, Sending, Silent, Resetting, Shutting
<1>4. Live'
  BY <1>2 DEF IInv, TypeOK, RequestKeyframe, Silent, Resetting, Shutting, Live, NoHolder
<1>5. Served'
  BY <1>2 DEF IInv, TypeOK, RequestKeyframe, Sending, Shutting, Served, Adding, NoHolder
<1> QED  BY <1>3, <1>4, <1>5

LEMMA TryRequestKeyframeOK == ASSUME IInv, TryRequestKeyframe PROVE IInv'
<1>1. TypeOK'  BY TryRequestKeyframeTyped DEF IInv
<1> SUFFICES ASSUME ~unready' PROVE (Sending /\ Silent /\ Served /\ Live)'
  BY <1>1 DEF IInv
<1>2. ~unready /\ Sending /\ Silent /\ Served /\ Live
  BY DEF IInv, TryRequestKeyframe
<1>3. Sending' /\ Silent'
  BY <1>2 DEF IInv, TypeOK, TryRequestKeyframe, GoNow, MutexFree, Sending, Silent,
     Resetting, Shutting
<1>4. Live'
  <2>1. CASE holder'.at = "check"  BY <2>1 DEF Live
  <2>2. CASE cached' = cached /\ holder' = holder
    <3>1. nows' = 0 => nows = 0  BY DEF IInv, TypeOK, TryRequestKeyframe, GoNow
    <3> QED  BY <2>2, <3>1, <1>2 DEF TryRequestKeyframe, Shutting, Resetting, Live
  <2> QED  BY <2>1, <2>2 DEF TryRequestKeyframe
<1>5. Served'
  BY <1>2 DEF IInv, TypeOK, TryRequestKeyframe, GoNow, MutexFree, Sending, Shutting,
     Served, Adding, NoHolder
<1> QED  BY <1>3, <1>4, <1>5

LEMMA RequestKeyframeNowOK == ASSUME IInv, RequestKeyframeNow PROVE IInv'
<1>1. CASE Panic  BY <1>1, PanicOK
<1>2. CASE ~Panic
  <2>1. TypeOK'  BY RequestKeyframeNowTyped DEF IInv
  <2> SUFFICES ASSUME ~unready' PROVE (Sending /\ Silent /\ Served /\ Live)'
    BY <2>1 DEF IInv
  <2>2. ~unready /\ Sending /\ Silent /\ Served /\ Live
    BY <1>2 DEF IInv, RequestKeyframeNow
  <2>3. Sending' /\ Silent'
    BY <1>2, <2>2 DEF IInv, TypeOK, RequestKeyframeNow, MutexFree, Sending, Silent,
       Resetting, Shutting
  <2>4. Live'
    BY <1>2, <2>2 DEF IInv, TypeOK, RequestKeyframeNow, MutexFree, Silent, Resetting,
       Shutting, Live, NoHolder
  <2>5. Served'
    BY <1>2, <2>2 DEF IInv, TypeOK, RequestKeyframeNow, MutexFree, Sending, Shutting,
       Served, Adding, NoHolder
  <2> QED  BY <2>3, <2>4, <2>5
<1> QED  BY <1>1, <1>2

LEMMA RefreshCheckOK == ASSUME IInv, RefreshCheck PROVE IInv'
<1>1. TypeOK'  BY RefreshCheckTyped DEF IInv
<1> SUFFICES ASSUME ~unready' PROVE (Sending /\ Silent /\ Served /\ Live)'
  BY <1>1 DEF IInv
<1>2. ~unready /\ Sending /\ Silent /\ Served /\ Live
  BY DEF IInv, RefreshCheck
<1>3. Sending' /\ Silent'
  BY <1>2 DEF IInv, TypeOK, RefreshCheck, Sending, Silent, Resetting, Shutting
<1>4. Live'
  BY <1>2 DEF IInv, TypeOK, RefreshCheck, Silent, Resetting, Shutting, Live, NoHolder
<1>5. Served'
  BY <1>2 DEF IInv, TypeOK, RefreshCheck, Sending, Shutting, Served, Adding, NoHolder
<1> QED  BY <1>3, <1>4, <1>5

LEMMA RefreshArmOK == ASSUME IInv, RefreshArm PROVE IInv'
<1>1. TypeOK'  BY RefreshArmTyped DEF IInv
<1> SUFFICES ASSUME ~unready' PROVE (Sending /\ Silent /\ Served /\ Live)'
  BY <1>1 DEF IInv
<1>2. ~unready /\ Sending /\ Silent /\ Served /\ Live
  BY DEF IInv, RefreshArm, MakeTimer
<1>3. Sending' /\ Silent'
  BY <1>2 DEF IInv, TypeOK, RefreshArm, MakeTimer, Sending, Silent, Resetting, Shutting
<1>4. Live'
  BY <1>2 DEF IInv, TypeOK, RefreshArm, MakeTimer, Silent, Resetting, Shutting, Live,
     NoHolder
<1>5. Served'
  BY <1>2 DEF IInv, TypeOK, RefreshArm, MakeTimer, Sending, Shutting, Served, Adding,
     NoHolder
<1> QED  BY <1>3, <1>4, <1>5

LEMMA RefreshLoopOK == ASSUME IInv, RefreshLoop PROVE IInv'
<1>1. TypeOK'  BY RefreshLoopTyped DEF IInv
<1> SUFFICES ASSUME ~unready' PROVE (Sending /\ Silent /\ Served /\ Live)'
  BY <1>1 DEF IInv
<1>2. ~unready /\ Sending /\ Silent /\ Served /\ Live
  BY DEF IInv, RefreshLoop
<1>3. Sending' /\ Silent'
  BY <1>2 DEF IInv, TypeOK, RefreshLoop, StartLoop, Sending, Silent, Resetting, Shutting
<1>4. Live'
  BY <1>2 DEF IInv, TypeOK, RefreshLoop, StartLoop, Silent, Resetting, Shutting, Live,
     NoHolder
<1>5. Served'
  BY <1>2 DEF IInv, TypeOK, RefreshLoop, StartLoop, Sending, Shutting, Served, Adding,
     NoHolder
<1> QED  BY <1>3, <1>4, <1>5

LEMMA RefreshResetOK == ASSUME IInv, RefreshReset PROVE IInv'
<1>1. CASE Panic  BY <1>1, PanicOK
<1>2. CASE ~Panic
  <2>1. TypeOK'  BY RefreshResetTyped DEF IInv
  <2> SUFFICES ASSUME ~unready' PROVE (Sending /\ Silent /\ Served /\ Live)'
    BY <2>1 DEF IInv
  <2>2. ~unready /\ Sending /\ Silent /\ Served /\ Live
    BY <1>2 DEF IInv, RefreshReset
  <2>3. Sending' /\ Silent'
    BY <1>2, <2>2 DEF IInv, TypeOK, RefreshReset, Sending, Silent, Resetting, Shutting
  <2>4. Live'
    <3>1. holder.d > 0  BY DEF IInv, TypeOK, RefreshReset, NoHolder
    <3>2. timer \in Timers /\ due' = [due EXCEPT ![timer] = holder.d] /\ timer' = timer
      BY <1>2 DEF IInv, TypeOK, RefreshReset
    <3>3. due'[timer'] > 0  BY <3>1, <3>2 DEF IInv, TypeOK
    <3> QED  BY <3>2, <3>3 DEF Live
  <2>5. Served'
    BY <1>2, <2>2 DEF IInv, TypeOK, RefreshReset, Sending, Shutting, Served, Adding,
       NoHolder
  <2> QED  BY <2>3, <2>4, <2>5
<1> QED  BY <1>1, <1>2

LEMMA LoopEvalOK == ASSUME IInv, NEW g \in Loops, LoopEval(g) PROVE IInv'
<1>1. CASE Panic  BY <1>1, PanicOK
<1>2. CASE ~Panic
  <2>1. TypeOK'  BY LoopEvalTyped DEF IInv
  <2> SUFFICES ASSUME ~unready' PROVE (Sending /\ Silent /\ Served /\ Live)'
    BY <2>1 DEF IInv
  <2>2. ~unready /\ Sending /\ Silent /\ Served /\ Live
    BY <1>2 DEF IInv, LoopEval
  <2>3. Sending' /\ Silent'
    BY <1>2, <2>2 DEF IInv, TypeOK, LoopEval, Sending, Silent, Resetting, Shutting
  <2>4. Live'
    BY <1>2, <2>2 DEF IInv, TypeOK, LoopEval, Silent, Resetting, Shutting, Live, NoHolder
  <2>5. Served'
    BY <1>2, <2>2 DEF IInv, TypeOK, LoopEval, Sending, Shutting, Served, Adding, NoHolder
  <2> QED  BY <2>3, <2>4, <2>5
<1> QED  BY <1>1, <1>2

LEMMA LoopTimerOK == ASSUME IInv, NEW g \in Loops, LoopTimer(g) PROVE IInv'
<1>1. TypeOK'  BY LoopTimerTyped DEF IInv
<1> SUFFICES ASSUME ~unready' PROVE (Sending /\ Silent /\ Served /\ Live)'
  BY <1>1 DEF IInv
<1>2. ~unready /\ Sending /\ Silent /\ Served /\ Live
  BY DEF IInv, LoopTimer
<1>3. Sending' /\ Silent'
  BY <1>2 DEF IInv, TypeOK, LoopTimer, GoNow, Dropped, Sending, Silent, Resetting,
     Shutting
<1>4. Live'
  BY <1>2 DEF IInv, TypeOK, LoopTimer, GoNow, Dropped, Silent, Resetting, Shutting, Live,
     NoHolder
<1>5. Served'
  BY <1>2 DEF IInv, TypeOK, LoopTimer, GoNow, Dropped, Sending, Shutting, Served, Adding,
     NoHolder
<1> QED  BY <1>3, <1>4, <1>5

LEMMA LoopExitOK == ASSUME IInv, NEW g \in Loops, LoopExit(g) PROVE IInv'
<1>1. TypeOK'  BY LoopExitTyped DEF IInv
<1> SUFFICES ASSUME ~unready' PROVE (Sending /\ Silent /\ Served /\ Live)'
  BY <1>1 DEF IInv
<1>2. ~unready /\ Sending /\ Silent /\ Served /\ Live
  BY DEF IInv, LoopExit
<1>3. Sending' /\ Silent'
  BY <1>2 DEF IInv, TypeOK, LoopExit, WakeIfLast, Dropped, Sending, Silent, Resetting,
     Shutting
<1>4. Live'
  BY <1>2 DEF IInv, TypeOK, LoopExit, WakeIfLast, Dropped, Silent, Resetting, Shutting,
     Live, NoHolder
<1>5. Served'
  BY <1>2 DEF IInv, TypeOK, LoopExit, WakeIfLast, Dropped, Sending, Shutting, Served,
     Adding, NoHolder
<1> QED  BY <1>3, <1>4, <1>5

LEMMA TickOK == ASSUME IInv, Tick PROVE IInv'
<1>1. TypeOK'  BY TickTyped DEF IInv
<1> SUFFICES ASSUME ~unready' PROVE (Sending /\ Silent /\ Served /\ Live)'
  BY <1>1 DEF IInv
<1>2. ~unready /\ Sending /\ Silent /\ Served /\ Live
  BY DEF IInv, Tick
<1>3. Sending' /\ Silent'
  BY <1>2 DEF IInv, TypeOK, Tick, Sending, Silent, Resetting, Shutting
<1>4. Live'
  <2>1. UNCHANGED <<cached, nows, holder, pc, timer>>  BY DEF Tick
  <2>2. ASSUME NEW t \in Timers, due[t] > 0 \/ fired[t] PROVE due'[t] > 0 \/ fired'[t]
    <3>1. due[t] \in Nat  BY DEF IInv, TypeOK
    <3>2. /\ due'[t] = IF due[t] > 0 THEN due[t] - 1 ELSE 0
          /\ fired'[t] = (fired[t] \/ due[t] = 1)
      BY DEF Tick
    <3>3. CASE fired[t] \/ due[t] = 1  BY <3>2, <3>3
    <3>4. CASE due[t] > 1  BY <3>1, <3>2, <3>4
    <3> QED  BY <2>2, <3>1, <3>3, <3>4
  <2> QED  BY <2>1, <2>2, <1>2 DEF IInv, TypeOK, Shutting, Resetting, Live
<1>5. Served'
  BY <1>2 DEF IInv, TypeOK, Tick, Sending, Shutting, Served, Adding, NoHolder
<1> QED  BY <1>3, <1>4, <1>5

LEMMA NextOK == ASSUME IInv, [Next]_vars PROVE IInv'
<1>1. CASE UNCHANGED vars
  BY <1>1 DEF vars, IInv, TypeOK, Sending, Silent, Resetting, Shutting, Served, Adding, Live
<1>2. ASSUME NEW c \in Callers, Call(c) PROVE IInv'
  BY <1>2, EnterOK, StartupOK, StartupTimerOK, StartupLoopOK, ShutdownOK, ShutdownWaitOK,
     ShutdownWokenOK, ShutdownClearOK, ShutdownResetOK, SetNilOK DEF Call
<1>3. ASSUME NEW c \in Callers, Destroy(c) \/ \E s \in Reports : Report(c, s) PROVE IInv'
  BY <1>3, DestroyOK, ReportOK
<1>4. CASE RequestKeyframe \/ TryRequestKeyframe \/ RequestKeyframeNow \/ Refresh
  BY <1>4, RequestKeyframeOK, TryRequestKeyframeOK, RequestKeyframeNowOK, RefreshCheckOK,
     RefreshArmOK, RefreshLoopOK, RefreshResetOK DEF Refresh
<1>5. ASSUME NEW g \in Loops, Loop(g) PROVE IInv'
  BY <1>5, LoopEvalOK, LoopTimerOK, LoopExitOK DEF Loop
<1>6. CASE Tick  BY <1>6, TickOK
<1> QED  BY <1>1, <1>2, <1>3, <1>4, <1>5, <1>6 DEF Next

-----------------------------------------------------------------------------
(* Shutdown and the goroutine it waits for.                                *)

\* As long as startDelayTimer has never been called twice, there is one goroutine of it at
\* most, counting those about to start.
Single ==
  /\ \A g, h \in Loops : loop[g] # "none" /\ loop[h] # "none" => g = h
  /\ \A c, d \in Callers : pc[c] = "add" /\ pc[d] = "add" => c = d
  /\ \A c \in Callers : pc[c] = "add" => holder.at # "add"
  /\ Running => ~Adding

\* Each Shutdown under way has a signal of its own while there is a goroutine, or one
\* about to start, or no timer.  The goroutine takes one of them; whoever makes the next
\* timer finds that a Shutdown has cleared the last one, and so is not counted any more.
Enough ==
  /\ exits + 1 >= Cardinality(Shutting)
  /\ timer = Nil \/ Running \/ Adding => exits >= Cardinality(Shutting)
  /\ timer = Nil /\ (Running \/ Adding) => exits >= Cardinality(Shutting) + 1

\* In a filter that does not tick only a refresh makes timers, and it finds no goroutine
\* when it finds no timer.
Last ==
  /\ \A c \in Callers : pc[c] \notin {"new", "add"}
  /\ (holder.at = "add" \/ Running) /\ timer = Nil => ~send
  /\ holder.at = "arm" /\ (timer = Nil \/ \E c \in Callers : pc[c] = "clear") => ~Running

EInv == /\ ~doubled => Single /\ Enough
        /\ ~tick /\ ~unready => ~doubled /\ Last

LEMMA ShuttingCounted == IsFiniteSet(Shutting) /\ Cardinality(Shutting) \in Nat
<1>1. IsFiniteSet(Shutting)  BY CallersAssumption, FS_Subset DEF Shutting
<1> QED  BY <1>1, FS_CardinalityType

LEMMA InitEnds == ASSUME Init PROVE EInv
<1>1. Shutting = {} /\ ~Running /\ ~Adding /\ holder.at = "none"
  BY DEF Init, Shutting, Running, Adding, NoHolder
<1>2. Cardinality(Shutting) = 0  BY <1>1, FS_EmptySet
<1>3. \A c \in Callers : pc[c] = "idle"  BY DEF Init
<1>4. Single  BY <1>1, <1>3 DEF Single, Init
<1>5. Enough  BY <1>1, <1>2 DEF Enough, Init
<1>6. Last  BY <1>1, <1>3 DEF Last
<1> QED  BY <1>4, <1>5, <1>6 DEF EInv, Init

LEMMA PanicEnds == ASSUME EInv, Panic PROVE EInv'
<1>1. Shutting' = {} /\ ~Running' /\ ~Adding' /\ holder'.at = "none"
  BY DEF Panic, Shutting, Running, Adding, NoHolder
<1>2. Cardinality(Shutting') = 0  BY <1>1, FS_EmptySet
<1>3. \A c \in Callers : pc'[c] = "dead"  BY DEF Panic
<1>4. Single'
  <2>1. \A g \in Loops : loop'[g] = "none"  BY DEF Panic
  <2> QED  BY <1>1, <1>3, <2>1 DEF Single
<1>5. Enough'  BY <1>1, <1>2 DEF Enough, Panic
<1>6. Last'  BY <1>1, <1>3 DEF Last
<1> QED  BY <1>4, <1>5, <1>6 DEF EInv, Panic

\* A step that starts and ends no goroutine, and leaves timer and signals alone.
LEMMA QuietEnds ==
  ASSUME IInv, EInv, UNCHANGED <<tick, timer, exits, doubled>>, unready => unready',
         \A g \in Loops : loop'[g] = "none" <=> loop[g] = "none",
         send' = send \/ (~unready' => AtRest),
         \/ holder' = holder
         \/ holder'.at # "add" /\ holder.at # "add" /\ (holder'.at = "arm" => send),
         \A c \in Callers : pc'[c] = "add" <=> pc[c] = "add",
         \A c \in Callers : pc'[c] = "new" => pc[c] = "new" \/ tick,
         \A c \in Callers : pc'[c] = "clear" => pc[c] = "clear" \/ ~Running,
         Shutting' = Shutting
  PROVE  EInv'
<1>1. Running' = Running  BY DEF Running
<1>2. Adding' = Adding  BY DEF Adding
<1>3. ~doubled => Single' /\ Enough'
  BY <1>1, <1>2 DEF EInv, Single, Enough
<1>4. ASSUME ~tick, ~unready' PROVE ~doubled /\ Last'
  <2>1. ~doubled /\ Last /\ Enough /\ Sending  BY <1>4 DEF EInv, IInv
  <2>2. \A c \in Callers : pc'[c] \notin {"new", "add"}  BY <1>4, <2>1 DEF Last
  <2>3. ((holder.at = "add" \/ Running) /\ timer = Nil => ~send)'
    <3>1. CASE send' = send  BY <1>1, <2>1, <3>1 DEF Last
    <3>2. CASE AtRest
      <4>1. Cardinality(Shutting) = 0 /\ exits = 0 /\ timer = Nil
        BY <3>2, FS_EmptySet DEF AtRest
      <4>2. ~Running /\ ~Adding  BY <2>1, <4>1 DEF Enough
      <4> QED  BY <1>1, <1>2, <4>2 DEF Adding
    <3> QED  BY <1>4, <3>1, <3>2
  <2>4. (holder.at = "arm" /\ (timer = Nil \/ \E c \in Callers : pc[c] = "clear") => ~Running)'
    <3>1. CASE holder' = holder  BY <1>1, <2>1, <3>1 DEF Last
    <3>2. CASE holder'.at = "arm" /\ send
      <4>1. \A c \in Callers : pc[c] # "clear"  BY <2>1, <3>2 DEF Sending, Shutting
      <4> QED  BY <1>1, <2>1, <3>2, <4>1 DEF Last
    <3> QED  BY <3>1, <3>2
  <2> QED  BY <2>1, <2>2, <2>3, <2>4 DEF Last
<1> QED  BY <1>3, <1>4 DEF EInv

\* The steps of a caller but for those of startDelayTimer and of Shutdown's beginning and
\* end.
LEMMA CallerEnds ==
  ASSUME IInv, EInv, NEW c \in Callers,
         \/ Enter(c) \/ Startup(c) \/ Destroy(c) \/ ShutdownWait(c) \/ ShutdownReset(c)
         \/ SetNil(c) \/ (ShutdownWoken(c) /\ ~Panic) \/ \E s \in Reports : Report(c, s)
  PROVE  EInv'
<1>1. pc \in [Callers -> Steps]  BY DEF IInv, TypeOK
<1>2. \A d \in Callers \ {c} : pc'[d] = pc[d]
  BY <1>1 DEF Enter, Startup, Destroy, ShutdownWait, ShutdownReset, SetNil, ShutdownWoken,
     Report, GoTo
<1>3. UNCHANGED <<tick, timer, loop, exits, holder, doubled>>
  BY DEF Enter, Startup, Destroy, ShutdownWait, ShutdownReset, SetNil, ShutdownWoken, Report
<1>4. (unready => unready') /\ (send' = send \/ (~unready' => AtRest))
  <2>1. CASE Startup(c)
    <3>1. unready' = (unready \/ ~AtRest)  BY <2>1 DEF Startup
    <3> QED  BY <3>1
  <2>2. CASE ~Startup(c)
    BY <2>2 DEF Enter, Destroy, ShutdownWait, ShutdownReset, SetNil, ShutdownWoken, Report
  <2> QED  BY <2>1, <2>2
<1>5. /\ pc[c] # "add" /\ pc'[c] # "add"
      /\ pc'[c] = "new" => tick
      /\ pc'[c] = "clear" => ~Running
      /\ pc[c] \in {"wait", "blocked", "woken", "clear"}
           <=> pc'[c] \in {"wait", "blocked", "woken", "clear"}
  BY <1>1 DEF Enter, Startup, Destroy, ShutdownWait, ShutdownReset, SetNil, ShutdownWoken,
     Report, GoTo
<1>6. Shutting' = Shutting  BY <1>2, <1>5 DEF Shutting
<1> QED  BY <1>2, <1>3, <1>4, <1>5, <1>6, QuietEnds

\* A timer is made: by Startup or by a refresh.
LEMMA MakeTimerEnds ==
  ASSUME IInv, EInv, NEW d, MakeTimer(d), UNCHANGED <<tick, send, loop, exits, unready>>,
         Shutting' = Shutting,
         \/ /\ holder' = holder
            /\ \E c \in Callers : pc[c] = "new" /\ pc' = [pc EXCEPT ![c] = "add"]
         \/ holder.at = "arm" /\ timer = Nil /\ holder'.at = "add" /\ pc' = pc
  PROVE  EInv'
<1>1. timer' # Nil /\ (doubled' \/ (~doubled /\ timer = Nil /\ ~Running /\ ~Adding))
  BY DEF MakeTimer
<1>2. Running' = Running  BY DEF Running
<1>3. ASSUME ~doubled' PROVE Single' /\ Enough'
  <2>1. ~doubled /\ timer = Nil /\ ~Running /\ ~Adding /\ Single /\ Enough
    BY <1>1, <1>3 DEF EInv
  <2>2. Single'
    <3>1. /\ \A g, h \in Loops : loop'[g] # "none" /\ loop'[h] # "none" => g = h
          /\ ~Running'
      BY <1>2, <2>1 DEF Single
    <3>2. /\ \A b, c \in Callers : pc'[b] = "add" /\ pc'[c] = "add" => b = c
          /\ \A c \in Callers : pc'[c] = "add" => holder'.at # "add"
      BY <2>1 DEF Adding, IInv, TypeOK
    <3> QED  BY <3>1, <3>2 DEF Single
  <2>3. Enough'  BY <1>1, <1>2, <2>1 DEF Enough
  <2> QED  BY <2>2, <2>3
<1>4. ASSUME ~tick, ~unready PROVE ~doubled' /\ Last'
  <2>1. ~doubled /\ Last  BY <1>4 DEF EInv
  <2>2. holder.at = "arm" /\ timer = Nil /\ holder'.at = "add" /\ pc' = pc  BY <2>1 DEF Last
  <2>3. ~Running /\ ~Adding  BY <2>1, <2>2 DEF Last, Adding
  <2>4. ~doubled'  BY <2>1, <2>2, <2>3 DEF MakeTimer
  <2>5. Last'  BY <1>1, <1>2, <2>1, <2>2 DEF Last
  <2> QED  BY <2>4, <2>5
<1> QED  BY <1>3, <1>4 DEF EInv

LEMMA StartupTimerEnds == ASSUME IInv, EInv, NEW c \in Callers, StartupTimer(c) PROVE EInv'
<1>1. pc[c] = "new" /\ pc' = [pc EXCEPT ![c] = "add"] /\ pc \in [Callers -> Steps]
  BY DEF StartupTimer, GoTo, IInv, TypeOK
<1>2. Shutting' = Shutting  BY <1>1 DEF Shutting
<1>3. UNCHANGED <<tick, send, loop, exits, unready, holder>> /\ MakeTimer(MaxInterval)
  BY DEF StartupTimer
<1> QED  BY <1>1, <1>2, <1>3, MakeTimerEnds

LEMMA RefreshArmEnds == ASSUME IInv, EInv, RefreshArm PROVE EInv'
<1>1. UNCHANGED <<tick, send, loop, exits, unready, pc>> /\ holder.at = "arm"
  BY DEF RefreshArm
<1>2. Shutting' = Shutting  BY <1>1 DEF Shutting
<1>3. holder \in [at: {"check", "arm", "reset", "add"}, d: 1 .. MaxInterval]
  BY <1>1 DEF IInv, TypeOK, NoHolder
<1>4. CASE timer = Nil
  <2>1. MakeTimer(holder.d) /\ holder'.at = "add"  BY <1>3, <1>4 DEF RefreshArm
  <2> QED  BY <1>1, <1>2, <1>4, <2>1, MakeTimerEnds
<1>5. CASE timer # Nil
  <2>1. holder'.at = "reset" /\ UNCHANGED <<timer, doubled>>  BY <1>3, <1>5 DEF RefreshArm
  <2> QED  BY <1>1, <1>2, <2>1, QuietEnds
<1> QED  BY <1>4, <1>5

\* The goroutine of a timer starts.
LEMMA StartLoopEnds ==
  ASSUME IInv, EInv, StartLoop,
         UNCHANGED <<tick, send, timer, exits, unready, doubled>>, Shutting' = Shutting,
         \/ /\ holder' = holder
            /\ \E c \in Callers : pc[c] = "add" /\ pc' = [pc EXCEPT ![c] = "idle"]
         \/ holder.at = "add" /\ holder'.at = "none" /\ pc' = pc
  PROVE  EInv'
<1>1. PICK g \in Loops : loop[g] = "none" /\ loop' = [loop EXCEPT ![g] = "eval"]
  BY DEF StartLoop
<1>2. loop \in [Loops -> Timers \cup {"none", "eval"}] /\ pc \in [Callers -> Steps]
  BY DEF IInv, TypeOK
<1>3. Running' /\ Adding  BY <1>1, <1>2 DEF Running, Adding
<1>4. ASSUME ~doubled PROVE Single' /\ Enough'
  <2>1. Single /\ Enough /\ ~Running  BY <1>3, <1>4 DEF EInv, Single
  <2>2. \A h \in Loops : loop'[h] # "none" => h = g  BY <1>1, <1>2, <2>1 DEF Running
  <2>3. ~Adding'  BY <1>2, <2>1 DEF Single, Adding
  <2>4. Single'
    <3>1. \A c, d \in Callers : pc'[c] = "add" /\ pc'[d] = "add" => c = d  BY <2>3 DEF Adding
    <3> QED  BY <2>2, <2>3, <3>1 DEF Single, Adding
  <2>5. Enough'  BY <1>3, <2>1 DEF Enough
  <2> QED  BY <2>4, <2>5
<1>5. ASSUME ~tick, ~unready PROVE ~doubled /\ Last'
  <2>1. ~doubled /\ Last  BY <1>5 DEF EInv
  <2>2. holder.at = "add" /\ holder'.at = "none" /\ pc' = pc  BY <2>1 DEF Last
  <2> QED  BY <2>1, <2>2 DEF Last
<1> QED  BY <1>4, <1>5 DEF EInv

LEMMA StartupLoopEnds == ASSUME IInv, EInv, NEW c \in Callers, StartupLoop(c) PROVE EInv'
<1>1. pc[c] = "add" /\ pc' = [pc EXCEPT ![c] = "idle"] /\ pc \in [Callers -> Steps]
  BY DEF StartupLoop, GoTo, IInv, TypeOK
<1>2. Shutting' = Shutting  BY <1>1 DEF Shutting
<1>3. UNCHANGED <<tick, send, timer, exits, unready, doubled, holder>> /\ StartLoop
  BY DEF StartupLoop
<1> QED  BY <1>1, <1>2, <1>3, StartLoopEnds

LEMMA RefreshLoopEnds == ASSUME IInv, EInv, RefreshLoop PROVE EInv'
<1>1. /\ UNCHANGED <<tick, send, timer, exits, unready, doubled, pc>> /\ StartLoop
      /\ holder.at = "add" /\ holder'.at = "none"
  BY DEF RefreshLoop, NoHolder
<1>2. Shutting' = Shutting  BY <1>1 DEF Shutting
<1> QED  BY <1>1, <1>2, StartLoopEnds

LEMMA ShutdownBegins == ASSUME IInv, EInv, NEW c \in Callers, Shutdown(c) PROVE EInv'
<1>1. pc[c] = "shut" /\ UNCHANGED <<tick, timer, holder, loop, doubled, unready>>
  BY DEF Shutdown
<1>2. pc \in [Callers -> Steps] /\ exits \in Nat  BY DEF IInv, TypeOK
<1>3. CASE timer = Nil
  <2>1. pc' = [pc EXCEPT ![c] = "reset"] /\ UNCHANGED <<send, exits>>
    BY <1>3 DEF Shutdown, GoTo
  <2>2. Shutting' = Shutting  BY <1>1, <1>2, <2>1 DEF Shutting
  <2> QED  BY <1>1, <1>2, <2>1, <2>2, QuietEnds
<1>4. CASE timer # Nil
  <2>1. pc' = [pc EXCEPT ![c] = "wait"] /\ exits' = exits + 1 /\ ~send'
    BY <1>4 DEF Shutdown, GoTo
  <2>2. Shutting' = Shutting \cup {c} /\ c \notin Shutting  BY <1>1, <1>2, <2>1 DEF Shutting
  <2>3. Cardinality(Shutting') = Cardinality(Shutting) + 1
    BY <2>2, ShuttingCounted, FS_AddElement
  <2>4. Running' = Running /\ Adding' = Adding  BY <1>1, <1>2, <2>1 DEF Running, Adding
  <2>5. ~doubled => Single'  BY <1>1, <1>2, <2>1, <2>4 DEF EInv, Single
  <2>6. ~doubled => Enough'
    BY <1>1, <1>2, <1>4, <2>1, <2>3, <2>4, ShuttingCounted DEF EInv, Enough
  <2>7. ~tick /\ ~unready => ~doubled /\ Last'  BY <1>1, <1>2, <2>1, <2>4 DEF EInv, Last
  <2> QED  BY <1>1, <2>5, <2>6, <2>7 DEF EInv
<1> QED  BY <1>3, <1>4

LEMMA ShutdownClearEnds == ASSUME IInv, EInv, NEW c \in Callers, ShutdownClear(c) PROVE EInv'
<1>1. /\ pc[c] = "clear" /\ timer' = Nil /\ pc' = [pc EXCEPT ![c] = "reset"]
      /\ UNCHANGED <<tick, send, holder, loop, exits, doubled, unready>>
  BY DEF ShutdownClear, GoTo
<1>2. pc \in [Callers -> Steps] /\ exits \in Nat  BY DEF IInv, TypeOK
<1>3. Shutting' = Shutting \ {c} /\ c \in Shutting  BY <1>1, <1>2 DEF Shutting
<1>4. Cardinality(Shutting') = Cardinality(Shutting) - 1
  BY <1>3, ShuttingCounted, FS_RemoveElement
<1>5. Running' = Running /\ Adding' = Adding  BY <1>1, <1>2 DEF Running, Adding
<1>6. ~doubled => Single'  BY <1>1, <1>2, <1>5 DEF EInv, Single
<1>7. ~doubled => Enough'  BY <1>1, <1>2, <1>4, <1>5, ShuttingCounted DEF EInv, Enough
<1>8. ~tick /\ ~unready => ~doubled /\ Last'
  <2>1. ~unready => ~send  BY <1>3 DEF IInv, Sending
  <2> QED  BY <1>1, <1>2, <1>5, <2>1 DEF EInv, Last
<1> QED  BY <1>1, <1>6, <1>7, <1>8 DEF EInv

\* Requests, and time.
LEMMA RequestEnds ==
  ASSUME IInv, EInv,
         \/ RequestKeyframe \/ TryRequestKeyframe \/ RequestKeyframeNow \/ RefreshCheck
         \/ RefreshReset \/ Tick \/ UNCHANGED vars
  PROVE  EInv'
<1>1. CASE Panic  BY <1>1, PanicEnds
<1>2. CASE ~Panic
  <2>1. UNCHANGED <<tick, send, timer, loop, exits, pc, unready, doubled>>
    BY <1>2 DEF RequestKeyframe, TryRequestKeyframe, RequestKeyframeNow, RefreshReset, Tick,
                RefreshCheck, vars
  <2>2. Shutting' = Shutting  BY <2>1 DEF Shutting
  <2>3. \/ holder' = holder
        \/ holder'.at # "add" /\ holder.at # "add" /\ (holder'.at = "arm" => send)
    <3>1. CASE TryRequestKeyframe  BY <3>1 DEF TryRequestKeyframe, MutexFree, NoHolder
    <3>2. CASE RequestKeyframeNow
      BY <1>2, <3>2 DEF RequestKeyframeNow, MutexFree, NoHolder
    <3>3. CASE RefreshCheck  BY <3>3 DEF RefreshCheck, NoHolder, IInv, TypeOK
    <3>4. CASE RefreshReset  BY <1>2, <3>4 DEF RefreshReset, NoHolder
    <3>5. CASE RequestKeyframe \/ Tick \/ UNCHANGED vars
      BY <3>5 DEF RequestKeyframe, Tick, vars
    <3> QED  BY <3>1, <3>2, <3>3, <3>4, <3>5
  <2> QED  BY <2>1, <2>2, <2>3, QuietEnds
<1> QED  BY <1>1, <1>2

\* The goroutine goes on in its loop.
LEMMA LoopEnds == ASSUME IInv, EInv, NEW g \in Loops, LoopEval(g) \/ LoopTimer(g) PROVE EInv'
<1>1. CASE Panic  BY <1>1, PanicEnds
<1>2. CASE ~Panic
  <2>1. UNCHANGED <<tick, send, timer, exits, pc, holder, unready, doubled>>
    BY <1>2 DEF LoopEval, LoopTimer
  <2>2. Shutting' = Shutting  BY <2>1 DEF Shutting
  <2>3. PICK v : /\ loop' = [loop EXCEPT ![g] = v]
                 /\ v = "eval" \/ (loop[g] = "eval" /\ v = timer /\ timer # Nil)
    BY <1>2 DEF LoopEval, LoopTimer
  <2>4. loop \in [Loops -> Timers \cup {"none", "eval"}] /\ timer \in Timers \cup {Nil}
    BY DEF IInv, TypeOK
  <2>5. v # "none" /\ loop[g] # "none"
    BY <1>2, <2>3, <2>4, TimersAssumption DEF LoopEval, LoopTimer
  <2>6. \A h \in Loops : loop'[h] = "none" <=> loop[h] = "none"  BY <2>3, <2>4, <2>5
  <2> QED  BY <2>1, <2>2, <2>6, QuietEnds
<1> QED  BY <1>1, <1>2

\* The goroutine takes a signal and ends, and Wait goes on for those blocked in it.
LEMMA LoopExitEnds == ASSUME IInv, EInv, NEW g \in Loops, LoopExit(g) PROVE EInv'
<1>1. /\ UNCHANGED <<tick, send, timer, holder, doubled, unready>>
      /\ exits \in Nat /\ exits' = exits - 1 /\ loop' = [loop EXCEPT ![g] = "none"]
  BY DEF LoopExit, IInv, TypeOK
<1>2. loop[g] # "none" /\ Running  BY TimersAssumption DEF LoopExit, Running
<1>3. pc' \in [Callers -> Steps]
      /\ \A c \in Callers : pc'[c] = pc[c] \/ (pc[c] = "blocked" /\ pc'[c] = "woken")
  BY DEF LoopExit, WakeIfLast, IInv, TypeOK, Steps
<1>4. Shutting' = Shutting /\ Adding' = Adding  BY <1>1, <1>3 DEF Shutting, Adding
<1>5. Running' => Running
  BY <1>2
<1>6. ASSUME ~doubled PROVE Single' /\ Enough'
  <2>1. Single /\ Enough /\ ~Adding  BY <1>2, <1>6 DEF EInv, Single
  <2>2. \A h \in Loops : loop'[h] = "none"  BY <1>1, <1>2, <2>1 DEF Single, IInv, TypeOK
  <2>3. ~Running'  BY <2>2 DEF Running
  <2>4. Single'  BY <1>4, <2>1, <2>2, <2>3 DEF Single, Adding
  <2>5. Enough'  BY <1>1, <1>2, <1>4, <2>1, <2>3, ShuttingCounted DEF Enough
  <2> QED  BY <2>4, <2>5
<1>7. ASSUME ~tick, ~unready PROVE ~doubled /\ Last'
  <2>1. ~doubled /\ Last  BY <1>7 DEF EInv
  <2>2. \A c \in Callers : /\ pc'[c] = "clear" => pc[c] = "clear"
                           /\ pc'[c] \in {"new", "add"} => pc[c] \in {"new", "add"}
    BY <1>3
  <2> QED  BY <1>1, <1>2, <2>1, <2>2 DEF Last
<1> QED  BY <1>1, <1>6, <1>7 DEF EInv

LEMMA NextEnds == ASSUME IInv, EInv, [Next]_vars PROVE EInv'
<1>1. ASSUME NEW c \in Callers, Call(c) PROVE EInv'
  <2>1. CASE ShutdownWoken(c) /\ Panic  BY <2>1, PanicEnds
  <2> QED
    BY <1>1, <2>1, CallerEnds, StartupTimerEnds, StartupLoopEnds, ShutdownBegins,
       ShutdownClearEnds DEF Call
<1>2. ASSUME NEW c \in Callers, Destroy(c) \/ \E s \in Reports : Report(c, s) PROVE EInv'
  BY <1>2, CallerEnds
<1>3. CASE \/ RequestKeyframe \/ TryRequestKeyframe \/ RequestKeyframeNow \/ Refresh \/ Tick
           \/ UNCHANGED vars
  BY <1>3, RequestEnds, RefreshArmEnds, RefreshLoopEnds DEF Refresh
<1>4. ASSUME NEW g \in Loops, Loop(g) PROVE EInv'
  BY <1>4, LoopEnds, LoopExitEnds DEF Loop
<1> QED  BY <1>1, <1>2, <1>3, <1>4 DEF Next

-----------------------------------------------------------------------------
(* The theorems.                                                           *)

\* The state keeps its type: no goroutine takes an exit signal that is not there, and
\* no timer is set to a time past its interval.
THEOREM KeyframeFilterTyped == Spec => []TypeOK
<1>1. Init => TypeOK  BY InitTyped
<1>2. TypeOK /\ [Next]_vars => TypeOK'  BY NextTyped
<1> QED  BY <1>1, <1>2, PTL DEF Spec

\* A request that was put off is not forgotten (NoStuckCache), over any number of
\* reconnections that find the filter at rest, whatever callbacks, Destroy, requests and
\* timers do at the same time.
THEOREM RequestNotForgotten == Spec => []NoStuckCache
<1>1. Init => IInv  BY InitOK
<1>2. IInv /\ [Next]_vars => IInv'  BY NextOK
<1>3. ASSUME IInv PROVE NoStuckCache
  <2> SUFFICES ASSUME ~unready, cached, nows = 0, holder = NoHolder,
                      \A c \in Callers : pc[c] \notin {"new", "add", "shut", "wait", "blocked",
                                                       "woken", "clear", "reset"}
               PROVE  \E g \in Loops : loop[g] = "eval"
                        \/ (loop[g] \in Timers /\ (due[loop[g]] > 0 \/ fired[loop[g]]))
    BY <1>3 DEF IInv, TypeOK, NoStuckCache
  <2>1. ~Resetting /\ ~Adding /\ holder.at = "none"
    BY DEF Resetting, Shutting, Adding, NoHolder
  <2>2. send  BY <1>3, <2>1 DEF IInv, Silent
  <2>3. timer # Nil /\ (due[timer] > 0 \/ fired[timer])  BY <1>3, <2>1 DEF IInv, Live
  <2>4. PICK g \in Loops : loop[g] \in {timer, "eval"}  BY <1>3, <2>1, <2>2, <2>3 DEF IInv, Served
  <2>5. timer \in Timers  BY <1>3, <2>3 DEF IInv, TypeOK
  <2> QED  BY <2>3, <2>4, <2>5
<1> QED  BY <1>1, <1>2, <1>3, PTL DEF Spec

\* A Shutdown always finds a signal left for the goroutine it waits for, unless Startup
\* and a first refresh have each started one, as they only do in a filter that ticks or
\* after a Startup that did not find the filter at rest (ShutdownEnds).
THEOREM ShutdownNotStuck == Spec => []ShutdownEnds
<1>1. Init => IInv /\ EInv  BY InitOK, InitEnds
<1>2. IInv /\ EInv /\ [Next]_vars => (IInv /\ EInv)'  BY NextOK, NextEnds
<1>3. ASSUME IInv, EInv PROVE ShutdownEnds
  <2>1. ASSUME ~doubled, Running, NEW c \in Callers, pc[c] \in {"wait", "blocked"}
        PROVE  exits > 0
    <3>1. Shutting # {}  BY <2>1 DEF Shutting
    <3>2. Cardinality(Shutting) > 0  BY <3>1, ShuttingCounted, FS_EmptySet
    <3>3. exits \in Nat /\ exits >= Cardinality(Shutting)
      BY <1>3, <2>1 DEF IInv, TypeOK, EInv, Enough
    <3> QED  BY <3>2, <3>3, ShuttingCounted
  <2>2. doubled => tick \/ unready  BY <1>3 DEF EInv
  <2> QED  BY <2>1, <2>2 DEF ShutdownEnds
<1> QED  BY <1>1, <1>2, <1>3, PTL DEF Spec

=============================================================================
