-------------------------- MODULE LifecycleProofs ---------------------------
(***************************************************************************)
(* Who can lose the pool, for any number of loops and any timeouts.        *)
(*                                                                         *)
(* The hooks are stopped in the reverse order of their start, so "started" *)
(* says of each of them whether it has been waited for: whoever stands     *)
(* above it in Hooks has ended, or its hook has given up.                  *)
(***************************************************************************)
EXTENDS Lifecycle, SequenceTheorems, TLAPS

\* Where each hook stands.
LEMMA HooksInOrder ==
  /\ Len(Loops) \in Nat /\ Len(Hooks) = Len(Loops) + 2
  /\ Hooks[1] = "pool" /\ Hooks[2] = "http"
  /\ \A i \in 1..Len(Loops) : Loops[i] \in LoopNames /\ Hooks[i + 2] = Loops[i]
  /\ \A i, j \in 1..Len(Loops) : Loops[i] = Loops[j] => i = j
  /\ \A l \in LoopNames : \E i \in 1..Len(Loops) : l = Loops[i]
<1>1. /\ Loops \in Seq(LoopNames) /\ Len(Loops) \in Nat /\ DOMAIN Loops = 1..Len(Loops)
      /\ \A i \in 1..Len(Loops) : Loops[i] \in LoopNames
  BY LifecycleAssumption
<1>2. /\ Loops \in Seq(LoopNames \cup {"pool", "http"})
      /\ <<"pool", "http">> \in Seq(LoopNames \cup {"pool", "http"})
  BY <1>1
<1>3. /\ Len(Hooks) = Len(Loops) + 2
      /\ \A k \in 1..Len(Hooks) : Hooks[k] = IF k <= 2 THEN <<"pool", "http">>[k] ELSE Loops[k - 2]
  BY <1>2, ConcatProperties DEF Hooks
<1>4. Hooks[1] = "pool" /\ Hooks[2] = "http"
  BY <1>1, <1>3
<1>5. \A i \in 1..Len(Loops) : Hooks[i + 2] = Loops[i]
  BY <1>1, <1>3
<1>6. \A i, j \in 1..Len(Loops) : Loops[i] = Loops[j] => i = j
  BY <1>1, LifecycleAssumption
<1> QED
  BY <1>1, <1>3, <1>4, <1>5, <1>6 DEF LoopNames

\* Every hook is the pool's, the server's or a loop's, and knows its place.
LEMMA HookNames ==
  ASSUME NEW k \in 1..Len(Hooks)
  PROVE  /\ Hooks[k] \in {"pool", "http"} \cup LoopNames
         /\ Hooks[k] = "pool" <=> k = 1
         /\ Hooks[k] = "http" <=> k = 2
         /\ Hooks[k] \in LoopNames <=> k > 2
         /\ k > 2 => Hooks[k] = Loops[k - 2] /\ k - 2 \in 1..Len(Loops)
<1>1. CASE k <= 2
  BY <1>1, HooksInOrder, LifecycleAssumption
<1>2. CASE k > 2
  <2>1. k - 2 \in 1..Len(Loops) /\ k = (k - 2) + 2
    BY <1>2, HooksInOrder
  <2>2. Hooks[k] = Loops[k - 2] /\ Loops[k - 2] \in LoopNames
    BY <2>1, HooksInOrder
  <2> QED
    BY <1>2, <2>1, <2>2, LifecycleAssumption
<1> QED
  BY <1>1, <1>2

-----------------------------------------------------------------------------
\* A loop whose hook is not started, or no longer, runs only if that hook has
\* given up waiting for it.
LoopsInOrder ==
  \A i \in 1..Len(Loops) :
    i + 2 > started => Ended(Loops[i]) \/ Loops[i] \in timedOut

\* So do requests, and the server accepts none from the moment its hook is
\* entered.
ServerInOrder ==
  /\ started < 2 => ~listening /\ (inFlight = {} \/ "http" \in timedOut)
  /\ started = 2 /\ entered => ~listening

\* The pool is touched last.
PoolIsLast == pool # "open" => started < 2

\* What the phases exclude.
Phases ==
  /\ phase = "starting" => pool = "open"
  /\ phase \in {"starting", "up"} => ~entered
  /\ phase = "up" => started = Len(Hooks)
  /\ entered => started > 0
  /\ hookTime <= stopTime

IInv == TypeOK /\ LoopsInOrder /\ ServerInOrder /\ PoolIsLast /\ Phases

-----------------------------------------------------------------------------
\* Nothing runs, nothing is accepted.
LEMMA InitHolds == Init => IInv
<1> SUFFICES ASSUME Init PROVE IInv
  OBVIOUS
<1> USE DEF Init
<1>1. TypeOK
  <2>1. 0 \in 0..Len(Hooks) /\ 0 \in 0..Deadline /\ 1 \in 1..MaxBackoff /\ 0 \in 0..MaxBackoff
    BY HooksInOrder, LifecycleAssumption DEF Deadline
  <2> QED
    BY <2>1 DEF TypeOK
<1>2. LoopsInOrder
  BY HooksInOrder DEF LoopsInOrder, Ended
<1>3. ServerInOrder /\ PoolIsLast /\ Phases
  BY DEF ServerInOrder, PoolIsLast, Phases
<1> QED
  BY <1>1, <1>2, <1>3 DEF IInv

\* The start goes through the hooks upwards; what it starts is not above it.
LEMMA StartHolds ==
  ASSUME IInv, StartHook \/ PortInUse \/ StartReturns
  PROVE  IInv'
<1> USE DEF IInv, hooks, loops, server, clock
<1>1. CASE StartHook
  <2>1. /\ phase = "starting" /\ started < Len(Hooks) /\ started' = started + 1
        /\ started + 1 \in 1..Len(Hooks) /\ started \in Nat /\ ~entered /\ pool = "open"
        /\ UNCHANGED <<phase, entered, timedOut, backoff, remaining, cancelled, inFlight, pool,
                       connected, stopTime, hookTime>>
        /\ listening' = (listening \/ Hooks[started + 1] = "http")
        /\ loop' = [l \in LoopNames |->
                      IF l = Hooks[started + 1] THEN "running" ELSE loop[l]]
    BY <1>1, HooksInOrder DEF StartHook, TypeOK, Phases
  <2>2. TypeOK'
    BY <2>1 DEF TypeOK
  <2>3. LoopsInOrder'
    <3> SUFFICES ASSUME NEW i \in 1..Len(Loops), i + 2 > started'
                 PROVE  Ended(Loops[i])' \/ Loops[i] \in timedOut'
      BY DEF LoopsInOrder
    <3>1. Loops[i] # Hooks[started + 1] /\ Loops[i] \in LoopNames
      <4>1. CASE started + 1 > 2
        <5>1. Hooks[started + 1] = Loops[(started + 1) - 2] /\ (started + 1) - 2 \in 1..Len(Loops)
          BY <2>1, <4>1, HookNames
        <5> QED
          BY <2>1, <5>1, HooksInOrder
      <4>2. CASE ~(started + 1 > 2)
        BY <2>1, <4>2, HooksInOrder, HookNames
      <4> QED
        BY <4>1, <4>2
    <3> QED
      BY <2>1, <3>1 DEF LoopsInOrder, Ended
  <2>4. ServerInOrder'
    <3>1. Hooks[started + 1] = "http" <=> started + 1 = 2
      BY <2>1, HookNames
    <3>2. started + 1 # 2 => (listening' <=> listening)
      BY <2>1, <3>1
    <3>3. started' < 2 => started < 2 /\ started + 1 # 2
      BY <2>1
    <3> QED
      BY <2>1, <3>2, <3>3 DEF ServerInOrder
  <2> QED
    BY <2>1, <2>2, <2>3, <2>4 DEF PoolIsLast, Phases
<1>2. CASE PortInUse
  <2>1. started = 1 /\ started' = 0
    BY <1>2, HookNames, HooksInOrder DEF PortInUse, TypeOK
  <2> QED
    BY <1>2, <2>1, HooksInOrder
    DEF PortInUse, TypeOK, LoopsInOrder, Ended, ServerInOrder, PoolIsLast, Phases
<1>3. CASE StartReturns
  BY <1>3 DEF StartReturns, TypeOK, LoopsInOrder, Ended, ServerInOrder, PoolIsLast, Phases
<1> QED
  BY <1>1, <1>2, <1>3

\* A loop that has ended never runs again, and the others are not above.
LEMMA LoopHolds ==
  ASSUME IInv, NEW l \in LoopNames, RunFails(l) \/ RunCancelled(l) \/ Restart(l) \/ GiveUp(l)
  PROVE  IInv'
<1> USE DEF IInv, hooks, loops, server, clock
<1>1. /\ UNCHANGED <<phase, started, entered, timedOut, cancelled, listening, inFlight, pool,
                     connected, stopTime, hookTime>>
      /\ ~Ended(l) /\ \A k \in LoopNames \ {l} : loop'[k] = loop[k]
      /\ loop' \in [LoopNames -> {"off", "running", "waiting", "done"}]
  BY DEF RunFails, RunCancelled, Restart, GiveUp, Ended, TypeOK
<1>2. backoff' \in [LoopNames -> 1..MaxBackoff]
  <2>1. \A b \in 1..MaxBackoff : Doubled(b) \in 1..MaxBackoff
    BY LifecycleAssumption DEF Doubled
  <2>2. CASE Restart(l)
    BY <2>1, <2>2 DEF Restart, TypeOK
  <2>3. CASE ~Restart(l)
    BY <2>3 DEF RunFails, RunCancelled, GiveUp, TypeOK
  <2> QED
    BY <2>2, <2>3
<1>3. remaining' \in [LoopNames -> 0..MaxBackoff]
  BY LifecycleAssumption DEF RunFails, RunCancelled, Restart, GiveUp, TypeOK
<1>4. TypeOK'
  BY <1>1, <1>2, <1>3 DEF TypeOK
<1>5. LoopsInOrder'
  <2> SUFFICES ASSUME NEW i \in 1..Len(Loops), i + 2 > started'
               PROVE  Ended(Loops[i])' \/ Loops[i] \in timedOut'
    BY DEF LoopsInOrder
  <2>1. Ended(Loops[i]) \/ Loops[i] \in timedOut
    BY <1>1 DEF LoopsInOrder
  <2>2. Loops[i] \in LoopNames
    BY HooksInOrder
  <2> QED
    BY <1>1, <2>1, <2>2 DEF Ended
<1> QED
  BY <1>1, <1>4, <1>5 DEF ServerInOrder, PoolIsLast, Phases

\* Requests come only while the server listens; connections change nothing.
LEMMA WorkHolds ==
  ASSUME IInv,
         \/ \E r \in Requests : Arrive(r) \/ Answer(r)
         \/ \E u \in LoopNames \cup Requests : Acquire(u) \/ GiveBack(u)
  PROVE  IInv'
<1> USE DEF IInv, hooks, loops, server, clock
<1>1. /\ UNCHANGED <<phase, started, entered, timedOut, loop, backoff, remaining, cancelled,
                     listening, pool, stopTime, hookTime>>
      /\ inFlight' \subseteq Requests /\ connected' \subseteq LoopNames \cup Requests
      /\ inFlight' \subseteq inFlight \/ listening
  BY DEF Arrive, Answer, Acquire, GiveBack, TypeOK
<1>2. TypeOK'
  BY <1>1 DEF TypeOK
<1>3. LoopsInOrder'
  BY <1>1 DEF LoopsInOrder, Ended
<1>4. ServerInOrder'
  BY <1>1 DEF ServerInOrder
<1> QED
  BY <1>1, <1>2, <1>3, <1>4 DEF PoolIsLast, Phases

-----------------------------------------------------------------------------
\* A hook is entered: its loop is cancelled, or the server stops listening, or
\* the pool, being the last one, begins to close.
LEMMA EnterHolds == ASSUME IInv, EnterHook PROVE IInv'
<1> USE DEF IInv, hooks, loops, server, clock
<1>1. /\ started \in 1..Len(Hooks) /\ phase = "stopping" /\ entered' = TRUE /\ hookTime' = 0
      /\ UNCHANGED <<phase, started, timedOut, loop, backoff, remaining, inFlight, connected, stopTime>>
      /\ cancelled' = cancelled \cup ({Hooks[started]} \cap LoopNames)
      /\ listening' = (listening /\ Hooks[started] # "http")
      /\ pool' = IF Hooks[started] = "pool" THEN "closing" ELSE pool
  BY HooksInOrder DEF EnterHook, Current, TypeOK
<1>2. TypeOK'
  BY <1>1, LifecycleAssumption DEF TypeOK, Deadline
<1>3. LoopsInOrder'
  BY <1>1 DEF LoopsInOrder, Ended
<1>4. ServerInOrder' /\ PoolIsLast'
  <2>1. /\ Hooks[started] = "http" <=> started = 2
        /\ Hooks[started] = "pool" <=> started = 1
    BY <1>1, HookNames
  <2>2. ~listening' \/ (started # 2 /\ (listening' <=> listening))
    BY <1>1, <2>1
  <2>3. ServerInOrder'
    BY <1>1, <2>2 DEF ServerInOrder
  <2>4. PoolIsLast'
    BY <1>1, <2>1 DEF PoolIsLast
  <2> QED
    BY <2>3, <2>4
<1>5. Phases'
  BY <1>1, LifecycleAssumption DEF Phases, TypeOK, Deadline
<1> QED
  BY <1>2, <1>3, <1>4, <1>5

\* A hook is left: its loop is done or late, its requests are answered or late.
LEMMA LeaveHolds == ASSUME IInv, LeaveHook \/ HookTimesOut PROVE IInv'
<1> USE DEF IInv, hooks, loops, server, clock
<1>1. /\ entered /\ phase = "stopping" /\ started \in 1..Len(Hooks)
      /\ entered' = FALSE /\ started' = started - 1
      /\ UNCHANGED <<phase, loop, backoff, remaining, cancelled, listening, inFlight, connected,
                     stopTime, hookTime>>
  BY HooksInOrder DEF LeaveHook, HookTimesOut, Phases, TypeOK
<1>2. /\ timedOut \subseteq timedOut' /\ timedOut' \subseteq {"http"} \cup LoopNames
      /\ Finished(Hooks[started]) \/ Hooks[started] \in timedOut'
      /\ pool' \in {"open", "closing", "closed"} /\ (pool' # pool => Hooks[started] = "pool")
  BY <1>1, HookNames DEF LeaveHook, HookTimesOut, Current, TypeOK
<1>3. TypeOK'
  <2>1. started - 1 \in 0..Len(Hooks)
    BY <1>1, HooksInOrder
  <2> QED
    BY <1>1, <1>2, <2>1 DEF TypeOK
<1>4. LoopsInOrder'
  <2> SUFFICES ASSUME NEW i \in 1..Len(Loops), i + 2 > started'
               PROVE  Ended(Loops[i])' \/ Loops[i] \in timedOut'
    BY DEF LoopsInOrder
  <2>1. CASE i + 2 > started
    BY <1>1, <1>2, <2>1 DEF LoopsInOrder, Ended
  <2>2. CASE i + 2 = started
    <3>1. Hooks[started] = Loops[i] /\ Loops[i] \in LoopNames /\ Loops[i] \notin {"pool", "http"}
      BY <2>2, HooksInOrder, LifecycleAssumption
    <3>2. Finished(Hooks[started]) => loop[Loops[i]] = "done"
      BY <3>1 DEF Finished
    <3> QED
      BY <1>1, <1>2, <3>1, <3>2 DEF Ended
  <2> QED
    BY <1>1, <2>1, <2>2, HooksInOrder
<1>5. ServerInOrder'
  <2>1. CASE started = 2
    <3>1. Hooks[started] = "http" /\ (Finished("http") => inFlight = {})
      BY <2>1, HooksInOrder DEF Finished
    <3> QED
      BY <1>1, <1>2, <2>1, <3>1 DEF ServerInOrder
  <2>2. CASE started # 2
    BY <1>1, <1>2, <2>2 DEF ServerInOrder
  <2> QED
    BY <2>1, <2>2
<1>6. PoolIsLast'
  BY <1>1, <1>2, HookNames DEF PoolIsLast
<1>7. Phases'
  BY <1>1 DEF Phases
<1> QED
  BY <1>3, <1>4, <1>5, <1>6, <1>7

\* Signal, exit and the clock touch none of this.
LEMMA RestHolds == ASSUME IInv, Signal \/ Exit \/ Tick \/ UNCHANGED vars PROVE IInv'
<1> USE DEF IInv, hooks, loops, server, clock
<1>1. /\ UNCHANGED <<started, entered, timedOut, loop, backoff, cancelled, listening, inFlight,
                     pool, connected>>
      /\ phase' = phase \/ phase' \in {"stopping", "exited"}
  BY DEF Signal, Exit, Tick, vars
<1>2. /\ remaining' \in [LoopNames -> 0..MaxBackoff]
      /\ stopTime' \in 0..Deadline /\ hookTime' \in 0..Deadline /\ hookTime' <= stopTime'
  <2>1. CASE Tick
    <3>1. remaining' \in [LoopNames -> 0..MaxBackoff]
      <4>1. \A k \in LoopNames : remaining[k] \in 0..MaxBackoff
        BY DEF TypeOK
      <4>2. \A k \in LoopNames :
              (IF remaining[k] > 0 THEN remaining[k] - 1 ELSE 0) \in 0..MaxBackoff
        BY <4>1, LifecycleAssumption
      <4> QED
        BY <2>1, <4>2 DEF Tick
    <3>2. entered => phase = "stopping" \/ phase = "exited"
      BY DEF Phases, TypeOK
    <3>3. stopTime' \in 0..Deadline /\ hookTime' <= stopTime' /\ hookTime' \in Nat
      BY <2>1, <3>2, LifecycleAssumption DEF Tick, TypeOK, Phases, Deadline
    <3> QED
      BY <3>1, <3>3, LifecycleAssumption DEF Deadline
  <2>2. CASE ~Tick
    BY <2>2 DEF Signal, Exit, vars, TypeOK, Phases
  <2> QED
    BY <2>1, <2>2
<1>3. TypeOK'
  BY <1>1, <1>2 DEF TypeOK
<1>4. LoopsInOrder'
  BY <1>1 DEF LoopsInOrder, Ended
<1>5. ServerInOrder' /\ PoolIsLast'
  BY <1>1 DEF ServerInOrder, PoolIsLast
<1>6. Phases'
  BY <1>1, <1>2 DEF Phases
<1> QED
  BY <1>3, <1>4, <1>5, <1>6

\* Every step keeps the invariant.
LEMMA StepHolds == IInv /\ [Next]_vars => IInv'
BY StartHolds, LoopHolds, WorkHolds, EnterHolds, LeaveHolds, RestHolds DEF Next

\* The invariant holds in every behaviour.
LEMMA Invariance == Spec => []IInv
BY InitHolds, StepHolds, PTL DEF Spec

\* Hooks, loops, timers and connections keep their types; the backoff stays
\* within its limit and the clock within the deadline.
THEOREM TypeCorrect == Spec => []TypeOK
<1>1. IInv => TypeOK
  BY DEF IInv
<1> QED
  BY <1>1, Invariance, PTL

\* Whoever still works when the pool closes has been waited for in vain.
THEOREM PoolOutlivesTheRest == Spec => []OnlyTheLateLoseThePool
<1>1. IInv => OnlyTheLateLoseThePool
  <2> SUFFICES ASSUME IInv, pool # "open"
               PROVE  /\ \A l \in LoopNames : Ended(l) \/ l \in timedOut
                      /\ inFlight = {} \/ "http" \in timedOut
    BY DEF OnlyTheLateLoseThePool
  <2>1. started < 2 /\ started \in Nat
    BY DEF IInv, PoolIsLast, TypeOK
  <2>2. inFlight = {} \/ "http" \in timedOut
    BY <2>1 DEF IInv, ServerInOrder
  <2>3. ASSUME NEW l \in LoopNames PROVE Ended(l) \/ l \in timedOut
    <3>1. PICK i \in 1..Len(Loops) : l = Loops[i]
      BY HooksInOrder
    <3> QED
      BY <2>1, <3>1, HooksInOrder DEF IInv, LoopsInOrder
  <2> QED
    BY <2>2, <2>3
<1> QED
  BY <1>1, Invariance, PTL

=============================================================================
