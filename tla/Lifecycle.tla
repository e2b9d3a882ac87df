------------------------------ MODULE Lifecycle ------------------------------
(***************************************************************************)
(* The life of one process: fx starts the hooks in the order of their      *)
(* registration (pool, HTTP server, background loops) and stops them in    *)
(* the reverse order, one after the other.  A loop that fails is restarted *)
(* after a backoff.  The hook of a loop, and that of the server, waits for *)
(* ShutdownTimeout at most, the pool's for as long as a connection is out, *)
(* and main gives all of them together ShutdownTimeout + Grace.            *)
(*                                                                         *)
(* Time is counted in seconds by Tick.  Loops and requests owe nothing:    *)
(* they may hold a connection, or go on, for ever.                         *)
(***************************************************************************)
EXTENDS Naturals, Sequences

CONSTANTS
  Loops,            \* the background loops, in the order of registration
  Requests,         \* HTTP requests, each of which may come again
  ShutdownTimeout,  \* what one hook may take
  Grace,            \* what all of them may take in addition
  MaxBackoff        \* maxBackoff

LoopNames == {Loops[i] : i \in DOMAIN Loops}

ASSUME LifecycleAssumption ==
  /\ Loops \in Seq(LoopNames)
  /\ \A i, j \in DOMAIN Loops : i # j => Loops[i] # Loops[j]
  /\ LoopNames \cap Requests = {} /\ {"pool", "http"} \cap LoopNames = {}
  /\ ShutdownTimeout \in Nat \ {0} /\ Grace \in Nat \ {0} /\ MaxBackoff \in Nat \ {0}

VARIABLES
  phase,      \* "starting", "up", "stopping", "exited"
  started,    \* how many hooks are started and not yet stopped
  entered,    \* the last of these is being stopped
  timedOut,   \* hooks that have given up waiting
  loop,       \* "off", "running", "waiting", "done"
  backoff,    \* the next wait of each loop
  remaining,  \* what is left of its present wait
  cancelled,  \* loops whose context is cancelled
  listening,  \* the server accepts requests
  inFlight,   \* requests it has not answered
  pool,       \* "open", "closing", "closed"
  connected,  \* loops and requests that hold a connection of the pool
  stopTime,   \* seconds since main has called Stop
  hookTime    \* seconds since the hook was entered

hooks == <<phase, started, entered, timedOut>>
loops == <<loop, backoff, remaining, cancelled>>
server == <<listening, inFlight>>
clock == <<stopTime, hookTime>>
vars == <<hooks, loops, server, pool, connected, clock>>

\* Variation: the pool is registered last, and so stopped first.
HooksPoolLast == <<"http">> \o Loops \o <<"pool">>

Hooks == <<"pool", "http">> \o Loops

Deadline == ShutdownTimeout + Grace
Alive == phase # "exited"

-----------------------------------------------------------------------------
\* Starting.

StartHook ==
  /\ phase = "starting" /\ started < Len(Hooks)
  /\ LET h == Hooks[started + 1] IN
     /\ listening' = (listening \/ h = "http")
     /\ loop' = [l \in LoopNames |-> IF l = h THEN "running" ELSE loop[l]]
  /\ started' = started + 1
  /\ UNCHANGED <<phase, entered, timedOut, backoff, remaining, cancelled, inFlight, pool,
                 connected, clock>>

\* The port is in use: the start is rolled back, the pool closed, main exits.
PortInUse ==
  /\ phase = "starting" /\ started < Len(Hooks) /\ Hooks[started + 1] = "http"
  /\ phase' = "exited" /\ started' = 0 /\ pool' = "closed"
  /\ UNCHANGED <<entered, timedOut, loops, server, connected, clock>>

StartReturns ==
  /\ phase = "starting" /\ started = Len(Hooks)
  /\ phase' = "up"
  /\ UNCHANGED <<started, entered, timedOut, loops, server, pool, connected, clock>>

-----------------------------------------------------------------------------
\* The background loops.

\* Variation: a loop that fails is left dead.
RunFailsForGood(l) ==
  /\ Alive /\ loop[l] = "running" /\ l \notin connected
  /\ loop' = [loop EXCEPT ![l] = "done"]
  /\ UNCHANGED <<hooks, backoff, remaining, cancelled, server, pool, connected, clock>>

\* run returns an error that is not a cancellation.
RunFails(l) ==
  /\ Alive /\ loop[l] = "running" /\ l \notin connected
  /\ loop' = [loop EXCEPT ![l] = "waiting"]
  /\ remaining' = [remaining EXCEPT ![l] = backoff[l]]
  /\ UNCHANGED <<hooks, backoff, cancelled, server, pool, connected, clock>>

\* run returns context.Canceled, which it does only once it is cancelled.
RunCancelled(l) ==
  /\ Alive /\ loop[l] = "running" /\ l \in cancelled \ connected
  /\ loop' = [loop EXCEPT ![l] = "done"]
  /\ UNCHANGED <<hooks, backoff, remaining, cancelled, server, pool, connected, clock>>

\* Variation: without the limit.
DoubledForEver(b) == 2 * b

Doubled(b) == IF 2 * b > MaxBackoff THEN MaxBackoff ELSE 2 * b

\* time.After(backoff), which select may take although ctx is done as well.
\* backoff never shrinks again.
Restart(l) ==
  /\ Alive /\ loop[l] = "waiting" /\ remaining[l] = 0
  /\ loop' = [loop EXCEPT ![l] = "running"]
  /\ backoff' = [backoff EXCEPT ![l] = Doubled(@)]
  /\ UNCHANGED <<hooks, remaining, cancelled, server, pool, connected, clock>>

\* ctx.Done() during the backoff.
GiveUp(l) ==
  /\ Alive /\ loop[l] = "waiting" /\ l \in cancelled
  /\ loop' = [loop EXCEPT ![l] = "done"]
  /\ UNCHANGED <<hooks, backoff, remaining, cancelled, server, pool, connected, clock>>

-----------------------------------------------------------------------------
\* Requests and connections.

Arrive(r) ==
  /\ Alive /\ listening /\ r \notin inFlight
  /\ inFlight' = inFlight \cup {r}
  /\ UNCHANGED <<hooks, loops, listening, pool, connected, clock>>

Answer(r) ==
  /\ Alive /\ r \in inFlight \ connected
  /\ inFlight' = inFlight \ {r}
  /\ UNCHANGED <<hooks, loops, listening, pool, connected, clock>>

\* A closing pool gives out no connection, nor does any to a cancelled context.
Working(u) ==
  \/ u \in inFlight
  \/ u \in LoopNames \ cancelled /\ loop[u] = "running"

Acquire(u) ==
  /\ Alive /\ pool = "open" /\ u \notin connected /\ Working(u)
  /\ connected' = connected \cup {u}
  /\ UNCHANGED <<hooks, loops, server, pool, clock>>

GiveBack(u) ==
  /\ Alive /\ u \in connected
  /\ connected' = connected \ {u}
  /\ UNCHANGED <<hooks, loops, server, pool, clock>>

-----------------------------------------------------------------------------
\* Stopping.

\* SIGINT or SIGTERM: main calls Stop.
Signal ==
  /\ phase = "up"
  /\ phase' = "stopping"
  /\ UNCHANGED <<started, entered, timedOut, loops, server, pool, connected, clock>>

Current == Hooks[started]

\* fx enters the next hook unless its own context has expired.
EnterHook ==
  /\ phase = "stopping" /\ ~entered /\ started > 0 /\ stopTime < Deadline
  /\ entered' = TRUE /\ hookTime' = 0
  /\ cancelled' = cancelled \cup ({Current} \cap LoopNames)
  /\ listening' = (listening /\ Current # "http")
  /\ pool' = IF Current = "pool" THEN "closing" ELSE pool
  /\ UNCHANGED <<phase, started, timedOut, loop, backoff, remaining, inFlight, connected, stopTime>>

\* What a hook waits for: <-done, an idle server, all connections given back.
Finished(h) ==
  CASE h = "pool" -> connected = {}
    [] h = "http" -> inFlight = {}
    [] OTHER -> loop[h] = "done"

LeaveHook ==
  /\ phase = "stopping" /\ entered /\ Finished(Current)
  /\ entered' = FALSE /\ started' = started - 1
  /\ pool' = IF Current = "pool" THEN "closed" ELSE pool
  /\ UNCHANGED <<phase, timedOut, loops, server, connected, clock>>

\* time.After(cfg.ShutdownTimeout): the hook returns an error, and fx goes on.
HookTimesOut ==
  /\ phase = "stopping" /\ entered /\ Current # "pool" /\ hookTime = ShutdownTimeout
  /\ entered' = FALSE /\ started' = started - 1
  /\ timedOut' = timedOut \cup {Current}
  /\ UNCHANGED <<phase, loops, server, pool, connected, clock>>

\* Variation: Stop is not given a deadline.
ExitWhenStopped ==
  /\ phase = "stopping" /\ started = 0
  /\ phase' = "exited"
  /\ UNCHANGED <<started, entered, timedOut, loops, server, pool, connected, clock>>

\* Stop returns, after the last hook or at its deadline, and main exits.
Exit ==
  /\ phase = "stopping" /\ (started = 0 \/ stopTime = Deadline)
  /\ phase' = "exited"
  /\ UNCHANGED <<started, entered, timedOut, loops, server, pool, connected, clock>>

\* A second passes; what is due at its end is not delayed by another.
Tick ==
  /\ \/ phase = "stopping" /\ stopTime < Deadline
     \/ phase = "up" /\ \E l \in LoopNames : loop[l] = "waiting" /\ remaining[l] > 0
  /\ ~(entered /\ Current # "pool" /\ hookTime = ShutdownTimeout)
  /\ stopTime' = IF phase = "stopping" THEN stopTime + 1 ELSE stopTime
  /\ hookTime' = IF entered THEN hookTime + 1 ELSE hookTime
  /\ remaining' = [l \in LoopNames |-> IF remaining[l] > 0 THEN remaining[l] - 1 ELSE 0]
  /\ UNCHANGED <<hooks, loop, backoff, cancelled, server, pool, connected>>

-----------------------------------------------------------------------------
Init ==
  /\ phase = "starting" /\ started = 0 /\ entered = FALSE /\ timedOut = {}
  /\ loop = [l \in LoopNames |-> "off"]
  /\ backoff = [l \in LoopNames |-> 1]
  /\ remaining = [l \in LoopNames |-> 0]
  /\ cancelled = {}
  /\ listening = FALSE /\ inFlight = {}
  /\ pool = "open" /\ connected = {}
  /\ stopTime = 0 /\ hookTime = 0

Next ==
  \/ StartHook \/ PortInUse \/ StartReturns
  \/ \E l \in LoopNames : RunFails(l) \/ RunCancelled(l) \/ Restart(l) \/ GiveUp(l)
  \/ \E r \in Requests : Arrive(r) \/ Answer(r)
  \/ \E u \in LoopNames \cup Requests : Acquire(u) \/ GiveBack(u)
  \/ Signal \/ EnterHook \/ LeaveHook \/ HookTimesOut \/ Exit \/ Tick

Spec == Init /\ [][Next]_vars

\* Go runs what is due, and time passes.  Nothing is asked of a run, a request
\* or whoever holds a connection.
Fairness ==
  /\ WF_vars(StartHook) /\ WF_vars(StartReturns) /\ WF_vars(Tick)
  /\ WF_vars(EnterHook) /\ WF_vars(LeaveHook) /\ WF_vars(HookTimesOut) /\ WF_vars(Exit)
  /\ \A l \in LoopNames : WF_vars(Restart(l))

FairSpec == Spec /\ Fairness

-----------------------------------------------------------------------------
TypeOK ==
  /\ phase \in {"starting", "up", "stopping", "exited"}
  /\ started \in 0..Len(Hooks) /\ entered \in BOOLEAN
  /\ timedOut \subseteq {"http"} \cup LoopNames
  /\ loop \in [LoopNames -> {"off", "running", "waiting", "done"}]
  /\ backoff \in [LoopNames -> 1..MaxBackoff]
  /\ remaining \in [LoopNames -> 0..MaxBackoff]
  /\ cancelled \subseteq LoopNames
  /\ listening \in BOOLEAN /\ inFlight \subseteq Requests
  /\ pool \in {"open", "closing", "closed"}
  /\ connected \subseteq LoopNames \cup Requests
  /\ stopTime \in 0..Deadline /\ hookTime \in 0..Deadline

\* "no one should lose access to Postgres before genuinely no longer needing
\* it", as far as it is true: whoever still works when the pool closes is a loop
\* or a request that its own hook has waited for in vain.
Ended(l) == loop[l] \in {"off", "done"}

OnlyTheLateLoseThePool ==
  pool # "open" =>
    /\ \A l \in LoopNames : Ended(l) \/ l \in timedOut
    /\ inFlight = {} \/ "http" \in timedOut

\* No loop or request, however it hangs, keeps the process from exiting: the
\* pool's hook, which has no timeout of its own, least of all.
StopEnds == phase = "stopping" ~> phase = "exited"

\* A loop that fails runs again, however often it has failed, until the process
\* is told to stop.
LoopsComeBack ==
  \A l \in LoopNames : []<>(loop[l] = "running" \/ phase # "up")

\* lifecycle.go, registerPostgresPool: "its own OnStop runs last, once HTTP
\* handlers and background workers still using the pool have all finished".
PoolClosesAfterItsUsers ==
  pool # "open" => inFlight = {} /\ \A l \in LoopNames : Ended(l)

\* ARCHITECTURE.md: a request in flight is not cut only because a background
\* worker is still finishing.  At the exit, whoever is cut has had its time.
RequestsHaveTheirTime ==
  phase = "exited" /\ inFlight # {} => "http" \in timedOut

\* ARCHITECTURE.md: no new request is accepted while the workers that would do
\* its work have stopped.
RequestsFindWorkers ==
  [][\A r \in Requests : r \in inFlight' \ inFlight => cancelled = {}]_vars

=============================================================================
