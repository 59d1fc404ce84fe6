-------------------------------- MODULE Host --------------------------------
(***************************************************************************)
(* runtime/host.go: the component lifecycle.  All methods run under h.mu;  *)
(* Start, Stop and Undeploy call into components while they hold it.  A    *)
(* Deployer (runtime/deploy.go) that is hosted is a component whose own    *)
(* goroutine calls Deploy and Undeploy, and whose Stop waits for it.       *)
(***************************************************************************)
EXTENDS Naturals, Sequences, FiniteSets, Functions

CONSTANTS
  Names,     \* component names
  Deployer,  \* the name of the hosted Deployer, or None: there is none
  Callers,   \* goroutines that call the lifecycle methods
  None,      \* nobody, no name
  MaxCalls   \* bound: calls the Callers make

ASSUME HostAssumption ==
  None \notin Names \cup Callers /\ Deployer \in Names \cup {None}
  /\ Callers \cap Names = {} /\ MaxCalls \in Nat

\* The Deployer's goroutine goes by the Deployer's name.
Threads == Callers \cup ({Deployer} \ {None})

VARIABLES
  order,      \* h.order
  comps,      \* the names in h.comps
  running,    \* h.running
  started,    \* h.started
  mu,         \* the goroutine that holds h.mu
  at,         \* where it is: "start", "unwind", "stop", "undeploy", or "idle"
  i,          \* its index into h.order
  call,       \* per goroutine: the method it is in and its name argument
  calls,      \* number of calls the Callers made
  up,         \* per component: successful Starts minus Stops
  loop,       \* the Deployer's goroutine: "off", "scan", "tick" (the select)
  cancelled   \* its context

registry == <<order, comps>>
lifecycle == <<running, started, up>>
lock == <<mu, at, i>>
vars == <<registry, lifecycle, lock, call, calls, loop, cancelled>>

NoCall == [op |-> "none", name |-> None]
Methods == [op : {"Register", "Deploy", "Undeploy"}, name : Names]
             \cup [op : {"Start", "Stop"}, name : {None}]

Init ==
  /\ order = <<>> /\ comps = {}
  /\ running = {} /\ started = FALSE /\ up = [n \in Names |-> 0]
  /\ mu = None /\ at = "idle" /\ i = 0
  /\ call = [t \in Threads |-> NoCall] /\ calls = 0
  /\ loop = "off" /\ cancelled = FALSE

-----------------------------------------------------------------------------
(* Calls, and the lock.                                                    *)

Call(t, m) ==
  /\ call[t] = NoCall /\ calls < MaxCalls
  /\ call' = [call EXCEPT ![t] = m] /\ calls' = calls + 1
  /\ UNCHANGED <<registry, lifecycle, lock, loop, cancelled>>

\* t is at h.mu.Lock() in method op and gets it.
Enters(t, op) == mu = None /\ call[t].op = op

Return(t) == call' = [call EXCEPT ![t] = NoCall]

Hold(t, where, index) == mu' = t /\ at' = where /\ i' = index

\* The deferred unlock, and the return.
Release(t) == mu' = None /\ at' = "idle" /\ i' = 0 /\ Return(t)

add(n) == comps' = comps \cup {n} /\ order' = Append(order, n)

\* The names after it move up.
remove(n) ==
  /\ comps' = comps \ {n}
  /\ \E k \in 1 .. Len(order) :
       /\ order[k] = n /\ \A j \in 1 .. k - 1 : order[j] # n
       /\ order' = [j \in 1 .. Len(order) - 1 |-> IF j < k THEN order[j] ELSE order[j + 1]]

\* The component's Start succeeded.  A Deployer's starts its goroutine.
startOne(n) ==
  /\ running' = running \cup {n}
  /\ up' = [up EXCEPT ![n] = @ + 1]
  /\ IF n = Deployer THEN loop' = "scan" /\ cancelled' = FALSE
                     ELSE UNCHANGED <<loop, cancelled>>

\* The component's Stop returned.  A Deployer's cancels its goroutine, then
\* waits until it has ended.  Whether it returned an error makes no difference.
stopOne(n) ==
  /\ n = Deployer => cancelled /\ loop = "off"
  /\ running' = running \ {n}
  /\ up' = [up EXCEPT ![n] = @ - 1]

-----------------------------------------------------------------------------
Register(t) ==
  /\ Enters(t, "Register")
  /\ IF started \/ call[t].name \in comps THEN UNCHANGED registry ELSE add(call[t].name)
  /\ Return(t)
  /\ UNCHANGED <<lifecycle, lock, calls, loop, cancelled>>

StartBegin(t) ==
  /\ Enters(t, "Start")
  /\ IF started THEN Return(t) /\ UNCHANGED lock
                ELSE Hold(t, "start", 1) /\ UNCHANGED call
  /\ UNCHANGED <<registry, lifecycle, calls, loop, cancelled>>

\* The next component starts, or fails to and the ones before it are unwound.
StartNext(t) ==
  /\ mu = t /\ at = "start" /\ i <= Len(order)
  /\ \/ startOne(order[i]) /\ Hold(t, "start", i + 1)
     \/ Hold(t, "unwind", Len(order)) /\ UNCHANGED <<running, up, loop, cancelled>>
  /\ UNCHANGED <<registry, started, call, calls>>

StartDone(t) ==
  /\ mu = t /\ at = "start" /\ i > Len(order)
  /\ started' = TRUE
  /\ Release(t)
  /\ UNCHANGED <<registry, running, up, calls, loop, cancelled>>

StopBegin(t) ==
  /\ Enters(t, "Stop")
  /\ Hold(t, "stop", Len(order))
  /\ UNCHANGED <<registry, lifecycle, call, calls, loop, cancelled>>

\* Mutant: the loops run in registration order.
StopNextForward(t) ==
  /\ mu = t /\ at \in {"stop", "unwind"} /\ i > 0
  /\ LET n == order[Len(order) + 1 - i] IN
       IF n \in running THEN stopOne(n) ELSE UNCHANGED <<running, up>>
  /\ i' = i - 1
  /\ UNCHANGED <<registry, started, mu, at, call, calls, loop, cancelled>>

\* One turn of Stop's loop, or of the same loop in stopStarted.
StopNext(t) ==
  /\ mu = t /\ at \in {"stop", "unwind"} /\ i > 0
  /\ IF order[i] \in running THEN stopOne(order[i]) ELSE UNCHANGED <<running, up>>
  /\ i' = i - 1
  /\ UNCHANGED <<registry, started, mu, at, call, calls, loop, cancelled>>

\* Mutant: stopStarted returns from Start without the unlock.
StopDoneHolds(t) ==
  /\ mu = t /\ at \in {"stop", "unwind"} /\ i = 0
  /\ started' = (at = "unwind" /\ started)
  /\ IF at = "stop" THEN Release(t) ELSE Return(t) /\ UNCHANGED <<mu, i>> /\ at' = "idle"
  /\ UNCHANGED <<registry, running, up, calls, loop, cancelled>>

\* Stop forgets that the host was started; a failed Start never said so.
StopDone(t) ==
  /\ mu = t /\ at \in {"stop", "unwind"} /\ i = 0
  /\ started' = (at = "unwind" /\ started)
  /\ Release(t)
  /\ UNCHANGED <<registry, running, up, calls, loop, cancelled>>

\* Mutant: a component that failed to start stays registered.
DeployKeeps(t) ==
  /\ Enters(t, "Deploy")
  /\ LET n == call[t].name IN
       \/ n \in comps /\ UNCHANGED <<registry, running, up, loop, cancelled>>
       \/ n \notin comps /\ ~started /\ add(n) /\ UNCHANGED <<running, up, loop, cancelled>>
       \/ n \notin comps /\ started /\ add(n) /\ startOne(n)
       \/ n \notin comps /\ started /\ add(n) /\ UNCHANGED <<running, up, loop, cancelled>>
  /\ Return(t)
  /\ UNCHANGED <<started, lock, calls>>

\* On a started host the component starts now; if it fails to it is removed
\* again.
Deploy(t) ==
  /\ Enters(t, "Deploy")
  /\ LET n == call[t].name IN
       \/ n \in comps /\ UNCHANGED <<registry, running, up, loop, cancelled>>
       \/ n \notin comps /\ ~started /\ add(n) /\ UNCHANGED <<running, up, loop, cancelled>>
       \/ n \notin comps /\ started /\ add(n) /\ startOne(n)
       \/ n \notin comps /\ started /\ UNCHANGED <<registry, running, up, loop, cancelled>>
  /\ Return(t)
  /\ UNCHANGED <<started, lock, calls>>

UndeployBegin(t) ==
  /\ Enters(t, "Undeploy")
  /\ LET n == call[t].name IN
       \/ n \notin comps /\ Return(t) /\ UNCHANGED <<registry, lock>>
       \/ n \in comps \ running /\ remove(n) /\ Return(t) /\ UNCHANGED lock
       \/ n \in running /\ Hold(t, "undeploy", 0) /\ UNCHANGED <<registry, call>>
  /\ UNCHANGED <<lifecycle, calls, loop, cancelled>>

UndeployStop(t) ==
  /\ mu = t /\ at = "undeploy"
  /\ stopOne(call[t].name) /\ remove(call[t].name)
  /\ Release(t)
  /\ UNCHANGED <<started, calls, loop, cancelled>>

-----------------------------------------------------------------------------
(* The hosted Deployer.                                                    *)

\* The component the holder of h.mu is stopping.
Stopping ==
  IF at \in {"stop", "unwind"} /\ i > 0 /\ order[i] \in running THEN order[i]
  ELSE IF at = "undeploy" THEN call[mu].name
  ELSE None

DeployerCancel ==
  /\ Stopping = Deployer /\ Deployer # None /\ ~cancelled
  /\ cancelled' = TRUE
  /\ UNCHANGED <<registry, lifecycle, lock, call, calls, loop>>

\* A scan calls Deploy or Undeploy as the descriptors ask, and comes to an end.
ScanCall(m) ==
  /\ loop = "scan" /\ call[Deployer] = NoCall
  /\ m.op \in {"Deploy", "Undeploy"} /\ m.name # Deployer
  /\ call' = [call EXCEPT ![Deployer] = m]
  /\ UNCHANGED <<registry, lifecycle, lock, calls, loop, cancelled>>

ScanDone ==
  /\ loop = "scan" /\ call[Deployer] = NoCall
  /\ loop' = "tick"
  /\ UNCHANGED <<registry, lifecycle, lock, call, calls, cancelled>>

\* The select: the ticker, or the context.
Tick ==
  /\ loop = "tick"
  /\ loop' = "scan"
  /\ UNCHANGED <<registry, lifecycle, lock, call, calls, cancelled>>

LoopExit ==
  /\ loop = "tick" /\ cancelled
  /\ loop' = "off"
  /\ UNCHANGED <<registry, lifecycle, lock, call, calls, cancelled>>

-----------------------------------------------------------------------------
Step(t) ==
  \/ Register(t) \/ Deploy(t)
  \/ StartBegin(t) \/ StartNext(t) \/ StartDone(t)
  \/ StopBegin(t) \/ StopNext(t) \/ StopDone(t)
  \/ UndeployBegin(t) \/ UndeployStop(t)

DeployerLoop == (\E m \in Methods : ScanCall(m)) \/ ScanDone \/ Tick \/ LoopExit

\* Nobody calls any more.
Quiet ==
  /\ calls = MaxCalls /\ \A t \in Threads : call[t] = NoCall
  /\ UNCHANGED vars

Next ==
  \/ \E t \in Callers, m \in Methods : Call(t, m)
  \/ \E t \in Threads : Step(t)
  \/ DeployerCancel \/ DeployerLoop
  \/ Quiet

Spec == Init /\ [][Next]_vars

\* A goroutine that waits for h.mu gets it in the end (sync.Mutex hands itself
\* to a starving waiter), component calls return, scans end, and a select that
\* meets a cancelled context again and again takes it.
Fairness ==
  /\ \A t \in Threads : SF_vars(Step(t))
  /\ WF_vars(DeployerCancel) /\ SF_vars(ScanDone) /\ SF_vars(LoopExit)

FairSpec == Spec /\ Fairness

-----------------------------------------------------------------------------
(* Properties.                                                             *)

\* Type correctness; a component is started at most once before it is stopped,
\* and h.order lists h.comps without repetition.
TypeOK ==
  /\ order \in Seq(Names) /\ IsInjective(order)
  /\ comps = Range(order) /\ running \subseteq comps
  /\ started \in BOOLEAN /\ up \in [Names -> {0, 1}]
  /\ mu \in Threads \cup {None} /\ at \in {"idle", "start", "unwind", "stop", "undeploy"}
  /\ i \in 0 .. Len(order) + 1 /\ (mu = None <=> at = "idle")
  /\ call \in [Threads -> Methods \cup {NoCall}] /\ calls \in 0 .. MaxCalls
  /\ loop \in {"off", "scan", "tick"} /\ cancelled \in BOOLEAN

\* Between lifecycle calls a started host runs all it has registered and a
\* stopped one runs nothing, whatever failed: Start unwinds, Deploy rolls back,
\* Stop goes on past errors, and every component that was started and is not in
\* h.running any more was stopped.
Settled ==
  /\ TypeOK
  /\ mu = None => running = IF started THEN comps ELSE {}
  /\ \A n \in Names : up[n] = 1 <=> n \in running

\* "a component is always started after - and stopped before - the components
\* it depends on": at every moment, in the middle of Start, Stop and an unwind
\* too, no component runs while one registered before it does not.
InOrder ==
  \A a, b \in 1 .. Len(order) : a < b /\ order[b] \in running => order[a] \in running

\* Every lifecycle call returns: what holds h.mu never waits for what wants it.
Returns == \A t \in Callers : call[t] # NoCall ~> call[t] = NoCall

\* The holder of h.mu stops the Deployer, whose goroutine waits for h.mu.
Stuck == Deployer # None /\ Stopping = Deployer /\ call[Deployer] # NoCall

\* That is all that can keep a call from returning: past failing components, an
\* unwinding Start and any number of scans, h.mu is always given back.
ReturnsUnlessStuck == \A t \in Callers : call[t] # NoCall ~> (call[t] = NoCall \/ Stuck)
==============================================================================
