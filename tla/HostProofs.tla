----------------------------- MODULE HostProofs ------------------------------
(***************************************************************************)
(* Proofs about the component host, for any set of components and any      *)
(* number of callers and calls: what a lifecycle call leaves behind, and   *)
(* the order of dependence at every moment of it.                          *)
(***************************************************************************)
EXTENDS Host, SequenceTheorems, TLAPS

USE Zenon, HostAssumption

\* What h.running holds while a goroutine has h.mu: Start has come as far as i,
\* Stop and the unwind have all behind i down, and Undeploy is on a started host.
HolderInv ==
  /\ at \in {"idle", "undeploy"} => i = 0
  /\ at = "idle" => running = IF started THEN comps ELSE {}
  /\ at = "start" => ~started /\ i >= 1 /\ running = {order[j] : j \in 1 .. i - 1}
  /\ at = "unwind" => ~started
  /\ at \in {"stop", "unwind"} => i <= Len(order) /\ running \subseteq {order[j] : j \in 1 .. i}
  /\ at = "undeploy" => /\ started /\ running = comps
                        /\ call[mu] \in Methods /\ call[mu].name \in running

Counts == \A n \in Names : up[n] = 1 <=> n \in running

HostInv == TypeOK /\ HolderInv /\ Counts /\ InOrder

-----------------------------------------------------------------------------
(* The registry.                                                           *)

LEMMA OrderFacts ==
  ASSUME TypeOK
  PROVE  /\ Len(order) \in Nat /\ DOMAIN order = 1 .. Len(order)
         /\ \A j \in 1 .. Len(order) : order[j] \in Names
         /\ \A a, b \in 1 .. Len(order) : order[a] = order[b] => a = b
         /\ comps = {order[j] : j \in 1 .. Len(order)}
<1>1. order \in Seq(Names) /\ IsInjective(order) /\ comps = Range(order) BY DEF TypeOK
<1>2. Len(order) \in Nat /\ DOMAIN order = 1 .. Len(order)
  BY <1>1, LenProperties
<1>3. \A j \in 1 .. Len(order) : order[j] \in Names BY <1>1, ElementOfSeq
<1> QED BY <1>1, <1>2, <1>3 DEF IsInjective, Range

\* What TypeOK says of the registry.
RegistryOK == order \in Seq(Names) /\ IsInjective(order) /\ comps = Range(order)

\* add puts the name last.
LEMMA AddKeeps ==
  ASSUME TypeOK, NEW n \in Names \ comps, add(n)
  PROVE  /\ RegistryOK' /\ Len(order') = Len(order) + 1
         /\ \A j \in 1 .. Len(order) : order'[j] = order[j]
         /\ order'[Len(order) + 1] = n
<1>1. order \in Seq(Names) /\ n \in Names BY DEF TypeOK
<1>2. order' = Append(order, n) /\ comps' = comps \cup {n} BY DEF add
<1>3. /\ order' \in Seq(Names) /\ Len(order') = Len(order) + 1
      /\ \A j \in 1 .. Len(order) : order'[j] = order[j]
      /\ order'[Len(order) + 1] = n
  BY SMT, <1>1, <1>2, AppendProperties
<1>4. DOMAIN order' = 1 .. Len(order) + 1 BY <1>3, LenProperties
<1>5. IsInjective(order') BY SMT, <1>3, <1>4, OrderFacts DEF IsInjective
<1>6. comps' = Range(order') BY SMT, <1>2, <1>3, <1>4, OrderFacts DEF Range
<1> QED BY <1>3, <1>5, <1>6 DEF RegistryOK

\* remove closes the gap and keeps the others in order.
LEMMA RemoveKeeps ==
  ASSUME TypeOK, NEW n \in comps, remove(n)
  PROVE  RegistryOK' /\ Len(order') = Len(order) - 1
<1>1. PICK k \in 1 .. Len(order) :
        /\ order[k] = n
        /\ order' = [j \in 1 .. Len(order) - 1 |-> IF j < k THEN order[j] ELSE order[j + 1]]
  BY DEF remove
<1>2. Len(order) \in Nat /\ Len(order) - 1 \in Nat BY SMT, OrderFacts
<1>3. order' \in [1 .. Len(order) - 1 -> Names] BY SMT, <1>1, OrderFacts
<1>4. order' \in Seq(Names) /\ Len(order') = Len(order) - 1 BY SMT, <1>2, <1>3
<1>5. IsInjective(order') BY SMT, <1>1, <1>3, OrderFacts DEF IsInjective
<1>6. \A m \in comps \ {n} : \E j \in 1 .. Len(order) - 1 : order'[j] = m
  <2> SUFFICES ASSUME NEW m \in comps \ {n} PROVE \E j \in 1 .. Len(order) - 1 : order'[j] = m
    OBVIOUS
  <2>1. PICK j \in 1 .. Len(order) : order[j] = m BY SMT, OrderFacts
  <2>2. j # k BY <1>1, <2>1
  <2>3. CASE j < k
    <3>1. j \in 1 .. Len(order) - 1 BY SMT, <1>2, <2>3
    <3> QED BY <1>1, <2>1, <2>3, <3>1
  <2>4. CASE j > k
    <3>1. j - 1 \in 1 .. Len(order) - 1 /\ ~(j - 1 < k) /\ (j - 1) + 1 = j BY SMT, <1>2, <2>4
    <3> QED BY <1>1, <2>1, <3>1
  <2> QED BY SMT, <2>2, <2>3, <2>4, <1>2
<1>7. \A j \in 1 .. Len(order) - 1 : order'[j] \in comps \ {n}
  BY SMT, <1>1, <1>2, OrderFacts
<1>8. comps' = Range(order')
  <2>1. comps' = comps \ {n} /\ DOMAIN order' = 1 .. Len(order) - 1 BY <1>3 DEF remove
  <2> QED BY <1>6, <1>7, <2>1 DEF Range
<1> QED BY <1>4, <1>5, <1>8 DEF RegistryOK

-----------------------------------------------------------------------------
(* Steps.                                                                  *)

\* What TypeOK says of the calls and of the Deployer's goroutine.
CallsOK ==
  /\ call \in [Threads -> Methods \cup {NoCall}] /\ calls \in 0 .. MaxCalls
  /\ loop \in {"off", "scan", "tick"} /\ cancelled \in BOOLEAN

\* A step that leaves the host alone, and the call of the one that holds h.mu.
LEMMA FrameKeeps ==
  ASSUME HostInv, UNCHANGED <<registry, lifecycle, lock>>, CallsOK',
         at = "undeploy" => call'[mu] = call[mu]
  PROVE  HostInv'
<1> USE DEF HostInv, registry, lifecycle, lock
<1>1. TypeOK' BY DEF TypeOK, CallsOK
<1>2. HolderInv' BY DEF HolderInv
<1>3. Counts' /\ InOrder' BY DEF Counts, InOrder
<1> QED BY <1>1, <1>2, <1>3

\* A step after which nobody holds h.mu and everything registered runs, or
\* nothing does.
LEMMA SettledKeeps ==
  ASSUME RegistryOK', CallsOK', started' \in BOOLEAN, up' \in [Names -> {0, 1}],
         mu' = None /\ at' = "idle" /\ i' = 0,
         running' = IF started' THEN comps' ELSE {}, Counts'
  PROVE  HostInv'
<1>1. Len(order') \in Nat /\ DOMAIN order' = 1 .. Len(order') BY LenProperties DEF RegistryOK
<1>2. TypeOK' BY SMT, <1>1 DEF TypeOK, RegistryOK, CallsOK
<1>3. HolderInv' BY DEF HolderInv
<1>4. InOrder' BY <1>1 DEF InOrder, RegistryOK, Range
<1> QED BY <1>2, <1>3, <1>4 DEF HostInv

\* Whoever gets h.mu finds the host settled, and returns from its call.
LEMMA Entered ==
  ASSUME HostInv, NEW t \in Threads, NEW op \in {"Register", "Deploy", "Undeploy", "Start", "Stop"},
         Enters(t, op)
  PROVE  /\ mu = None /\ at = "idle" /\ i = 0 /\ call[t] \in Methods /\ call[t].op = op
         /\ running = (IF started THEN comps ELSE {})
         /\ op \in {"Register", "Deploy", "Undeploy"} => call[t].name \in Names
<1>1. mu = None /\ at = "idle" /\ i = 0 BY DEF Enters, HostInv, TypeOK, HolderInv
<1>2. running = (IF started THEN comps ELSE {}) BY <1>1 DEF HostInv, HolderInv
<1>3. call[t] \in Methods \cup {NoCall} /\ call[t].op = op BY DEF Enters, HostInv, TypeOK
<1>4. call[t] \in Methods BY SMT, <1>3 DEF NoCall
<1>5. op \in {"Register", "Deploy", "Undeploy"} => call[t].name \in Names BY <1>3, <1>4 DEF Methods
<1> QED BY <1>1, <1>2, <1>3, <1>4, <1>5

LEMMA Returned ==
  ASSUME CallsOK, NEW t \in Threads, Return(t), UNCHANGED calls,
         loop' \in {"off", "scan", "tick"}, cancelled' \in BOOLEAN
  PROVE  CallsOK'
BY DEF CallsOK, Return

\* The component's Start succeeded.
LEMMA StartCounts ==
  ASSUME HostInv, NEW n \in Names, n \notin running, startOne(n)
  PROVE  /\ up' \in [Names -> {0, 1}] /\ Counts' /\ running' = running \cup {n}
         /\ loop' \in {"off", "scan", "tick"} /\ cancelled' \in BOOLEAN
<1>1. up \in [Names -> {0, 1}] /\ up[n] = 0 BY DEF HostInv, TypeOK, Counts
<1>2. up' = [up EXCEPT ![n] = @ + 1] /\ running' = running \cup {n} BY DEF startOne
<1>3. up' \in [Names -> {0, 1}] BY SMT, <1>1, <1>2
<1>4. Counts' BY SMT, <1>1, <1>2 DEF HostInv, Counts
<1>5. loop' \in {"off", "scan", "tick"} /\ cancelled' \in BOOLEAN BY DEF HostInv, TypeOK, startOne
<1> QED BY <1>2, <1>3, <1>4, <1>5

\* Its Stop returned.
LEMMA StopCounts ==
  ASSUME HostInv, NEW n \in Names, n \in running, stopOne(n)
  PROVE  up' \in [Names -> {0, 1}] /\ Counts' /\ running' = running \ {n}
<1>1. up \in [Names -> {0, 1}] /\ up[n] = 1 BY DEF HostInv, TypeOK, Counts
<1>2. up' = [up EXCEPT ![n] = @ - 1] /\ running' = running \ {n} BY DEF stopOne
<1>3. up' \in [Names -> {0, 1}] BY SMT, <1>1, <1>2
<1>4. Counts' BY SMT, <1>1, <1>2 DEF HostInv, Counts
<1> QED BY <1>2, <1>3, <1>4

LEMMA HolderKnown == None \notin Threads
BY DEF Threads

LEMMA TypeParts ==
  ASSUME HostInv
  PROVE  RegistryOK /\ CallsOK /\ started \in BOOLEAN /\ up \in [Names -> {0, 1}]
BY DEF HostInv, TypeOK, RegistryOK, CallsOK

LEMMA RegisterStep == ASSUME HostInv, NEW t \in Threads, Register(t) PROVE HostInv'
<1> DEFINE n == call[t].name
<1>1. mu = None /\ at = "idle" /\ i = 0 /\ running = (IF started THEN comps ELSE {}) /\ n \in Names
  BY Entered DEF Register
<1>2. UNCHANGED <<lifecycle, lock, calls, loop, cancelled>> /\ Return(t) BY DEF Register
<1>3. CallsOK' BY <1>2, TypeParts, Returned DEF CallsOK
<1>4. CASE started \/ n \in comps
  BY <1>1, <1>2, <1>3, <1>4, FrameKeeps DEF Register
<1>5. CASE ~(started \/ n \in comps)
  <2>1. RegistryOK' BY <1>1, <1>5, AddKeeps DEF Register, HostInv
  <2>2. running' = running /\ started' = started /\ up' = up /\ mu' = mu /\ at' = at /\ i' = i
    BY <1>2 DEF lifecycle, lock
  <2>3. Counts' BY <2>2 DEF HostInv, Counts
  <2> QED BY <1>1, <1>3, <1>5, <2>1, <2>2, <2>3, TypeParts, SettledKeeps
<1> QED BY <1>4, <1>5

LEMMA StartBeginStep == ASSUME HostInv, NEW t \in Threads, StartBegin(t) PROVE HostInv'
<1>1. mu = None /\ at = "idle" /\ running = (IF started THEN comps ELSE {}) BY Entered DEF StartBegin
<1>2. UNCHANGED <<registry, lifecycle, calls, loop, cancelled>> BY DEF StartBegin
<1>3. CASE started
  <2>1. Return(t) /\ UNCHANGED lock BY <1>3 DEF StartBegin
  <2>2. CallsOK' BY <1>2, <2>1, TypeParts, Returned DEF CallsOK
  <2> QED BY <1>1, <1>2, <2>1, <2>2, FrameKeeps
<1>4. CASE ~started
  <2>1. mu' = t /\ at' = "start" /\ i' = 1 /\ call' = call BY <1>4 DEF StartBegin, Hold
  <2>2. Len(order) \in Nat /\ running = {} BY <1>1, <1>4, OrderFacts DEF HostInv
  <2>3. TypeOK' BY SMT, <1>2, <2>1, <2>2, HolderKnown DEF HostInv, TypeOK, registry, lifecycle
  <2>4. HolderInv' BY SMT, <1>2, <1>4, <2>1, <2>2 DEF HolderInv, registry, lifecycle
  <2>5. Counts' /\ InOrder' BY <1>2 DEF HostInv, Counts, InOrder, registry, lifecycle
  <2> QED BY <2>3, <2>4, <2>5 DEF HostInv
<1> QED BY <1>3, <1>4

LEMMA StartNextStep == ASSUME HostInv, NEW t \in Threads, StartNext(t) PROVE HostInv'
<1>1. mu = t /\ at = "start" /\ i <= Len(order) /\ UNCHANGED <<registry, started, call, calls>>
  BY DEF StartNext
<1>2. i \in Nat /\ i >= 1 /\ ~started /\ running = {order[j] : j \in 1 .. i - 1}
  BY SMT, <1>1 DEF HostInv, TypeOK, HolderInv
<1>3. order' = order /\ comps' = comps BY <1>1 DEF registry
<1>4. CASE startOne(order[i]) /\ Hold(t, "start", i + 1)
  <2>1. order[i] \in Names /\ order[i] \notin running BY SMT, <1>1, <1>2, OrderFacts DEF HostInv
  <2>2. /\ up' \in [Names -> {0, 1}] /\ Counts' /\ running' = running \cup {order[i]}
        /\ loop' \in {"off", "scan", "tick"} /\ cancelled' \in BOOLEAN
    BY <1>4, <2>1, StartCounts
  <2>3. mu' = t /\ at' = "start" /\ i' = i + 1 BY <1>4 DEF Hold
  <2>4. running' = {order[j] : j \in 1 .. i} BY SMT, <1>2, <2>2
  <2>5. running' \subseteq comps BY SMT, <1>1, <1>2, <2>4, OrderFacts DEF HostInv
  <2>6. TypeOK' BY SMT, <1>1, <1>2, <1>3, <2>2, <2>3, <2>5, OrderFacts, HolderKnown DEF HostInv, TypeOK
  <2>7. HolderInv' BY SMT, <1>1, <1>2, <1>3, <2>3, <2>4 DEF HolderInv
  <2>8. InOrder' BY SMT, <1>1, <1>2, <1>3, <2>4, OrderFacts DEF HostInv, InOrder
  <2> QED BY <2>2, <2>6, <2>7, <2>8 DEF HostInv
<1>5. CASE Hold(t, "unwind", Len(order)) /\ UNCHANGED <<running, up, loop, cancelled>>
  <2>1. mu' = t /\ at' = "unwind" /\ i' = Len(order) /\ UNCHANGED <<running, up, loop, cancelled>>
    BY <1>5 DEF Hold
  <2>2. TypeOK' BY SMT, <1>1, <1>3, <2>1, OrderFacts, HolderKnown DEF HostInv, TypeOK
  <2>3. HolderInv' BY SMT, <1>1, <1>2, <1>3, <2>1, OrderFacts DEF HostInv, HolderInv
  <2>4. Counts' /\ InOrder' BY <1>3, <2>1 DEF HostInv, Counts, InOrder
  <2> QED BY <2>2, <2>3, <2>4 DEF HostInv
<1> QED BY <1>4, <1>5 DEF StartNext

LEMMA StartDoneStep == ASSUME HostInv, NEW t \in Threads, StartDone(t) PROVE HostInv'
<1>1. /\ at = "start" /\ i > Len(order) /\ started' = TRUE /\ Release(t)
      /\ UNCHANGED <<registry, running, up, calls, loop, cancelled>>
  BY DEF StartDone
<1>2. Len(order) \in Nat /\ i = Len(order) + 1 BY SMT, <1>1, OrderFacts DEF HostInv, TypeOK
<1>3. running = comps
  <2>1. running = {order[j] : j \in 1 .. i - 1} BY <1>1 DEF HostInv, HolderInv
  <2>2. i - 1 = Len(order) BY SMT, <1>2
  <2> QED BY <2>1, <2>2, OrderFacts DEF HostInv
<1>4. mu' = None /\ at' = "idle" /\ i' = 0 /\ Return(t) BY <1>1 DEF Release
<1>5. CallsOK' BY <1>1, <1>4, TypeParts, Returned DEF CallsOK
<1>6. RegistryOK' /\ Counts' BY <1>1, TypeParts DEF HostInv, RegistryOK, Counts, registry
<1>7. comps' = comps BY <1>1 DEF registry
<1> QED BY <1>1, <1>3, <1>4, <1>5, <1>6, <1>7, TypeParts, SettledKeeps

LEMMA StopBeginStep == ASSUME HostInv, NEW t \in Threads, StopBegin(t) PROVE HostInv'
<1>1. /\ mu' = t /\ at' = "stop" /\ i' = Len(order)
      /\ UNCHANGED <<registry, lifecycle, call, calls, loop, cancelled>>
  BY DEF StopBegin, Hold
<1>2. TypeOK' BY SMT, <1>1, OrderFacts, HolderKnown DEF HostInv, TypeOK, registry, lifecycle
<1>3. running \subseteq {order[j] : j \in 1 .. Len(order)} BY OrderFacts DEF HostInv, TypeOK
<1>4. HolderInv' BY SMT, <1>1, <1>3, OrderFacts DEF HostInv, HolderInv, registry, lifecycle
<1>5. Counts' /\ InOrder' BY <1>1 DEF HostInv, Counts, InOrder, registry, lifecycle
<1> QED BY <1>2, <1>4, <1>5 DEF HostInv

\* The last running component is the one stopped, so what it depends on still
\* runs.
LEMMA StopNextStep == ASSUME HostInv, NEW t \in Threads, StopNext(t) PROVE HostInv'
<1>1. /\ mu = t /\ at \in {"stop", "unwind"} /\ i > 0 /\ i' = i - 1
      /\ UNCHANGED <<registry, started, mu, at, call, calls, loop, cancelled>>
  BY DEF StopNext
<1>2. i \in Nat /\ i <= Len(order) /\ running \subseteq {order[j] : j \in 1 .. i}
  BY SMT, <1>1, OrderFacts DEF HostInv, TypeOK, HolderInv
<1>3. order' = order /\ comps' = comps BY <1>1 DEF registry
<1>4. order[i] \in Names BY SMT, <1>1, <1>2, OrderFacts DEF HostInv
<1>5. up' \in [Names -> {0, 1}] /\ Counts' /\ running' = running \ {order[i]}
  <2>1. CASE order[i] \in running BY <1>4, <2>1, StopCounts DEF StopNext
  <2>2. CASE order[i] \notin running
    <3>1. running' = running /\ up' = up BY <2>2 DEF StopNext
    <3> QED BY <2>2, <3>1, TypeParts DEF HostInv, Counts
  <2> QED BY <2>1, <2>2
<1>6. running' \subseteq {order[j] : j \in 1 .. i - 1} BY SMT, <1>1, <1>2, <1>5
<1>7. TypeOK' BY SMT, <1>1, <1>2, <1>3, <1>5, OrderFacts DEF HostInv, TypeOK
<1>8. HolderInv' BY SMT, <1>1, <1>2, <1>3, <1>6 DEF HostInv, HolderInv
<1>9. InOrder'
  <2> SUFFICES ASSUME NEW a \in 1 .. Len(order), NEW b \in 1 .. Len(order),
                      a < b, order[b] \in running'
               PROVE  order[a] \in running'
    BY <1>3 DEF InOrder
  <2>1. order[a] \in running BY <1>5 DEF HostInv, InOrder
  <2>2. b <= i - 1 BY SMT, <1>1, <1>2, <1>6, OrderFacts DEF HostInv
  <2>3. order[a] # order[i] BY SMT, <1>1, <1>2, <2>2, OrderFacts DEF HostInv
  <2> QED BY <1>5, <2>1, <2>3
<1> QED BY <1>5, <1>7, <1>8, <1>9 DEF HostInv

LEMMA StopDoneStep == ASSUME HostInv, NEW t \in Threads, StopDone(t) PROVE HostInv'
<1>1. /\ at \in {"stop", "unwind"} /\ i = 0 /\ started' = (at = "unwind" /\ started) /\ Release(t)
      /\ UNCHANGED <<registry, running, up, calls, loop, cancelled>>
  BY DEF StopDone
<1>2. started' = FALSE BY <1>1 DEF HostInv, HolderInv, TypeOK
<1>3. running = {}
  <2>1. running \subseteq {order[j] : j \in 1 .. 0} BY <1>1 DEF HostInv, HolderInv
  <2> QED BY SMT, <2>1
<1>4. mu' = None /\ at' = "idle" /\ i' = 0 /\ Return(t) BY <1>1 DEF Release
<1>5. CallsOK' BY <1>1, <1>4, TypeParts, Returned DEF CallsOK
<1>6. RegistryOK' /\ Counts' BY <1>1, TypeParts DEF HostInv, RegistryOK, Counts, registry
<1> QED BY <1>1, <1>2, <1>3, <1>4, <1>5, <1>6, TypeParts, SettledKeeps

LEMMA DeployStep == ASSUME HostInv, NEW t \in Threads, Deploy(t) PROVE HostInv'
<1> DEFINE n == call[t].name
<1>1. mu = None /\ at = "idle" /\ i = 0 /\ running = (IF started THEN comps ELSE {}) /\ n \in Names
  BY Entered DEF Deploy
<1>2. UNCHANGED <<started, lock, calls>> /\ Return(t) BY DEF Deploy
<1>3. mu' = None /\ at' = "idle" /\ i' = 0 BY <1>1, <1>2 DEF lock
<1>4. CASE UNCHANGED <<registry, running, up, loop, cancelled>>
  <2>1. CallsOK' BY <1>2, <1>4, TypeParts, Returned DEF CallsOK
  <2> QED BY <1>1, <1>2, <1>4, <2>1, FrameKeeps DEF lifecycle
<1>5. CASE n \notin comps /\ ~started /\ add(n) /\ UNCHANGED <<running, up, loop, cancelled>>
  <2>1. CallsOK' BY <1>2, <1>5, TypeParts, Returned DEF CallsOK
  <2>2. RegistryOK' BY <1>1, <1>5, AddKeeps DEF HostInv
  <2>3. Counts' BY <1>5 DEF HostInv, Counts
  <2> QED BY <1>1, <1>2, <1>3, <1>5, <2>1, <2>2, <2>3, TypeParts, SettledKeeps
<1>6. CASE n \notin comps /\ started /\ add(n) /\ startOne(n)
  <2>1. n \notin running BY <1>6 DEF HostInv, TypeOK
  <2>2. /\ up' \in [Names -> {0, 1}] /\ Counts' /\ running' = running \cup {n}
        /\ loop' \in {"off", "scan", "tick"} /\ cancelled' \in BOOLEAN
    BY <1>1, <1>6, <2>1, StartCounts
  <2>3. CallsOK' BY <1>2, <2>2, TypeParts, Returned
  <2>4. RegistryOK' BY <1>1, <1>6, AddKeeps DEF HostInv
  <2>5. running' = comps' /\ started' = started BY <1>1, <1>2, <1>6, <2>2 DEF add
  <2> QED BY <1>3, <1>6, <2>2, <2>3, <2>4, <2>5, TypeParts, SettledKeeps
<1> QED BY <1>4, <1>5, <1>6 DEF Deploy

LEMMA UndeployBeginStep == ASSUME HostInv, NEW t \in Threads, UndeployBegin(t) PROVE HostInv'
<1> DEFINE n == call[t].name
<1>1. /\ mu = None /\ at = "idle" /\ i = 0 /\ running = (IF started THEN comps ELSE {})
      /\ n \in Names /\ call[t] \in Methods
  BY Entered DEF UndeployBegin
<1>2. UNCHANGED <<lifecycle, calls, loop, cancelled>> BY DEF UndeployBegin
<1>3. CASE n \notin comps /\ Return(t) /\ UNCHANGED <<registry, lock>>
  <2>1. CallsOK' BY <1>2, <1>3, TypeParts, Returned DEF CallsOK
  <2> QED BY <1>1, <1>2, <1>3, <2>1, FrameKeeps
<1>4. CASE n \in comps \ running /\ remove(n) /\ Return(t) /\ UNCHANGED lock
  <2>1. CallsOK' BY <1>2, <1>4, TypeParts, Returned DEF CallsOK
  <2>2. RegistryOK' BY <1>4, RemoveKeeps DEF HostInv
  <2>3. running' = running /\ started' = started /\ up' = up /\ mu' = mu /\ at' = at /\ i' = i
    BY <1>2, <1>4 DEF lifecycle, lock
  <2>4. Counts' BY <2>3 DEF HostInv, Counts
  <2>5. ~started BY <1>1, <1>4
  <2> QED BY <1>1, <2>1, <2>2, <2>3, <2>4, <2>5, TypeParts, SettledKeeps
<1>5. CASE n \in running /\ Hold(t, "undeploy", 0) /\ UNCHANGED <<registry, call>>
  <2>1. mu' = t /\ at' = "undeploy" /\ i' = 0 BY <1>5 DEF Hold
  <2>2. started /\ running = comps BY <1>1, <1>5
  <2>3. TypeOK' BY SMT, <1>2, <1>5, <2>1, OrderFacts, HolderKnown DEF HostInv, TypeOK, registry, lifecycle
  <2>4. HolderInv' BY <1>1, <1>2, <1>5, <2>1, <2>2 DEF HolderInv, registry, lifecycle
  <2>5. Counts' /\ InOrder' BY <1>2, <1>5 DEF HostInv, Counts, InOrder, registry, lifecycle
  <2> QED BY <2>3, <2>4, <2>5 DEF HostInv
<1> QED BY <1>3, <1>4, <1>5 DEF UndeployBegin

LEMMA UndeployStopStep == ASSUME HostInv, NEW t \in Threads, UndeployStop(t) PROVE HostInv'
<1> DEFINE n == call[t].name
<1>1. /\ mu = t /\ at = "undeploy" /\ stopOne(n) /\ remove(n) /\ Release(t)
      /\ UNCHANGED <<started, calls, loop, cancelled>>
  BY DEF UndeployStop
<1>2. started /\ running = comps /\ n \in running /\ n \in Names
  BY SMT, <1>1 DEF HostInv, HolderInv, Methods, TypeOK, Range
<1>3. up' \in [Names -> {0, 1}] /\ Counts' /\ running' = running \ {n} BY <1>1, <1>2, StopCounts
<1>4. RegistryOK' BY <1>1, <1>2, RemoveKeeps DEF HostInv
<1>5. mu' = None /\ at' = "idle" /\ i' = 0 /\ Return(t) BY <1>1 DEF Release
<1>6. CallsOK' BY <1>1, <1>5, TypeParts, Returned DEF CallsOK
<1>7. running' = comps' /\ started' = started BY <1>1, <1>2, <1>3 DEF remove
<1> QED BY <1>2, <1>3, <1>4, <1>5, <1>6, <1>7, TypeParts, SettledKeeps

\* Calls that wait for h.mu, and the Deployer's goroutine: what the holder of
\* h.mu is doing is not theirs to change.
LEMMA OutsideStep ==
  ASSUME HostInv, (\E t \in Callers, m \in Methods : Call(t, m)) \/ DeployerCancel \/ DeployerLoop
  PROVE  HostInv'
<1>1. CASE \E t \in Callers, m \in Methods : Call(t, m)
  <2> PICK t \in Callers, m \in Methods : Call(t, m) BY <1>1
  <2>1. call[t] = NoCall /\ calls < MaxCalls /\ call' = [call EXCEPT ![t] = m] /\ calls' = calls + 1
    BY DEF Call
  <2>2. UNCHANGED <<registry, lifecycle, lock, loop, cancelled>> BY DEF Call
  <2>3. CallsOK' BY SMT, <2>1, <2>2, TypeParts DEF CallsOK, Threads
  <2>4. NoCall \notin Methods BY DEF NoCall, Methods
  <2>5. at = "undeploy" => call'[mu] = call[mu]
    BY SMT, <2>1, <2>4, TypeParts DEF HostInv, HolderInv, CallsOK
  <2> QED BY <2>2, <2>3, <2>5, FrameKeeps
<1>2. CASE DeployerCancel
  <2>1. UNCHANGED <<registry, lifecycle, lock>> /\ call' = call /\ CallsOK'
    BY <1>2, TypeParts DEF DeployerCancel, CallsOK
  <2> QED BY <2>1, FrameKeeps
<1>3. CASE \E m \in Methods : ScanCall(m)
  <2> PICK m \in Methods : ScanCall(m) BY <1>3
  <2>1. call[Deployer] = NoCall /\ call' = [call EXCEPT ![Deployer] = m] BY DEF ScanCall
  <2>2. UNCHANGED <<registry, lifecycle, lock, calls, loop, cancelled>> BY DEF ScanCall
  <2>3. CallsOK' BY <2>1, <2>2, TypeParts DEF CallsOK
  <2>4. NoCall \notin Methods BY DEF NoCall, Methods
  <2>5. at = "undeploy" => call'[mu] = call[mu]
    BY SMT, <2>1, <2>4, TypeParts DEF HostInv, HolderInv, CallsOK
  <2> QED BY <2>2, <2>3, <2>5, FrameKeeps
<1>4. CASE ScanDone \/ Tick \/ LoopExit
  <2>1. UNCHANGED <<registry, lifecycle, lock>> /\ call' = call /\ CallsOK'
    BY <1>4, TypeParts DEF ScanDone, Tick, LoopExit, CallsOK
  <2> QED BY <2>1, FrameKeeps
<1> QED BY <1>1, <1>2, <1>3, <1>4 DEF DeployerLoop

LEMMA HostInvInit == ASSUME Init PROVE HostInv
<1>1. order = <<>> /\ order \in Seq(Names) /\ Len(order) = 0 /\ DOMAIN order = {}
  BY EmptySeq, LenProperties DEF Init
<1>2. IsInjective(order) /\ Range(order) = {} BY <1>1 DEF IsInjective, Range
<1>3. TypeOK
  <2>1. RegistryOK /\ running \subseteq comps BY <1>1, <1>2 DEF Init, RegistryOK
  <2>2. CallsOK
    <3>1. call \in [Threads -> Methods \cup {NoCall}] BY DEF Init
    <3>2. calls \in 0 .. MaxCalls BY SMT DEF Init
    <3>3. loop \in {"off", "scan", "tick"} /\ cancelled \in BOOLEAN BY DEF Init
    <3> QED BY <3>1, <3>2, <3>3 DEF CallsOK
  <2>3. started \in BOOLEAN /\ up \in [Names -> {0, 1}] BY DEF Init
  <2>4. mu = None /\ at = "idle" /\ i = 0 /\ i \in 0 .. Len(order) + 1 BY SMT, <1>1 DEF Init
  <2> QED BY <2>1, <2>2, <2>3, <2>4 DEF TypeOK, RegistryOK, CallsOK
<1>4. HolderInv /\ Counts /\ InOrder BY SMT, <1>1 DEF Init, HolderInv, Counts, InOrder
<1> QED BY <1>3, <1>4 DEF HostInv

LEMMA HostInvNext == ASSUME HostInv, [Next]_vars PROVE HostInv'
<1>1. CASE \E t \in Threads : Step(t)
  <2> PICK t \in Threads : Step(t) BY <1>1
  <2> QED BY RegisterStep, DeployStep, StartBeginStep, StartNextStep, StartDoneStep,
             StopBeginStep, StopNextStep, StopDoneStep, UndeployBeginStep, UndeployStopStep
          DEF Step
<1>2. CASE UNCHANGED vars
  <2>1. UNCHANGED <<registry, lifecycle, lock>> /\ call' = call /\ CallsOK'
    BY <1>2, TypeParts DEF vars, CallsOK
  <2> QED BY <2>1, FrameKeeps
<1> QED BY <1>1, <1>2, OutsideStep DEF Next, Quiet

LEMMA HostInvariant == Spec => []HostInv
<1>1. Init => HostInv BY HostInvInit
<1>2. HostInv /\ [Next]_vars => HostInv' BY HostInvNext
<1> QED BY <1>1, <1>2, PTL DEF Spec

-----------------------------------------------------------------------------
(* What the host promises.                                                 *)

\* Between lifecycle calls a started host runs all it has registered and a
\* stopped one nothing, and no component is started twice or stopped twice,
\* through failing Starts, unwinds, rolled back Deploys and Stops that return
\* errors.
THEOREM HostSettled == Spec => []Settled
<1>1. HostInv => Settled BY HolderKnown DEF HostInv, Settled, TypeOK, HolderInv, Counts
<1> QED BY <1>1, HostInvariant, PTL

\* At every moment, in the middle of Start, Stop and the unwind of stopStarted
\* too, no component runs while one registered before it does not.
THEOREM HostInOrder == Spec => []InOrder
<1>1. HostInv => InOrder BY DEF HostInv
<1> QED BY <1>1, HostInvariant, PTL
==============================================================================
