------------------------------ MODULE FlowProofs ------------------------------
(***************************************************************************)
(* Proofs about the transaction flow, for any runs, stages, groups, keys   *)
(* and limits.                                                             *)
(***************************************************************************)
EXTENDS Flow, SequenceTheorems, TLAPS

USE Zenon, FlowAssumption

Trails == [join : Seq(Stages), refuse : Seq(Stages \cup {None}),
           commit : Seq(StageCalls), abort : Seq(StageCalls)]

\* Nothing was called in the second phase.
Unfinished(t) == t.commit = <<>> /\ t.abort = <<>> /\ t.refuse = <<>>

\* The calls went to the stages of js at ks that are in S, each of them once.
Reached(calls, js, S, ks) ==
  /\ \A x \in DOMAIN calls : /\ calls[x].at \in ks /\ calls[x].stage = js[calls[x].at]
                             /\ calls[x].stage \in S
  /\ \A k \in ks : js[k] \in S => \E x \in DOMAIN calls : calls[x].at = k

Forward(calls) == \A x, y \in DOMAIN calls : x < y => calls[x].at < calls[y].at
Backward(calls) == \A x, y \in DOMAIN calls : x < y => calls[x].at > calls[y].at

Committing(t, n) ==
  /\ t.refuse = <<>> /\ t.abort = <<>> /\ Forward(t.commit)
  /\ Reached(t.commit, t.join, Committers, 1 .. n)
Aborting(t, n) ==
  /\ t.refuse # <<>> /\ t.commit = <<>> /\ Backward(t.abort)
  /\ Reached(t.abort, t.join, Aborters, n + 1 .. Len(t.join))

\* A run against its history, phase by phase.
RunOK(r) ==
  /\ trail[r].join = joined[r] /\ Len(joined[r]) <= MaxStages
  /\ pc[r] = "new" => trail[r] = NoTrail /\ i[r] = 1 /\ journal[r] = <<>> /\ before[r] = {}
  /\ pc[r] \in {"prepare", "backoff"} => Unfinished(trail[r]) /\ Len(joined[r]) < i[r]
  /\ pc[r] = "backoff" => i[r] <= MaxStages /\ i[r] <= Len(work[r]) /\ attempt[r] < MaxAttempts
  /\ pc[r] = "commit" => j[r] \in 1 .. Len(joined[r]) + 1 /\ Committing(trail[r], j[r] - 1)
  /\ pc[r] = "abort" => j[r] \in 0 .. Len(joined[r]) /\ Aborting(trail[r], j[r])
  /\ pc[r] \in {"prepare", "backoff", "commit", "abort"} => journal[r] = <<"begin">>
  /\ pc[r] # "done" => result[r] = None
  /\ pc[r] = "done" =>
       \/ journal[r] = <<"idempotent-hit">> /\ trail[r] = NoTrail
       \/ journal[r] = <<"begin", "committed">> /\ Committing(trail[r], Len(joined[r]))
       \/ journal[r] = <<"begin", "aborted">> /\ Aborting(trail[r], 0) /\ result[r] = "error"

\* p is a transaction with the key that succeeded.
Answered(p, key) ==
  Key[p] = key /\ pc[p] = "done" /\ journal[p] = <<"begin", "committed">> /\ result[p] = "nil"

\* What the store holds was committed, and every answer to a key is in it.
StoreOK ==
  /\ \A k \in Keys : store[k] # None => Answered(store[k], k)
  /\ \A r \in Runs : result[r] = "nil" /\ Key[r] # None => store[Key[r]] # None

FlowInv == FlowTypeOK /\ (\A r \in Runs : RunOK(r)) /\ StoreOK /\ Replayed

-----------------------------------------------------------------------------
(* The calls of the second phase.                                            *)

\* A call to the stage at n comes after those to the stages before it.
LEMMA CallForward ==
  ASSUME NEW c \in Seq(StageCalls), NEW js \in Seq(Stages), NEW n \in 1 .. Len(js), NEW S,
         Forward(c), Reached(c, js, S, 1 .. n - 1), js[n] \in S
  PROVE  LET d == Append(c, [at |-> n, stage |-> js[n]]) IN
         d \in Seq(StageCalls) /\ Forward(d) /\ Reached(d, js, S, 1 .. n)
  <1> DEFINE e == [at |-> n, stage |-> js[n]]
             d == Append(c, e)
  <1>1. e \in StageCalls /\ e.at = n /\ e.stage = js[n]  BY SMT DEF StageCalls
  <1> HIDE DEF e
  <1>2. /\ d \in Seq(StageCalls) /\ DOMAIN d = 1 .. Len(c) + 1 /\ DOMAIN c = 1 .. Len(c)
        /\ d[Len(c) + 1] = e /\ \A x \in DOMAIN c : d[x] = c[x]
    BY SMT, <1>1
  <1> HIDE DEF d
  <1>3. \A x \in DOMAIN c : c[x].at \in 1 .. n - 1  BY DEF Reached
  <1>4. Forward(d)
    <2> SUFFICES ASSUME NEW x \in DOMAIN d, NEW y \in DOMAIN d, x < y PROVE d[x].at < d[y].at
      BY DEF Forward
    <2>1. x \in DOMAIN c  BY SMT, <1>2
    <2>2. CASE y \in DOMAIN c  BY <1>2, <2>1, <2>2 DEF Forward
    <2>3. CASE y \notin DOMAIN c
      <3>1. y = Len(c) + 1  BY SMT, <1>2, <2>3
      <3>2. d[x].at \in 1 .. n - 1 /\ d[y].at = n  BY <1>1, <1>2, <1>3, <2>1, <3>1
      <3> QED  BY SMT, <3>2
    <2> QED  BY <2>2, <2>3
  <1>5. \A k \in 1 .. n - 1 : k \in 1 .. n  BY SMT
  <1>6. \A k \in 1 .. n : k \in 1 .. n - 1 \/ k = n  BY SMT
  <1>7. \A x \in DOMAIN d : x \in DOMAIN c \/ x = Len(c) + 1  BY SMT, <1>2
  <1>8. n \in 1 .. n /\ Len(c) + 1 \in DOMAIN d /\ \A x \in DOMAIN c : x \in DOMAIN d  BY SMT, <1>2
  <1>9. \A x \in DOMAIN d : d[x].at \in 1 .. n /\ d[x].stage = js[d[x].at] /\ d[x].stage \in S
    BY <1>1, <1>2, <1>5, <1>7, <1>8 DEF Reached
  <1>10. ASSUME NEW k \in 1 .. n, js[k] \in S
         PROVE  \E x \in DOMAIN d : d[x].at = k
    <2>1. CASE k = n  BY <1>1, <1>2, <1>8, <2>1
    <2>2. CASE k \in 1 .. n - 1
      <3>1. PICK x \in DOMAIN c : c[x].at = k  BY <1>10, <2>2 DEF Reached
      <3> QED  BY <1>2, <1>8, <3>1
    <2> QED  BY <1>6, <1>10, <2>1, <2>2
  <1>11. Reached(d, js, S, 1 .. n)  BY <1>9, <1>10 DEF Reached
  <1> QED  BY <1>2, <1>4, <1>11 DEF d, e

\* Nor is one that is not in S missed.
LEMMA PassForward ==
  ASSUME NEW c, NEW js, NEW n \in Nat \ {0}, NEW S, Reached(c, js, S, 1 .. n - 1), js[n] \notin S
  PROVE  Reached(c, js, S, 1 .. n)
  <1>1. \A k \in 1 .. n - 1 : k \in 1 .. n  BY SMT
  <1>2. \A k \in 1 .. n : k \in 1 .. n - 1 \/ k = n  BY SMT
  <1> QED  BY <1>1, <1>2 DEF Reached

\* The same from the last stage to the first.
LEMMA CallBackward ==
  ASSUME NEW c \in Seq(StageCalls), NEW js \in Seq(Stages), NEW n \in 1 .. Len(js), NEW S,
         Backward(c), Reached(c, js, S, n + 1 .. Len(js)), js[n] \in S
  PROVE  LET d == Append(c, [at |-> n, stage |-> js[n]]) IN
         d \in Seq(StageCalls) /\ Backward(d) /\ Reached(d, js, S, n .. Len(js))
  <1> DEFINE e == [at |-> n, stage |-> js[n]]
             d == Append(c, e)
  <1>1. e \in StageCalls /\ e.at = n /\ e.stage = js[n]  BY SMT DEF StageCalls
  <1> HIDE DEF e
  <1>2. /\ d \in Seq(StageCalls) /\ DOMAIN d = 1 .. Len(c) + 1 /\ DOMAIN c = 1 .. Len(c)
        /\ d[Len(c) + 1] = e /\ \A x \in DOMAIN c : d[x] = c[x]
    BY SMT, <1>1
  <1> HIDE DEF d
  <1>3. \A x \in DOMAIN c : c[x].at \in n + 1 .. Len(js)  BY DEF Reached
  <1>4. Backward(d)
    <2> SUFFICES ASSUME NEW x \in DOMAIN d, NEW y \in DOMAIN d, x < y PROVE d[x].at > d[y].at
      BY DEF Backward
    <2>1. x \in DOMAIN c  BY SMT, <1>2
    <2>2. CASE y \in DOMAIN c  BY <1>2, <2>1, <2>2 DEF Backward
    <2>3. CASE y \notin DOMAIN c
      <3>1. y = Len(c) + 1  BY SMT, <1>2, <2>3
      <3>2. d[x].at \in n + 1 .. Len(js) /\ d[y].at = n  BY <1>1, <1>2, <1>3, <2>1, <3>1
      <3> QED  BY SMT, <3>2
    <2> QED  BY <2>2, <2>3
  <1>5. \A k \in n + 1 .. Len(js) : k \in n .. Len(js)  BY SMT
  <1>6. \A k \in n .. Len(js) : k \in n + 1 .. Len(js) \/ k = n  BY SMT
  <1>7. \A x \in DOMAIN d : x \in DOMAIN c \/ x = Len(c) + 1  BY SMT, <1>2
  <1>8. n \in n .. Len(js) /\ Len(c) + 1 \in DOMAIN d /\ \A x \in DOMAIN c : x \in DOMAIN d  BY SMT, <1>2
  <1>9. \A x \in DOMAIN d : d[x].at \in n .. Len(js) /\ d[x].stage = js[d[x].at] /\ d[x].stage \in S
    BY <1>1, <1>2, <1>5, <1>7, <1>8 DEF Reached
  <1>10. ASSUME NEW k \in n .. Len(js), js[k] \in S
         PROVE  \E x \in DOMAIN d : d[x].at = k
    <2>1. CASE k = n  BY <1>1, <1>2, <1>8, <2>1
    <2>2. CASE k \in n + 1 .. Len(js)
      <3>1. PICK x \in DOMAIN c : c[x].at = k  BY <1>10, <2>2 DEF Reached
      <3> QED  BY <1>2, <1>8, <3>1
    <2> QED  BY <1>6, <1>10, <2>1, <2>2
  <1>11. Reached(d, js, S, n .. Len(js))  BY <1>9, <1>10 DEF Reached
  <1> QED  BY <1>2, <1>4, <1>11 DEF d, e

LEMMA PassBackward ==
  ASSUME NEW c, NEW js \in Seq(Stages), NEW n \in 1 .. Len(js), NEW S,
         Reached(c, js, S, n + 1 .. Len(js)), js[n] \notin S
  PROVE  Reached(c, js, S, n .. Len(js))
  <1>1. \A k \in n + 1 .. Len(js) : k \in n .. Len(js)  BY SMT
  <1>2. \A k \in n .. Len(js) : k \in n + 1 .. Len(js) \/ k = n  BY SMT
  <1> QED  BY <1>1, <1>2 DEF Reached

\* No calls reach no stages.
LEMMA NoneReached ==
  ASSUME NEW js, NEW S
  PROVE  Reached(<<>>, js, S, {}) /\ Forward(<<>>) /\ Backward(<<>>)
  BY SMT DEF Reached, Forward, Backward

-----------------------------------------------------------------------------
(* The history of a run.                                                     *)

LEMMA AppendSome ==
  ASSUME NEW T, NEW s \in Seq(T), NEW e \in T
  PROVE  Append(s, e) \in Seq(T) /\ Append(s, e) # <<>>
  BY SMT, AppendProperties

TrailTyped == trail \in [Runs -> Trails]

\* What did writes.
LEMMA DidRefuse ==
  ASSUME TrailTyped, NEW r \in Runs, NEW st \in Stages \cup {None}, did(r, "refuse", st)
  PROVE  /\ TrailTyped' /\ \A q \in Runs \ {r} : trail'[q] = trail[q]
         /\ trail'[r].refuse # <<>> /\ trail'[r].join = trail[r].join
         /\ trail'[r].commit = trail[r].commit /\ trail'[r].abort = trail[r].abort
  <1> DEFINE u == Append(trail[r].refuse, st)
             t == [trail[r] EXCEPT !.refuse = u]
  <1>1. trail[r] \in Trails /\ trail' = [trail EXCEPT ![r] = t]  BY DEF TrailTyped, did
  <1>2. u \in Seq(Stages \cup {None}) /\ u # <<>>
    <2>1. trail[r].refuse \in Seq(Stages \cup {None})  BY <1>1 DEF Trails
    <2> QED  BY <2>1, AppendSome
  <1> HIDE DEF u
  <1>3. t \in Trails  BY <1>1, <1>2 DEF Trails
  <1>4. t.refuse = u /\ t.join = trail[r].join /\ t.commit = trail[r].commit /\ t.abort = trail[r].abort
    BY SMT, <1>1 DEF Trails
  <1> HIDE DEF t
  <1>5. TrailTyped' /\ trail'[r] = t /\ \A q \in Runs \ {r} : trail'[q] = trail[q]
    BY <1>1, <1>3 DEF TrailTyped
  <1> QED  BY <1>2, <1>4, <1>5

LEMMA DidJoin ==
  ASSUME TrailTyped, NEW r \in Runs, NEW st \in Stages, did(r, "join", st)
  PROVE  /\ TrailTyped' /\ \A q \in Runs \ {r} : trail'[q] = trail[q]
         /\ trail'[r].join = Append(trail[r].join, st) /\ trail'[r].refuse = trail[r].refuse
         /\ trail'[r].commit = trail[r].commit /\ trail'[r].abort = trail[r].abort
  <1> DEFINE u == Append(trail[r].join, st)
             t == [trail[r] EXCEPT !.join = u]
  <1>1. trail[r] \in Trails /\ trail' = [trail EXCEPT ![r] = t]  BY DEF TrailTyped, did
  <1>2. u \in Seq(Stages)  BY SMT, <1>1 DEF Trails
  <1> HIDE DEF u
  <1>3. t \in Trails  BY <1>1, <1>2 DEF Trails
  <1>4. t.join = u /\ t.refuse = trail[r].refuse /\ t.commit = trail[r].commit /\ t.abort = trail[r].abort
    BY SMT, <1>1 DEF Trails
  <1> HIDE DEF t
  <1>5. TrailTyped' /\ trail'[r] = t /\ \A q \in Runs \ {r} : trail'[q] = trail[q]
    BY <1>1, <1>3 DEF TrailTyped
  <1> QED  BY <1>4, <1>5 DEF u

LEMMA DidCommit ==
  ASSUME TrailTyped, NEW r \in Runs, NEW e, Append(trail[r].commit, e) \in Seq(StageCalls),
         did(r, "commit", e)
  PROVE  /\ TrailTyped' /\ \A q \in Runs \ {r} : trail'[q] = trail[q]
         /\ trail'[r].commit = Append(trail[r].commit, e) /\ trail'[r].refuse = trail[r].refuse
         /\ trail'[r].join = trail[r].join /\ trail'[r].abort = trail[r].abort
  <1> DEFINE u == Append(trail[r].commit, e)
             t == [trail[r] EXCEPT !.commit = u]
  <1>1. trail[r] \in Trails /\ trail' = [trail EXCEPT ![r] = t]  BY DEF TrailTyped, did
  <1>2. u \in Seq(StageCalls)  OBVIOUS
  <1> HIDE DEF u
  <1>3. t \in Trails  BY <1>1, <1>2 DEF Trails
  <1>4. t.commit = u /\ t.refuse = trail[r].refuse /\ t.join = trail[r].join /\ t.abort = trail[r].abort
    BY SMT, <1>1 DEF Trails
  <1> HIDE DEF t
  <1>5. TrailTyped' /\ trail'[r] = t /\ \A q \in Runs \ {r} : trail'[q] = trail[q]
    BY <1>1, <1>3 DEF TrailTyped
  <1> QED  BY <1>4, <1>5 DEF u

LEMMA DidAbort ==
  ASSUME TrailTyped, NEW r \in Runs, NEW e, Append(trail[r].abort, e) \in Seq(StageCalls),
         did(r, "abort", e)
  PROVE  /\ TrailTyped' /\ \A q \in Runs \ {r} : trail'[q] = trail[q]
         /\ trail'[r].abort = Append(trail[r].abort, e) /\ trail'[r].refuse = trail[r].refuse
         /\ trail'[r].join = trail[r].join /\ trail'[r].commit = trail[r].commit
  <1> DEFINE u == Append(trail[r].abort, e)
             t == [trail[r] EXCEPT !.abort = u]
  <1>1. trail[r] \in Trails /\ trail' = [trail EXCEPT ![r] = t]  BY DEF TrailTyped, did
  <1>2. u \in Seq(StageCalls)  OBVIOUS
  <1> HIDE DEF u
  <1>3. t \in Trails  BY <1>1, <1>2 DEF Trails
  <1>4. t.abort = u /\ t.refuse = trail[r].refuse /\ t.join = trail[r].join /\ t.commit = trail[r].commit
    BY SMT, <1>1 DEF Trails
  <1> HIDE DEF t
  <1>5. TrailTyped' /\ trail'[r] = t /\ \A q \in Runs \ {r} : trail'[q] = trail[q]
    BY <1>1, <1>3 DEF TrailTyped
  <1> QED  BY <1>4, <1>5 DEF u

-----------------------------------------------------------------------------
(* The journal.                                                              *)

\* What Append is, element by element.
LEMMA AppendIs ==
  ASSUME NEW S, NEW s \in Seq(S), NEW t \in Seq(S), NEW b \in S, Len(t) = Len(s) + 1,
         \A x \in 1 .. Len(s) : t[x] = s[x], t[Len(s) + 1] = b
  PROVE  Append(s, b) = t
  <1> DEFINE d == Append(s, b)
  <1>1. /\ d \in Seq(S) /\ Len(d) = Len(s) + 1 /\ d[Len(s) + 1] = b
        /\ \A x \in 1 .. Len(s) : d[x] = s[x]
    BY SMT
  <1> HIDE DEF d
  <1>2. Len(s) \in Nat  BY LenProperties
  <1>3. \A x \in 1 .. Len(s) + 1 : x \in 1 .. Len(s) \/ x = Len(s) + 1  BY SMT, <1>2
  <1>4. \A x \in 1 .. Len(d) : d[x] = t[x]  BY <1>1, <1>3
  <1>5. d = t  BY <1>1, <1>4, SeqEqual
  <1> QED  BY <1>5 DEF d

LEMMA FirstEvent ==
  ASSUME NEW S, NEW b \in S
  PROVE  Append(<<>>, b) = <<b>> /\ <<b>> \in Seq(S)
  <1>1. <<>> \in Seq(S) /\ <<b>> \in Seq(S) /\ Len(<<>>) = 0 /\ Len(<<b>>) = 0 + 1 /\ <<b>>[0 + 1] = b
    BY SMT
  <1>2. 1 .. 0 = {}  BY SMT
  <1> QED  BY SMT, <1>1, <1>2, AppendIs

LEMMA LastEvent ==
  ASSUME NEW S, NEW a \in S, NEW b \in S
  PROVE  Append(<<a>>, b) = <<a, b>> /\ <<a, b>> \in Seq(S)
  <1> DEFINE s == <<a>>
             t == <<a, b>>
  <1>1. /\ s \in Seq(S) /\ t \in Seq(S) /\ Len(s) = 1 /\ Len(t) = 1 + 1
        /\ s[1] = a /\ t[1] = a /\ t[1 + 1] = b
    BY SMT
  <1> HIDE DEF s, t
  <1>2. \A x \in 1 .. 1 : x = 1  BY SMT
  <1>3. \A x \in 1 .. Len(s) : t[x] = s[x]  BY <1>1, <1>2
  <1>4. Len(t) = Len(s) + 1 /\ t[Len(s) + 1] = b  BY <1>1
  <1>5. s \in Seq(S) /\ t \in Seq(S)  BY <1>1
  <1>6. Append(s, b) = t  BY <1>3, <1>4, <1>5, AppendIs
  <1> QED  BY <1>5, <1>6 DEF s, t

-----------------------------------------------------------------------------
(* A step of one run.                                                        *)

\* The other runs are not concerned.
Alone(r) ==
  \A q \in Runs \ {r} :
    /\ pc'[q] = pc[q] /\ work'[q] = work[q] /\ i'[q] = i[q] /\ attempt'[q] = attempt[q]
    /\ joined'[q] = joined[q] /\ j'[q] = j[q] /\ response'[q] = response[q]
    /\ result'[q] = result[q] /\ trail'[q] = trail[q] /\ journal'[q] = journal[q]
    /\ before'[q] = before[q]

LEMMA OthersStay ==
  ASSUME NEW r \in Runs, Alone(r), NEW q \in Runs \ {r}, RunOK(q)
  PROVE  RunOK(q)'
  BY DEF Alone, RunOK

\* The facts about one run.
LEMMA OneRun ==
  ASSUME FlowInv, NEW r \in Runs
  PROVE  /\ FlowTypeOK /\ TrailTyped /\ RunOK(r) /\ StoreOK /\ Replayed
         /\ pc[r] \in Labels /\ work[r] \in Seq(Stages) /\ joined[r] \in Seq(Stages)
         /\ i[r] \in 1 .. MaxStages + 1 /\ attempt[r] \in 1 .. MaxAttempts
         /\ j[r] \in 0 .. MaxStages + 1 /\ trail[r] \in Trails
         /\ trail[r].join = joined[r] /\ Len(joined[r]) \in 0 .. MaxStages
  <1>1. FlowTypeOK /\ RunOK(r) /\ StoreOK /\ Replayed  BY DEF FlowInv
  <1>2. TrailTyped  BY <1>1 DEF FlowTypeOK, TrailTyped, Trails
  <1>3. /\ pc[r] \in Labels /\ work[r] \in Seq(Stages) /\ joined[r] \in Seq(Stages)
        /\ i[r] \in 1 .. MaxStages + 1 /\ attempt[r] \in 1 .. MaxAttempts
        /\ j[r] \in 0 .. MaxStages + 1
    BY <1>1 DEF FlowTypeOK
  <1>4. trail[r] \in Trails  BY <1>2 DEF TrailTyped
  <1>5. trail[r].join = joined[r] /\ Len(joined[r]) <= MaxStages  BY <1>1 DEF RunOK
  <1>6. Len(joined[r]) \in 0 .. MaxStages  BY SMT, <1>3, <1>5
  <1> QED  BY <1>1, <1>2, <1>3, <1>4, <1>5, <1>6

\* A run that was answered stays as it is; so do the duplicates it was replayed to.
LEMMA AnsweredStay ==
  ASSUME FlowInv, NEW r \in Runs, pc[r] # "done", Alone(r), NEW q \in Runs, NEW o \in Runs,
         SameKey(o, q), o \in before[q]
  PROVE  /\ q # r /\ before'[q] = before[q] /\ trail'[q] = NoTrail /\ result'[q] = "nil"
         /\ \E p \in Runs : SameKey(p, q) /\ response'[q] = p
                              /\ journal'[p] = <<"begin", "committed">> /\ result'[p] = "nil"
  <1>1. Replayed /\ RunOK(r)  BY OneRun
  <1>2. result[r] = None /\ result[r] # "nil"  BY <1>1 DEF RunOK
  <1>3. /\ trail[q] = NoTrail /\ result[q] = "nil"
        /\ \E p \in Runs : SameKey(p, q) /\ response[q] = p
             /\ journal[p] = <<"begin", "committed">> /\ result[p] = "nil"
    BY <1>1 DEF Replayed
  <1>4. q # r  BY <1>2, <1>3
  <1>5. PICK p \in Runs : SameKey(p, q) /\ response[q] = p
             /\ journal[p] = <<"begin", "committed">> /\ result[p] = "nil"
    BY <1>3
  <1>6. p # r  BY <1>2, <1>5
  <1>7. /\ trail'[q] = trail[q] /\ result'[q] = result[q] /\ response'[q] = response[q]
        /\ before'[q] = before[q] /\ journal'[p] = journal[p] /\ result'[p] = result[p]
    BY <1>4, <1>6 DEF Alone
  <1> QED  BY <1>3, <1>4, <1>5, <1>7

\* A step of a run that is not over, and is not answered by it, keeps what is known of
\* the store and of the duplicates: both are about runs that are over.
LEMMA RunStep ==
  ASSUME FlowInv, NEW r \in Runs, pc[r] # "done", Alone(r), FlowTypeOK', RunOK(r)',
         store' = store, result'[r] # "nil", before'[r] = before[r]
  PROVE  FlowInv'
  <1>1. \A q \in Runs : RunOK(q)  BY DEF FlowInv
  <1>2. \A q \in Runs : RunOK(q)'  BY <1>1, OthersStay
  <1>3. StoreOK /\ Replayed /\ FlowTypeOK  BY DEF FlowInv
  <1>4. result[r] = None /\ result[r] # "nil"  BY <1>1 DEF RunOK
  <1>5. \A q \in Runs \ {r} : /\ pc'[q] = pc[q] /\ journal'[q] = journal[q] /\ result'[q] = result[q]
                              /\ trail'[q] = trail[q] /\ response'[q] = response[q] /\ before'[q] = before[q]
    BY DEF Alone
  <1>6. StoreOK'
    <2>1. ASSUME NEW k \in Keys, store'[k] # None PROVE Answered(store[k], k)'
      <3>1. Answered(store[k], k) /\ store[k] \in Runs  BY <1>3, <2>1 DEF StoreOK, FlowTypeOK
      <3>2. store[k] # r  BY <3>1 DEF Answered
      <3> QED  BY <1>5, <3>1, <3>2 DEF Answered
    <2>2. ASSUME NEW q \in Runs, result'[q] = "nil", Key[q] # None PROVE store'[Key[q]] # None
      BY <1>3, <1>5, <2>2 DEF StoreOK
    <2> QED  BY <2>1, <2>2 DEF StoreOK
  <1>7. Replayed'
    <2> SUFFICES ASSUME NEW o \in Runs, NEW q \in Runs, SameKey(o, q), o \in before'[q]
                 PROVE  /\ trail'[q] = NoTrail /\ result'[q] = "nil"
                        /\ \E p \in Runs : SameKey(p, q) /\ response'[q] = p
                             /\ journal'[p] = <<"begin", "committed">> /\ result'[p] = "nil"
      BY DEF Replayed, SameKey
    <2>1. o \in before[q]  BY <1>5
    <2> QED  BY <2>1, AnsweredStay
  <1> QED  BY <1>2, <1>6, <1>7 DEF FlowInv

\* Leaving for the abort path: nothing was called yet.
LEMMA AbortBegins ==
  ASSUME FlowInv, NEW r \in Runs, pc[r] \in {"prepare", "backoff"},
         NEW js \in Seq(Stages), Len(js) <= MaxStages, toAbort(r, js), joined' = [joined EXCEPT ![r] = js],
         TrailTyped', \A q \in Runs \ {r} : trail'[q] = trail[q],
         trail'[r].join = js, trail'[r].refuse # <<>>, trail'[r].commit = trail[r].commit,
         trail'[r].abort = trail[r].abort,
         UNCHANGED <<work, i, attempt, failed, response, result, store, cancelled, journal, before>>
  PROVE  FlowInv'
  <1>1. FlowTypeOK /\ RunOK(r)  BY OneRun
  <1>2. Len(js) \in 0 .. MaxStages + 1 /\ Len(js) \in 0 .. Len(js) /\ Len(js) + 1 .. Len(js) = {}  BY SMT
  <1>3. /\ pc' = [pc EXCEPT ![r] = "abort"] /\ j' = [j EXCEPT ![r] = Len(js)]
    BY DEF toAbort, goto
  <1>4. pc'[r] = "abort" /\ j'[r] = Len(js) /\ joined'[r] = js  BY <1>1, <1>3 DEF FlowTypeOK
  <1>5. \A q \in Runs \ {r} : pc'[q] = pc[q] /\ j'[q] = j[q] /\ joined'[q] = joined[q]
    BY <1>1, <1>3 DEF FlowTypeOK
  <1>6. Alone(r)  BY <1>5 DEF Alone
  <1>7. FlowTypeOK'
    <2>1. pc' \in [Runs -> Labels] /\ j' \in [Runs -> 0 .. MaxStages + 1] /\ joined' \in [Runs -> Seq(Stages)]
      BY <1>1, <1>2, <1>3 DEF FlowTypeOK, Labels
    <2> QED  BY <1>1, <2>1 DEF FlowTypeOK, TrailTyped, Trails
  <1>8. trail'[r].commit = <<>> /\ trail'[r].abort = <<>>  BY <1>1 DEF RunOK, Unfinished
  <1>9. Aborting(trail'[r], j'[r])  BY SMT, <1>2, <1>4, <1>8, NoneReached DEF Aborting
  <1>10. result[r] = None /\ journal[r] = <<"begin">>  BY <1>1 DEF RunOK
  <1>11. RunOK(r)'  BY <1>2, <1>4, <1>9, <1>10 DEF RunOK
  <1> QED  BY <1>6, <1>7, <1>10, <1>11, RunStep

LEMMA PrepareStopStep ==
  ASSUME FlowInv, NEW r \in Runs, PrepareStop(r)
  PROVE  FlowInv'
  <1>1. pc[r] = "prepare"  BY DEF PrepareStop, AtStage
  <1>2. TrailTyped /\ joined[r] \in Seq(Stages) /\ Len(joined[r]) <= MaxStages /\ FlowTypeOK
        /\ trail[r].join = joined[r]
    BY OneRun DEF RunOK
  <1>3. joined' = [joined EXCEPT ![r] = joined[r]]  BY <1>2 DEF PrepareStop, preparing, FlowTypeOK
  <1>4. did(r, "refuse", None) /\ toAbort(r, joined[r])
        /\ UNCHANGED <<work, i, attempt, failed, response, result, store, cancelled, journal, before>>
    BY DEF PrepareStop, preparing
  <1>5. /\ TrailTyped' /\ \A q \in Runs \ {r} : trail'[q] = trail[q]
        /\ trail'[r].refuse # <<>> /\ trail'[r].join = trail[r].join
        /\ trail'[r].commit = trail[r].commit /\ trail'[r].abort = trail[r].abort
    BY <1>2, <1>4, DidRefuse
  <1> QED  BY <1>1, <1>2, <1>3, <1>4, <1>5, AbortBegins

\* The stage that a run is at.
LEMMA StageAt ==
  ASSUME FlowInv, NEW r \in Runs, AtStage(r) \/ pc[r] = "backoff"
  PROVE  work[r][i[r]] \in Stages
  <1>1. i[r] <= Len(work[r])  BY OneRun DEF AtStage, RunOK
  <1>2. work[r] \in Seq(Stages) /\ i[r] \in 1 .. MaxStages + 1  BY OneRun
  <1> QED  BY SMT, <1>1, <1>2

LEMMA PrepareErrorStep ==
  ASSUME FlowInv, NEW r \in Runs, PrepareError(r)
  PROVE  FlowInv'
  <1>1. pc[r] = "prepare" /\ AtStage(r)  BY DEF PrepareError, AtStage
  <1>2. TrailTyped /\ joined[r] \in Seq(Stages) /\ Len(joined[r]) <= MaxStages /\ FlowTypeOK
        /\ trail[r].join = joined[r]
    BY OneRun DEF RunOK
  <1>3. joined' = [joined EXCEPT ![r] = joined[r]]  BY <1>2 DEF PrepareError, preparing, FlowTypeOK
  <1>4. did(r, "refuse", work[r][i[r]]) /\ toAbort(r, joined[r])
        /\ UNCHANGED <<work, i, attempt, failed, response, result, store, cancelled, journal, before>>
    BY DEF PrepareError, preparing
  <1>5. /\ TrailTyped' /\ \A q \in Runs \ {r} : trail'[q] = trail[q]
        /\ trail'[r].refuse # <<>> /\ trail'[r].join = trail[r].join
        /\ trail'[r].commit = trail[r].commit /\ trail'[r].abort = trail[r].abort
    BY <1>1, <1>2, <1>4, DidRefuse, StageAt
  <1> QED  BY <1>1, <1>2, <1>3, <1>4, <1>5, AbortBegins

\* A stage is refused once its join, if it joins, is written down.
LEMMA DidBoth ==
  ASSUME TrailTyped, NEW r \in Runs, NEW st \in Stages, NEW joins \in BOOLEAN, NEW js \in Seq(Stages),
         js = (IF joins THEN Append(trail[r].join, st) ELSE trail[r].join),
         trail' = [trail EXCEPT ![r] = refusal(r, st, joins)]
  PROVE  /\ TrailTyped' /\ \A q \in Runs \ {r} : trail'[q] = trail[q]
         /\ trail'[r].refuse # <<>> /\ trail'[r].join = js
         /\ trail'[r].commit = trail[r].commit /\ trail'[r].abort = trail[r].abort
  <1> DEFINE u == Append(trail[r].refuse, st)
             t == [trail[r] EXCEPT !.join = js, !.refuse = u]
  <1>1. trail[r] \in Trails  BY DEF TrailTyped
  <1>2. trail' = [trail EXCEPT ![r] = t]  BY DEF refusal
  <1>3. trail[r].refuse \in Seq(Stages \cup {None})  BY <1>1 DEF Trails
  <1>4. u \in Seq(Stages \cup {None}) /\ u # <<>>  BY <1>3, AppendSome
  <1> HIDE DEF u
  <1>5. t \in Trails  BY <1>1, <1>4 DEF Trails
  <1>6. t.refuse = u /\ t.join = js /\ t.commit = trail[r].commit /\ t.abort = trail[r].abort
    BY SMT, <1>1 DEF Trails
  <1> HIDE DEF t
  <1>7. TrailTyped' /\ trail'[r] = t /\ \A q \in Runs \ {r} : trail'[q] = trail[q]
    BY SMT, <1>2, <1>5 DEF TrailTyped
  <1> QED  BY <1>4, <1>6, <1>7

LEMMA PrepareAbortStep ==
  ASSUME FlowInv, NEW r \in Runs, NEW joins \in BOOLEAN, PrepareAbort(r, joins)
  PROVE  FlowInv'
  <1> DEFINE st == work[r][i[r]]
             js == IF joins THEN Append(joined[r], st) ELSE joined[r]
  <1>1. pc[r] = "prepare" /\ AtStage(r) /\ ~Stopped(r)  BY DEF PrepareAbort, AtStage
  <1>2. /\ TrailTyped /\ joined[r] \in Seq(Stages) /\ FlowTypeOK /\ RunOK(r) /\ trail[r].join = joined[r]
        /\ i[r] \in 1 .. MaxStages + 1
    BY OneRun
  <1>3. Len(joined[r]) < i[r]  BY <1>1, <1>2 DEF RunOK
  <1>4. ~(i[r] > MaxStages)  BY <1>1 DEF Stopped
  <1>5. st \in Stages  BY <1>1, StageAt
  <1>6. js \in Seq(Stages) /\ Len(js) <= MaxStages
    <2> HIDE DEF st
    <2> QED  BY SMT, <1>2, <1>3, <1>4, <1>5
  <1>7. /\ trail' = [trail EXCEPT ![r] = refusal(r, st, joins)]
        /\ js = IF joins THEN Append(trail[r].join, st) ELSE trail[r].join
    BY <1>2 DEF PrepareAbort
  <1>8. /\ joined' = [joined EXCEPT ![r] = js] /\ toAbort(r, js)
        /\ UNCHANGED <<work, i, attempt, failed, response, result, store, cancelled, journal, before>>
    BY DEF PrepareAbort
  <1> HIDE DEF js, st
  <1>9. /\ TrailTyped' /\ \A q \in Runs \ {r} : trail'[q] = trail[q]
        /\ trail'[r].refuse # <<>> /\ trail'[r].join = js
        /\ trail'[r].commit = trail[r].commit /\ trail'[r].abort = trail[r].abort
    BY ZenonT(30), <1>2, <1>5, <1>6, <1>7, DidBoth
  <1> QED  BY <1>1, <1>6, <1>8, <1>9, AbortBegins

LEMMA PrepareRetryStep ==
  ASSUME FlowInv, NEW r \in Runs, PrepareRetry(r)
  PROVE  FlowInv'
  <1>1. pc[r] = "prepare" /\ i[r] <= Len(work[r]) /\ ~(i[r] > MaxStages) /\ attempt[r] < MaxAttempts
    BY DEF PrepareRetry, AtStage, Stopped
  <1>2. FlowTypeOK /\ RunOK(r) /\ i[r] \in 1 .. MaxStages + 1  BY OneRun
  <1>3. i[r] <= MaxStages  BY SMT, <1>1, <1>2
  <1>4. /\ pc' = [pc EXCEPT ![r] = "backoff"]
        /\ UNCHANGED <<work, i, attempt, joined, j, failed, response, result, store, cancelled, trail,
                       journal, before>>
    BY DEF PrepareRetry, goto, preparing, outcome
  <1>5. pc' \in [Runs -> Labels] /\ pc'[r] = "backoff" /\ \A q \in Runs \ {r} : pc'[q] = pc[q]
    BY <1>2, <1>4 DEF FlowTypeOK, Labels
  <1>6. FlowTypeOK'  BY <1>2, <1>4, <1>5 DEF FlowTypeOK
  <1>7. Alone(r)  BY <1>4, <1>5 DEF Alone
  <1>8. RunOK(r)'  BY <1>1, <1>2, <1>3, <1>4, <1>5 DEF RunOK
  <1>9. result'[r] # "nil"  BY <1>1, <1>2, <1>4 DEF RunOK
  <1> QED  BY <1>1, <1>4, <1>6, <1>7, <1>8, <1>9, RunStep

LEMMA BackoffStep ==
  ASSUME FlowInv, NEW r \in Runs, Backoff(r)
  PROVE  FlowInv'
  <1>1. pc[r] = "backoff"  BY DEF Backoff
  <1>2. /\ TrailTyped /\ joined[r] \in Seq(Stages) /\ Len(joined[r]) <= MaxStages /\ FlowTypeOK
        /\ trail[r].join = joined[r] /\ RunOK(r) /\ attempt[r] \in 1 .. MaxAttempts
    BY OneRun DEF RunOK
  <1>3. UNCHANGED <<work, i, joined, failed, response, result, store, cancelled, journal, before>>
    BY DEF Backoff
  <1>4. CASE /\ goto(r, "prepare") /\ attempt' = [attempt EXCEPT ![r] = @ + 1] /\ UNCHANGED <<j, trail>>
    <2>1. attempt[r] + 1 \in 1 .. MaxAttempts
      <3>1. attempt[r] < MaxAttempts  BY <1>1, <1>2 DEF RunOK
      <3> QED  BY SMT, <1>2, <3>1
    <2>2. pc' \in [Runs -> Labels] /\ pc'[r] = "prepare" /\ \A q \in Runs \ {r} : pc'[q] = pc[q]
      BY <1>2, <1>4 DEF FlowTypeOK, Labels, goto
    <2>3. attempt' \in [Runs -> 1 .. MaxAttempts] /\ \A q \in Runs \ {r} : attempt'[q] = attempt[q]
      BY <1>2, <1>4, <2>1 DEF FlowTypeOK
    <2>4. FlowTypeOK'  BY <1>2, <1>3, <1>4, <2>2, <2>3 DEF FlowTypeOK
    <2>5. Alone(r)  BY <1>3, <1>4, <2>2, <2>3 DEF Alone
    <2>6. RunOK(r)'  BY <1>1, <1>2, <1>3, <1>4, <2>2 DEF RunOK
    <2>7. result'[r] # "nil"  BY <1>1, <1>2, <1>3 DEF RunOK
    <2> QED  BY <1>1, <1>3, <2>4, <2>5, <2>6, <2>7, RunStep
  <1>5. CASE /\ toAbort(r, joined[r]) /\ did(r, "refuse", work[r][i[r]]) /\ UNCHANGED attempt
    <2>1. joined' = [joined EXCEPT ![r] = joined[r]]  BY <1>2, <1>3 DEF FlowTypeOK
    <2>2. /\ TrailTyped' /\ \A q \in Runs \ {r} : trail'[q] = trail[q]
          /\ trail'[r].refuse # <<>> /\ trail'[r].join = trail[r].join
          /\ trail'[r].commit = trail[r].commit /\ trail'[r].abort = trail[r].abort
      BY <1>1, <1>2, <1>5, DidRefuse, StageAt
    <2> QED  BY <1>1, <1>2, <1>3, <1>5, <2>1, <2>2, AbortBegins
  <1> QED  BY <1>4, <1>5 DEF Backoff

LEMMA PrepareContinueStep ==
  ASSUME FlowInv, NEW r \in Runs, NEW g \in DOMAIN Groups \cup {None}, PrepareContinue(r, g)
  PROVE  FlowInv'
  <1> DEFINE st == work[r][i[r]]
  <1>1. pc[r] = "prepare" /\ AtStage(r) /\ ~(i[r] > MaxStages)  BY DEF PrepareContinue, AtStage, Stopped
  <1>2. /\ TrailTyped /\ joined[r] \in Seq(Stages) /\ FlowTypeOK /\ RunOK(r) /\ trail[r].join = joined[r]
        /\ i[r] \in 1 .. MaxStages + 1 /\ work[r] \in Seq(Stages)
    BY OneRun
  <1>3. st \in Stages  BY <1>1, StageAt
  <1>4. Len(joined[r]) < i[r]  BY <1>1, <1>2 DEF RunOK
  <1>5. /\ did(r, "join", st) /\ joined' = [joined EXCEPT ![r] = Append(joined[r], st)]
        /\ work' = (IF g = None THEN work ELSE [work EXCEPT ![r] = work[r] \o Groups[g]])
        /\ i' = [i EXCEPT ![r] = i[r] + 1] /\ attempt' = [attempt EXCEPT ![r] = 1]
        /\ UNCHANGED <<pc, j, failed, response, result, store, cancelled, journal, before>>
    BY DEF PrepareContinue, outcome
  <1> HIDE DEF st
  <1>6. /\ TrailTyped' /\ \A q \in Runs \ {r} : trail'[q] = trail[q]
        /\ trail'[r].join = Append(trail[r].join, st) /\ trail'[r].refuse = trail[r].refuse
        /\ trail'[r].commit = trail[r].commit /\ trail'[r].abort = trail[r].abort
    BY <1>2, <1>3, <1>5, DidJoin
  <1>7. /\ Append(joined[r], st) \in Seq(Stages) /\ Len(Append(joined[r], st)) = Len(joined[r]) + 1
        /\ Len(joined[r]) + 1 <= MaxStages /\ Len(joined[r]) + 1 < i[r] + 1
        /\ i[r] + 1 \in 1 .. MaxStages + 1 /\ 1 \in 1 .. MaxAttempts
    BY SMTT(30), <1>1, <1>2, <1>3, <1>4
  <1>8. joined' \in [Runs -> Seq(Stages)] /\ joined'[r] = Append(joined[r], st)
        /\ \A q \in Runs \ {r} : joined'[q] = joined[q]
    BY <1>2, <1>5, <1>7 DEF FlowTypeOK
  <1>9. i' \in [Runs -> 1 .. MaxStages + 1] /\ i'[r] = i[r] + 1 /\ \A q \in Runs \ {r} : i'[q] = i[q]
    BY <1>2, <1>5, <1>7 DEF FlowTypeOK
  <1>10. attempt' \in [Runs -> 1 .. MaxAttempts] /\ \A q \in Runs \ {r} : attempt'[q] = attempt[q]
    BY <1>2, <1>5, <1>7 DEF FlowTypeOK
  <1>11. work' \in [Runs -> Seq(Stages)] /\ \A q \in Runs \ {r} : work'[q] = work[q]
    <2>1. CASE g = None  BY <1>2, <1>5, <2>1 DEF FlowTypeOK
    <2>2. CASE g # None
      <3>1. Groups[g] \in Seq(Stages)  BY <2>2
      <3>2. work[r] \o Groups[g] \in Seq(Stages)  BY SMT, <1>2, <3>1
      <3> QED  BY <1>2, <1>5, <2>2, <3>2 DEF FlowTypeOK
    <2> QED  BY <2>1, <2>2
  <1>12. FlowTypeOK'  BY <1>2, <1>5, <1>6, <1>8, <1>9, <1>10, <1>11 DEF FlowTypeOK, TrailTyped, Trails
  <1>13. Alone(r)  BY <1>5, <1>6, <1>8, <1>9, <1>10, <1>11 DEF Alone
  <1>14. Unfinished(trail[r])  BY <1>1, <1>2 DEF RunOK
  <1>15. Unfinished(trail'[r])  BY <1>6, <1>14 DEF Unfinished
  <1>16. RunOK(r)'  BY <1>1, <1>2, <1>5, <1>6, <1>7, <1>8, <1>9, <1>15 DEF RunOK
  <1>17. result'[r] # "nil"  BY <1>1, <1>2, <1>5 DEF RunOK
  <1> QED  BY <1>1, <1>5, <1>12, <1>13, <1>16, <1>17, RunStep

LEMMA PrepareSkipStep ==
  ASSUME FlowInv, NEW r \in Runs, PrepareSkip(r)
  PROVE  FlowInv'
  <1>1. pc[r] = "prepare" /\ ~(i[r] > MaxStages)  BY DEF PrepareSkip, AtStage, Stopped
  <1>2. FlowTypeOK /\ RunOK(r) /\ i[r] \in 1 .. MaxStages + 1 /\ joined[r] \in Seq(Stages)  BY OneRun
  <1>3. i' = [i EXCEPT ![r] = i[r] + 1] /\ attempt' = [attempt EXCEPT ![r] = 1]
        /\ UNCHANGED <<pc, work, joined, j, failed, response, result, store, cancelled, trail, journal, before>>
    BY DEF PrepareSkip, outcome
  <1>4. Len(joined[r]) < i[r]  BY <1>1, <1>2 DEF RunOK
  <1>5. i[r] + 1 \in 1 .. MaxStages + 1 /\ 1 \in 1 .. MaxAttempts /\ Len(joined[r]) < i[r] + 1
    BY SMT, <1>1, <1>2, <1>4
  <1>6. i' \in [Runs -> 1 .. MaxStages + 1] /\ i'[r] = i[r] + 1 /\ \A q \in Runs \ {r} : i'[q] = i[q]
    BY <1>2, <1>3, <1>5 DEF FlowTypeOK
  <1>7. attempt' \in [Runs -> 1 .. MaxAttempts] /\ \A q \in Runs \ {r} : attempt'[q] = attempt[q]
    BY <1>2, <1>3, <1>5 DEF FlowTypeOK
  <1>8. FlowTypeOK'  BY <1>2, <1>3, <1>6, <1>7 DEF FlowTypeOK
  <1>9. Alone(r)  BY <1>3, <1>6, <1>7 DEF Alone
  <1>10. RunOK(r)'  BY <1>1, <1>2, <1>3, <1>5, <1>6 DEF RunOK
  <1>11. result'[r] # "nil"  BY <1>1, <1>2, <1>3 DEF RunOK
  <1> QED  BY <1>1, <1>3, <1>8, <1>9, <1>10, <1>11, RunStep

LEMMA PrepareDoneStep ==
  ASSUME FlowInv, NEW r \in Runs, PrepareDone(r)
  PROVE  FlowInv'
  <1>1. pc[r] = "prepare"  BY DEF PrepareDone
  <1>2. FlowTypeOK /\ RunOK(r) /\ joined[r] \in Seq(Stages)  BY OneRun
  <1>3. pc' = [pc EXCEPT ![r] = "commit"] /\ j' = [j EXCEPT ![r] = 1]
        /\ UNCHANGED <<work, i, attempt, joined, failed, response, result, store, cancelled, trail,
                       journal, before>>
    BY DEF PrepareDone, toCommit, goto, preparing
  <1>4. pc' \in [Runs -> Labels] /\ pc'[r] = "commit" /\ \A q \in Runs \ {r} : pc'[q] = pc[q]
    BY <1>2, <1>3 DEF FlowTypeOK, Labels
  <1>5. 1 \in 0 .. MaxStages + 1 /\ 1 \in 1 .. Len(joined[r]) + 1 /\ 1 .. 1 - 1 = {}  BY SMT, <1>2
  <1>6. j' \in [Runs -> 0 .. MaxStages + 1] /\ j'[r] = 1 /\ \A q \in Runs \ {r} : j'[q] = j[q]
    BY <1>2, <1>3, <1>5 DEF FlowTypeOK
  <1>7. FlowTypeOK'  BY <1>2, <1>3, <1>4, <1>6 DEF FlowTypeOK
  <1>8. Alone(r)  BY <1>3, <1>4, <1>6 DEF Alone
  <1>9. Unfinished(trail'[r])  BY <1>1, <1>2, <1>3 DEF RunOK
  <1>10. Committing(trail'[r], j'[r] - 1)  BY SMT, <1>5, <1>6, <1>9, NoneReached DEF Committing, Unfinished
  <1>11. RunOK(r)'  BY <1>1, <1>2, <1>3, <1>4, <1>5, <1>6, <1>10 DEF RunOK
  <1>12. result'[r] # "nil"  BY <1>1, <1>2, <1>3 DEF RunOK
  <1> QED  BY <1>1, <1>3, <1>7, <1>8, <1>11, <1>12, RunStep

\* A step of the second phase that moves on to the position n.
LEMMA PhaseStep ==
  ASSUME FlowInv, NEW r \in Runs, pc[r] \in {"commit", "abort"}, NEW n \in 0 .. MaxStages + 1,
         j' = [j EXCEPT ![r] = n], failed' \in [Runs -> BOOLEAN],
         TrailTyped', \A q \in Runs \ {r} : trail'[q] = trail[q], trail'[r].join = trail[r].join,
         pc[r] = "commit" => n \in 1 .. Len(joined[r]) + 1 /\ Committing(trail'[r], n - 1),
         pc[r] = "abort" => n \in 0 .. Len(joined[r]) /\ Aborting(trail'[r], n),
         UNCHANGED <<pc, work, i, attempt, joined, response, result, store, cancelled, journal, before>>
  PROVE  FlowInv'
  <1>1. FlowTypeOK /\ RunOK(r)  BY OneRun
  <1>2. j' \in [Runs -> 0 .. MaxStages + 1] /\ j'[r] = n /\ \A q \in Runs \ {r} : j'[q] = j[q]
    BY <1>1 DEF FlowTypeOK
  <1>3. FlowTypeOK'  BY <1>1, <1>2 DEF FlowTypeOK, TrailTyped, Trails
  <1>4. Alone(r)  BY <1>2 DEF Alone
  <1>5. result'[r] # "nil"  BY <1>1 DEF RunOK
  <1>6. pc[r] = "commit" => Committing(trail'[r], j'[r] - 1)  BY <1>2
  <1>7. pc[r] = "abort" => Aborting(trail'[r], j'[r])  BY <1>2
  <1>8. RunOK(r)'  BY <1>1, <1>2, <1>6, <1>7 DEF RunOK
  <1> QED  BY <1>3, <1>4, <1>5, <1>8, RunStep

LEMMA CommitNextStep ==
  ASSUME FlowInv, NEW r \in Runs, CommitNext(r)
  PROVE  FlowInv'
  <1> DEFINE t == trail[r]
             n == j[r]
             m == n + 1
             e == [at |-> n, stage |-> t.join[n]]
  <1>1. pc[r] = "commit" /\ n <= Len(joined[r])  BY DEF CommitNext
  <1>2. /\ TrailTyped /\ joined[r] \in Seq(Stages) /\ FlowTypeOK /\ RunOK(r) /\ t.join = joined[r]
        /\ t \in Trails /\ Len(joined[r]) \in 0 .. MaxStages
    BY OneRun
  <1>3. n \in 1 .. Len(joined[r]) + 1 /\ Committing(trail[r], n - 1)  BY <1>1, <1>2 DEF RunOK
  <1>4. /\ n \in 1 .. Len(t.join) /\ m \in 0 .. MaxStages + 1 /\ m \in 1 .. Len(joined[r]) + 1
        /\ m - 1 = n /\ n \in Nat \ {0}
    BY SMTT(30), <1>1, <1>2, <1>3
  <1>5. /\ j' = [j EXCEPT ![r] = m]
        /\ UNCHANGED <<pc, work, i, attempt, joined, response, result, store, cancelled, journal, before>>
    BY DEF CommitNext, preparing
  <1> HIDE DEF m
  <1>6. t.join \in Seq(Stages) /\ t.commit \in Seq(StageCalls)  BY <1>2 DEF Trails
  <1>7. /\ t.refuse = <<>> /\ t.abort = <<>> /\ Forward(t.commit)
        /\ Reached(t.commit, t.join, Committers, 1 .. n - 1)
    BY <1>3 DEF Committing
  <1>8. failed' \in [Runs -> BOOLEAN]  BY <1>2 DEF CommitNext, FlowTypeOK
  <1>9. CASE joined[r][n] \in Committers
    <2>1. did(r, "commit", e)  BY <1>2, <1>9 DEF CommitNext, callAt
    <2>2. t.join[n] \in Committers  BY <1>2, <1>9
    <2>3. /\ Append(t.commit, e) \in Seq(StageCalls) /\ Forward(Append(t.commit, e))
          /\ Reached(Append(t.commit, e), t.join, Committers, 1 .. n)
      BY <1>4, <1>6, <1>7, <2>2, CallForward
    <2> HIDE DEF e
    <2>4. /\ TrailTyped' /\ \A q \in Runs \ {r} : trail'[q] = trail[q]
          /\ trail'[r].commit = Append(t.commit, e) /\ trail'[r].refuse = t.refuse
          /\ trail'[r].join = t.join /\ trail'[r].abort = t.abort
      BY <1>2, <2>1, <2>3, DidCommit
    <2>5. Committing(trail'[r], m - 1)  BY <1>4, <1>7, <2>3, <2>4 DEF Committing
    <2> QED  BY <1>1, <1>4, <1>5, <1>8, <2>4, <2>5, PhaseStep
  <1>10. CASE joined[r][n] \notin Committers
    <2>1. UNCHANGED trail  BY <1>10 DEF CommitNext
    <2>2. Reached(t.commit, t.join, Committers, 1 .. n)  BY <1>2, <1>4, <1>7, <1>10, PassForward
    <2>3. Committing(trail'[r], m - 1)  BY <1>4, <1>7, <2>1, <2>2 DEF Committing
    <2>4. TrailTyped'  BY <1>2, <2>1 DEF TrailTyped
    <2> QED  BY <1>1, <1>4, <1>5, <1>8, <2>1, <2>3, <2>4, PhaseStep
  <1> QED  BY <1>9, <1>10

LEMMA AbortNextStep ==
  ASSUME FlowInv, NEW r \in Runs, AbortNext(r)
  PROVE  FlowInv'
  <1> DEFINE t == trail[r]
             n == j[r]
             e == [at |-> n, stage |-> t.join[n]]
  <1>1. pc[r] = "abort" /\ n > 0  BY DEF AbortNext
  <1>2. /\ TrailTyped /\ joined[r] \in Seq(Stages) /\ FlowTypeOK /\ RunOK(r) /\ t.join = joined[r]
        /\ t \in Trails /\ Len(joined[r]) \in 0 .. MaxStages
    BY OneRun
  <1>3. n \in 0 .. Len(joined[r]) /\ Aborting(trail[r], n)  BY <1>1, <1>2 DEF RunOK
  <1>4. /\ n \in 1 .. Len(t.join) /\ n - 1 \in 0 .. MaxStages + 1 /\ n - 1 \in 0 .. Len(joined[r])
        /\ n - 1 + 1 = n
    BY SMT, <1>1, <1>2, <1>3
  <1>5. /\ j' = [j EXCEPT ![r] = n - 1]
        /\ UNCHANGED <<pc, work, i, attempt, joined, failed, response, result, store, cancelled, journal, before>>
    BY DEF AbortNext, preparing
  <1>6. t.join \in Seq(Stages) /\ t.abort \in Seq(StageCalls)  BY <1>2 DEF Trails
  <1>7. /\ t.refuse # <<>> /\ t.commit = <<>> /\ Backward(t.abort)
        /\ Reached(t.abort, t.join, Aborters, n + 1 .. Len(t.join))
    BY <1>3 DEF Aborting
  <1>8. failed' \in [Runs -> BOOLEAN]  BY <1>2, <1>5 DEF FlowTypeOK
  <1>9. CASE joined[r][n] \in Aborters
    <2>1. did(r, "abort", e)  BY <1>2, <1>9 DEF AbortNext, callAt
    <2>2. t.join[n] \in Aborters  BY <1>2, <1>9
    <2>3. /\ Append(t.abort, e) \in Seq(StageCalls) /\ Backward(Append(t.abort, e))
          /\ Reached(Append(t.abort, e), t.join, Aborters, n .. Len(t.join))
      BY <1>4, <1>6, <1>7, <2>2, CallBackward
    <2> HIDE DEF e
    <2>4. /\ TrailTyped' /\ \A q \in Runs \ {r} : trail'[q] = trail[q]
          /\ trail'[r].abort = Append(t.abort, e) /\ trail'[r].refuse = t.refuse
          /\ trail'[r].join = t.join /\ trail'[r].commit = t.commit
      BY <1>2, <2>1, <2>3, DidAbort
    <2>5. Aborting(trail'[r], n - 1)  BY <1>4, <1>7, <2>3, <2>4 DEF Aborting
    <2> QED  BY <1>1, <1>4, <1>5, <1>8, <2>4, <2>5, PhaseStep
  <1>10. CASE joined[r][n] \notin Aborters
    <2>1. UNCHANGED trail  BY <1>10 DEF AbortNext
    <2>2. Reached(t.abort, t.join, Aborters, n .. Len(t.join))
      BY <1>2, <1>4, <1>6, <1>7, <1>10, PassBackward
    <2>3. Aborting(trail'[r], n - 1)  BY <1>4, <1>7, <2>1, <2>2 DEF Aborting
    <2>4. TrailTyped'  BY <1>2, <2>1 DEF TrailTyped
    <2> QED  BY <1>1, <1>4, <1>5, <1>8, <2>1, <2>3, <2>4, PhaseStep
  <1> QED  BY <1>9, <1>10

LEMMA CancelStep ==
  ASSUME FlowInv, NEW r \in Runs, Cancel(r)
  PROVE  FlowInv'
  <1>1. FlowTypeOK /\ RunOK(r)  BY OneRun
  <1>2. UNCHANGED <<pc, work, i, attempt, joined, j, failed, response, result, store, trail, journal, before>>
    BY DEF Cancel, preparing, outcome
  <1>3. FlowTypeOK'  BY <1>1, <1>2 DEF FlowTypeOK, Cancel
  <1>4. Alone(r)  BY <1>2 DEF Alone
  <1>5. RunOK(r)'  BY <1>1, <1>2 DEF RunOK
  <1>6. pc[r] # "done" /\ result'[r] # "nil"  BY <1>1, <1>2 DEF Cancel, RunOK
  <1> QED  BY <1>2, <1>3, <1>4, <1>5, <1>6, RunStep

LEMMA AbortEndStep ==
  ASSUME FlowInv, NEW r \in Runs, AbortEnd(r)
  PROVE  FlowInv'
  <1>1. pc[r] = "abort" /\ j[r] = 0  BY DEF AbortEnd
  <1>2. FlowTypeOK /\ RunOK(r)  BY OneRun
  <1>3. journal[r] = <<"begin">> /\ Aborting(trail[r], 0)  BY <1>1, <1>2 DEF RunOK
  <1>4. /\ pc' = [pc EXCEPT ![r] = "done"] /\ journal' = [journal EXCEPT ![r] = Append(journal[r], "aborted")]
        /\ result' = [result EXCEPT ![r] = "error"]
        /\ UNCHANGED <<work, i, attempt, joined, j, failed, response, store, cancelled, trail, before>>
    BY DEF AbortEnd, goto, emit, preparing
  <1>5. "begin" \in Events /\ "aborted" \in Events  BY DEF Events
  <1>6. Append(<<"begin">>, "aborted") = <<"begin", "aborted">> /\ <<"begin", "aborted">> \in Seq(Events)
    BY <1>5, LastEvent
  <1>7. pc' \in [Runs -> Labels] /\ pc'[r] = "done" /\ \A q \in Runs \ {r} : pc'[q] = pc[q]
    BY <1>2, <1>4 DEF FlowTypeOK, Labels
  <1>8. /\ journal' \in [Runs -> Seq(Events)] /\ journal'[r] = <<"begin", "aborted">>
        /\ \A q \in Runs \ {r} : journal'[q] = journal[q]
    BY <1>2, <1>3, <1>4, <1>5, <1>6 DEF FlowTypeOK
  <1>9. /\ result' \in [Runs -> {"nil", "error", None}] /\ result'[r] = "error"
        /\ \A q \in Runs \ {r} : result'[q] = result[q]
    BY <1>2, <1>4 DEF FlowTypeOK
  <1>10. FlowTypeOK'  BY <1>2, <1>4, <1>7, <1>8, <1>9 DEF FlowTypeOK
  <1>11. Alone(r)  BY <1>4, <1>7, <1>8, <1>9 DEF Alone
  <1>12. RunOK(r)'  BY <1>2, <1>3, <1>4, <1>7, <1>8, <1>9 DEF RunOK
  <1>13. "error" # "nil"  OBVIOUS
  <1> QED  BY <1>1, <1>4, <1>9, <1>10, <1>11, <1>12, <1>13, RunStep

LEMMA CommitEndStep ==
  ASSUME FlowInv, NEW r \in Runs, CommitEnd(r)
  PROVE  FlowInv'
  <1> DEFINE res == IF failed[r] THEN "error" ELSE "nil"
  <1>1. pc[r] = "commit" /\ j[r] > Len(joined[r])  BY DEF CommitEnd
  <1>2. FlowTypeOK /\ RunOK(r) /\ StoreOK /\ joined[r] \in Seq(Stages)  BY OneRun
  <1>3. journal[r] = <<"begin">> /\ j[r] \in 1 .. Len(joined[r]) + 1 /\ Committing(trail[r], j[r] - 1)
    BY <1>1, <1>2 DEF RunOK
  <1>4. j[r] - 1 = Len(joined[r])  BY SMT, <1>1, <1>2, <1>3
  <1>5. /\ pc' = [pc EXCEPT ![r] = "done"] /\ journal' = [journal EXCEPT ![r] = Append(journal[r], "committed")]
        /\ response' = [response EXCEPT ![r] = r] /\ result' = [result EXCEPT ![r] = res]
        /\ store' = (IF Key[r] # None /\ ~failed[r] THEN [store EXCEPT ![Key[r]] = r] ELSE store)
        /\ UNCHANGED <<work, i, attempt, joined, j, failed, cancelled, trail, before>>
    BY DEF CommitEnd, goto, emit, preparing
  <1>6. "begin" \in Events /\ "committed" \in Events  BY DEF Events
  <1>7. Append(<<"begin">>, "committed") = <<"begin", "committed">> /\ <<"begin", "committed">> \in Seq(Events)
    BY <1>6, LastEvent
  <1>8. pc' \in [Runs -> Labels] /\ pc'[r] = "done" /\ \A q \in Runs \ {r} : pc'[q] = pc[q]
    BY <1>2, <1>5 DEF FlowTypeOK, Labels
  <1>9. /\ journal' \in [Runs -> Seq(Events)] /\ journal'[r] = <<"begin", "committed">>
        /\ \A q \in Runs \ {r} : journal'[q] = journal[q]
    BY ZenonT(30), <1>2, <1>3, <1>5, <1>6, <1>7 DEF FlowTypeOK
  <1>10. /\ result' \in [Runs -> {"nil", "error", None}] /\ result'[r] = res
         /\ \A q \in Runs \ {r} : result'[q] = result[q]
    BY <1>2, <1>5 DEF FlowTypeOK
  <1>11. /\ response' \in [Runs -> Runs \cup {None}] /\ \A q \in Runs \ {r} : response'[q] = response[q]
    BY <1>2, <1>5 DEF FlowTypeOK
  <1>12. /\ store' \in [Keys -> Runs \cup {None}]
         /\ \A k \in Keys : store'[k] = store[k] \/ (store'[k] = r /\ k = Key[r] /\ ~failed[r])
         /\ ~failed[r] /\ Key[r] # None => store'[Key[r]] = r
    <2>1. CASE Key[r] # None /\ ~failed[r]
      <3>1. Key[r] \in Keys  BY <2>1
      <3>2. store' = [store EXCEPT ![Key[r]] = r]  BY <1>5, <2>1
      <3> QED  BY <1>2, <2>1, <3>1, <3>2 DEF FlowTypeOK
    <2>2. CASE ~(Key[r] # None /\ ~failed[r])  BY <1>2, <1>5, <2>2 DEF FlowTypeOK
    <2> QED  BY <2>1, <2>2
  <1>13. FlowTypeOK'  BY <1>2, <1>5, <1>8, <1>9, <1>10, <1>11, <1>12 DEF FlowTypeOK
  <1>14. Alone(r)  BY <1>5, <1>8, <1>9, <1>10, <1>11 DEF Alone
  <1>15. RunOK(r)'  BY <1>2, <1>3, <1>4, <1>5, <1>8, <1>9 DEF RunOK
  <1>16. \A q \in Runs : RunOK(q)'  BY <1>14, <1>15, OthersStay DEF FlowInv
  <1>17. res = "nil" <=> ~failed[r]  OBVIOUS
  <1> HIDE DEF res
  <1>18. ASSUME NEW k \in Keys, store'[k] # None PROVE Answered(store[k], k)'
    <2>1. CASE store'[k] = store[k]
      <3>1. Answered(store[k], k) /\ store[k] \in Runs  BY <1>2, <1>18, <2>1 DEF StoreOK, FlowTypeOK
      <3>2. store[k] # r  BY <1>1, <3>1 DEF Answered
      <3> QED  BY ZenonT(30), <1>8, <1>9, <1>10, <2>1, <3>1, <3>2 DEF Answered
    <2>2. CASE store'[k] = r /\ k = Key[r] /\ ~failed[r]
      BY <1>8, <1>9, <1>10, <1>17, <2>2 DEF Answered
    <2> QED  BY <1>12, <2>1, <2>2
  <1>19. ASSUME NEW q \in Runs, result'[q] = "nil", Key[q] # None PROVE store'[Key[q]] # None
    <2>1. Key[q] \in Keys  BY <1>19
    <2>2. CASE q = r  BY <1>10, <1>12, <1>17, <1>19, <2>2
    <2>3. CASE q # r
      <3>1. store[Key[q]] # None  BY <1>2, <1>10, <1>19, <2>3 DEF StoreOK
      <3> QED  BY <1>12, <2>1, <3>1
    <2> QED  BY <2>2, <2>3
  <1>20. StoreOK'  BY <1>18, <1>19 DEF StoreOK
  <1>21. Replayed'  BY ZenonT(30), <1>1, <1>5, <1>14, AnsweredStay DEF Replayed, SameKey
  <1> QED  BY <1>13, <1>16, <1>20, <1>21 DEF FlowInv

LEMMA BeginStep ==
  ASSUME FlowInv, NEW r \in Runs, Begin(r)
  PROVE  FlowInv'
  <1> DEFINE hit == Key[r] # None /\ store[Key[r]] # None
             bs == {q \in Runs : result[q] = "nil"}
  <1>1. pc[r] = "new"  BY DEF Begin
  <1>2. FlowTypeOK /\ RunOK(r) /\ StoreOK /\ joined[r] \in Seq(Stages)  BY OneRun
  <1>3. /\ trail[r] = NoTrail /\ i[r] = 1 /\ journal[r] = <<>> /\ result[r] = None
        /\ trail[r].join = joined[r] /\ Len(joined[r]) <= MaxStages
    BY <1>1, <1>2 DEF RunOK
  <1>4. before' = [before EXCEPT ![r] = bs]  BY DEF Begin
  <1>5. UNCHANGED <<i, attempt, joined, j, failed, store, cancelled, trail>>  BY DEF Begin
  <1>6. /\ before' \in [Runs -> SUBSET Runs] /\ before'[r] = bs
        /\ \A q \in Runs \ {r} : before'[q] = before[q]
    BY <1>2, <1>4 DEF FlowTypeOK
  <1>7. "idempotent-hit" \in Events /\ "begin" \in Events  BY DEF Events
  <1>8. CASE hit
    <2>1. /\ pc' = [pc EXCEPT ![r] = "done"] /\ journal' = [journal EXCEPT ![r] = Append(journal[r], "idempotent-hit")]
          /\ response' = [response EXCEPT ![r] = store[Key[r]]]
          /\ result' = [result EXCEPT ![r] = "nil"] /\ UNCHANGED work
      BY <1>8 DEF Begin, goto, emit
    <2>2. Append(<<>>, "idempotent-hit") = <<"idempotent-hit">> /\ <<"idempotent-hit">> \in Seq(Events)
      BY <1>7, FirstEvent
    <2>3. Key[r] \in Keys  BY <1>8
    <2>4. store[Key[r]] \in Runs /\ Answered(store[Key[r]], Key[r])
      BY <1>2, <1>8, <2>3 DEF FlowTypeOK, StoreOK
    <2>5. store[Key[r]] # r  BY <1>1, <2>4 DEF Answered
    <2>6. pc' \in [Runs -> Labels] /\ pc'[r] = "done" /\ \A q \in Runs \ {r} : pc'[q] = pc[q]
      BY <1>2, <2>1 DEF FlowTypeOK, Labels
    <2>7. /\ journal' \in [Runs -> Seq(Events)] /\ journal'[r] = <<"idempotent-hit">>
          /\ \A q \in Runs \ {r} : journal'[q] = journal[q]
      BY SMT, <1>2, <1>3, <2>1, <2>2 DEF FlowTypeOK
    <2>8. /\ result' \in [Runs -> {"nil", "error", None}] /\ result'[r] = "nil"
          /\ \A q \in Runs \ {r} : result'[q] = result[q]
      BY <1>2, <2>1 DEF FlowTypeOK
    <2>9. /\ response' \in [Runs -> Runs \cup {None}] /\ response'[r] = store[Key[r]]
          /\ \A q \in Runs \ {r} : response'[q] = response[q]
      BY <1>2, <2>1, <2>4 DEF FlowTypeOK
    <2>10. FlowTypeOK'  BY <1>2, <1>5, <1>6, <2>1, <2>6, <2>7, <2>8, <2>9 DEF FlowTypeOK
    <2>11. Alone(r)  BY <1>5, <1>6, <2>1, <2>6, <2>7, <2>8, <2>9 DEF Alone
    <2>12. RunOK(r)'  BY <1>3, <1>5, <2>6, <2>7 DEF RunOK
    <2>13. \A q \in Runs : RunOK(q)'  BY <2>11, <2>12, OthersStay DEF FlowInv
    <2>14. ASSUME NEW k \in Keys, store'[k] # None PROVE Answered(store[k], k)'
      <3>1. Answered(store[k], k) /\ store[k] \in Runs  BY <1>2, <1>5, <2>14 DEF StoreOK, FlowTypeOK
      <3>2. store[k] # r  BY <1>1, <3>1 DEF Answered
      <3> QED  BY <1>5, <2>6, <2>7, <2>8, <3>1, <3>2 DEF Answered
    <2>15. ASSUME NEW q \in Runs, result'[q] = "nil", Key[q] # None PROVE store'[Key[q]] # None
      BY <1>2, <1>5, <1>8, <2>8, <2>15 DEF StoreOK
    <2>16. StoreOK'  BY <2>14, <2>15 DEF StoreOK
    <2>17. ASSUME NEW o \in Runs, NEW q \in Runs, SameKey(o, q), o \in before'[q]
           PROVE  /\ trail'[q] = NoTrail /\ result'[q] = "nil"
                  /\ \E p \in Runs : SameKey(p, q) /\ response'[q] = p
                       /\ journal'[p] = <<"begin", "committed">> /\ result'[p] = "nil"
      <3>1. CASE q = r
        <4> DEFINE p == store[Key[r]]
        <4>1. p \in Runs /\ SameKey(p, r) /\ journal'[p] = <<"begin", "committed">> /\ result'[p] = "nil"
          BY <1>8, <2>4, <2>5, <2>7, <2>8 DEF Answered, SameKey
        <4> QED  BY <1>3, <1>5, <2>8, <2>9, <3>1, <4>1
      <3>2. CASE q # r
        <4>1. o \in before[q]  BY <1>6, <2>17, <3>2
        <4> QED  BY <1>1, <2>11, <2>17, <4>1, AnsweredStay
      <3> QED  BY <3>1, <3>2
    <2>18. Replayed'  BY <2>17 DEF Replayed, SameKey
    <2> QED  BY <2>10, <2>13, <2>16, <2>18 DEF FlowInv
  <1>9. CASE ~hit
    <2>1. /\ pc' = [pc EXCEPT ![r] = "prepare"] /\ journal' = [journal EXCEPT ![r] = Append(journal[r], "begin")]
          /\ work' = [work EXCEPT ![r] = Groups[Entry]] /\ UNCHANGED <<response, result>>
      BY <1>9 DEF Begin, goto, emit
    <2>2. Append(<<>>, "begin") = <<"begin">> /\ <<"begin">> \in Seq(Events)  BY <1>7, FirstEvent
    <2>3. pc' \in [Runs -> Labels] /\ pc'[r] = "prepare" /\ \A q \in Runs \ {r} : pc'[q] = pc[q]
      BY <1>2, <2>1 DEF FlowTypeOK, Labels
    <2>4. /\ journal' \in [Runs -> Seq(Events)] /\ journal'[r] = <<"begin">>
          /\ \A q \in Runs \ {r} : journal'[q] = journal[q]
      BY SMT, <1>2, <1>3, <2>1, <2>2 DEF FlowTypeOK
    <2>5. work' \in [Runs -> Seq(Stages)] /\ \A q \in Runs \ {r} : work'[q] = work[q]
      BY <1>2, <2>1 DEF FlowTypeOK
    <2>6. FlowTypeOK'  BY <1>2, <1>5, <1>6, <2>1, <2>3, <2>4, <2>5 DEF FlowTypeOK
    <2>7. Alone(r)  BY <1>5, <1>6, <2>1, <2>3, <2>4, <2>5 DEF Alone
    <2>8. NoTrail.join = <<>> /\ Unfinished(NoTrail)  BY SMT DEF NoTrail, Unfinished
    <2>9. Len(<<>>) < 1  BY SMT
    <2>10. RunOK(r)'  BY <1>3, <1>5, <2>1, <2>3, <2>4, <2>8, <2>9 DEF RunOK
    <2>11. \A q \in Runs : RunOK(q)'  BY <2>7, <2>10, OthersStay DEF FlowInv
    <2>12. ASSUME NEW k \in Keys, store'[k] # None PROVE Answered(store[k], k)'
      <3>1. Answered(store[k], k) /\ store[k] \in Runs  BY <1>2, <1>5, <2>12 DEF StoreOK, FlowTypeOK
      <3>2. store[k] # r  BY <1>1, <3>1 DEF Answered
      <3> QED  BY <1>5, <2>1, <2>3, <2>4, <3>1, <3>2 DEF Answered
    <2>13. ASSUME NEW q \in Runs, result'[q] = "nil", Key[q] # None PROVE store'[Key[q]] # None
      BY <1>2, <1>5, <2>1, <2>13 DEF StoreOK
    <2>14. StoreOK'  BY <2>12, <2>13 DEF StoreOK
    <2>15. ASSUME NEW o \in Runs, NEW q \in Runs, SameKey(o, q), o \in before'[q]
           PROVE  q # r
      BY SMT, <1>2, <1>6, <1>9, <2>15 DEF StoreOK, SameKey
    <2>16. ASSUME NEW o \in Runs, NEW q \in Runs, SameKey(o, q), o \in before'[q]
           PROVE  /\ trail'[q] = NoTrail /\ result'[q] = "nil"
                  /\ \E p \in Runs : SameKey(p, q) /\ response'[q] = p
                       /\ journal'[p] = <<"begin", "committed">> /\ result'[p] = "nil"
      <3>1. o \in before[q]  BY <1>6, <2>15, <2>16
      <3> QED  BY <1>1, <2>7, <2>16, <3>1, AnsweredStay
    <2>17. Replayed'  BY <2>16 DEF Replayed, SameKey
    <2> QED  BY <2>6, <2>11, <2>14, <2>17 DEF FlowInv
  <1> QED  BY <1>8, <1>9

LEMMA FlowInitial ==
  ASSUME FlowInit
  PROVE  FlowInv
  <1>1. /\ 1 \in 1 .. MaxStages + 1 /\ 1 \in 1 .. MaxAttempts /\ 0 \in 0 .. MaxStages + 1
        /\ Len(<<>>) <= MaxStages
    BY SMT
  <1>2. <<>> \in Seq(Stages) /\ <<>> \in Seq(Events) /\ NoTrail.join = <<>>  BY SMT DEF NoTrail
  <1>3. NoTrail \in Trails  BY SMT DEF NoTrail, Trails
  <1>4. FlowTypeOK  BY <1>1, <1>2, <1>3 DEF FlowInit, FlowTypeOK, Labels, Trails
  <1>5. ASSUME NEW r \in Runs PROVE RunOK(r)  BY <1>1, <1>2 DEF FlowInit, RunOK
  <1>6. StoreOK  BY DEF FlowInit, StoreOK
  <1>7. Replayed  BY DEF FlowInit, Replayed
  <1> QED  BY <1>4, <1>5, <1>6, <1>7 DEF FlowInv

LEMMA FlowStutters ==
  ASSUME FlowInv, UNCHANGED flowVars
  PROVE  FlowInv'
  <1>1. UNCHANGED <<pc, work, i, attempt, joined, j, failed, response, result, store, cancelled, trail,
                    journal, before>>
    BY DEF flowVars, preparing, outcome
  <1>2. FlowTypeOK'  BY <1>1 DEF FlowInv, FlowTypeOK
  <1>3. ASSUME NEW r \in Runs PROVE RunOK(r)'  BY <1>1 DEF FlowInv, RunOK
  <1>4. StoreOK'  BY <1>1 DEF FlowInv, StoreOK, Answered
  <1>5. Replayed'  BY ZenonT(30), <1>1 DEF FlowInv, Replayed, SameKey
  <1> QED  BY <1>2, <1>3, <1>4, <1>5 DEF FlowInv

\* Every step keeps the invariant.
LEMMA FlowStep ==
  ASSUME FlowInv, [FlowNext]_flowVars
  PROVE  FlowInv'
  <1>1. CASE UNCHANGED flowVars  BY <1>1, FlowStutters
  <1>2. ASSUME NEW r \in Runs, Run(r) PROVE FlowInv'
    <2>1. CASE Begin(r)  BY <2>1, BeginStep
    <2>2. CASE PrepareStop(r)  BY <2>2, PrepareStopStep
    <2>3. CASE PrepareError(r)  BY <2>3, PrepareErrorStep
    <2>4. CASE PrepareRetry(r)  BY <2>4, PrepareRetryStep
    <2>5. CASE Backoff(r)  BY <2>5, BackoffStep
    <2>6. CASE \E g \in DOMAIN Groups \cup {None} : PrepareContinue(r, g)  BY <2>6, PrepareContinueStep
    <2>7. CASE \E joins \in BOOLEAN : PrepareAbort(r, joins)  BY <2>7, PrepareAbortStep
    <2>8. CASE PrepareSkip(r)  BY <2>8, PrepareSkipStep
    <2>9. CASE PrepareDone(r)  BY <2>9, PrepareDoneStep
    <2>10. CASE CommitNext(r)  BY <2>10, CommitNextStep
    <2>11. CASE CommitEnd(r)  BY <2>11, CommitEndStep
    <2>12. CASE AbortNext(r)  BY <2>12, AbortNextStep
    <2>13. CASE AbortEnd(r)  BY <2>13, AbortEndStep
    <2> QED
      BY <1>2, <2>1, <2>2, <2>3, <2>4, <2>5, <2>6, <2>7, <2>8, <2>9, <2>10, <2>11, <2>12, <2>13 DEF Run
  <1>3. ASSUME NEW r \in Runs, Cancel(r) PROVE FlowInv'  BY <1>3, CancelStep
  <1> QED  BY <1>1, <1>2, <1>3 DEF FlowNext, Quiet

\* All the calls that were due were made.
LEMMA ReachedAll ==
  ASSUME NEW c, NEW js \in Seq(Stages), NEW S, NEW ks, ks = 1 .. Len(js), Reached(c, js, S, ks)
  PROVE  EachOnce(c, js, S)
  <1>1. DOMAIN js = ks  BY LenProperties
  <1>2. ASSUME NEW x \in DOMAIN c
        PROVE  c[x].at \in DOMAIN js /\ c[x].stage = js[c[x].at] /\ js[c[x].at] \in S
    <2>1. c[x].at \in ks /\ c[x].stage = js[c[x].at] /\ c[x].stage \in S  BY DEF Reached
    <2> QED  BY <1>1, <2>1
  <1>3. ASSUME NEW k \in DOMAIN js, js[k] \in S PROVE k \in {c[x].at : x \in DOMAIN c}
    <2>1. PICK x \in DOMAIN c : c[x].at = k  BY <1>1, <1>3 DEF Reached
    <2> QED  BY <2>1
  <1>4. {c[x].at : x \in DOMAIN c} = {k \in DOMAIN js : js[k] \in S}
    <2>1. \A k : k \in {c[x].at : x \in DOMAIN c} => k \in {l \in DOMAIN js : js[l] \in S}  BY <1>2
    <2>2. \A k : k \in {l \in DOMAIN js : js[l] \in S} => k \in {c[x].at : x \in DOMAIN c}  BY <1>3
    <2> QED  BY <2>1, <2>2
  <1> QED  BY <1>2, <1>4 DEF EachOnce

LEMMA FlowInvAtomic ==
  ASSUME FlowInv
  PROVE  FlowAtomic
  <1> SUFFICES AllOrNothing /\ JournalTells  BY DEF FlowAtomic, FlowInv
  <1>1. NoTrail.commit = <<>> /\ NoTrail.abort = <<>> /\ NoTrail.refuse = <<>> /\ NoTrail.join = <<>>
    BY SMT DEF NoTrail
  <1>2. ASSUME NEW r \in Runs, pc[r] = "done"
        PROVE  \/ journal[r] = <<"idempotent-hit">> /\ trail[r] = NoTrail
               \/ journal[r] = <<"begin", "committed">> /\ Committing(trail[r], Len(joined[r]))
               \/ journal[r] = <<"begin", "aborted">> /\ Aborting(trail[r], 0) /\ result[r] = "error"
    BY <1>2 DEF FlowInv, RunOK
  <1>3. JournalTells  BY <1>2 DEF JournalTells, Refused, Committing, Aborting
  <1>4. ASSUME NEW r \in Runs
        PROVE  LET t == trail[r] IN
               \/ t.commit = <<>> /\ t.abort = <<>> /\ (t.refuse = <<>>)
               \/ t.refuse = <<>> /\ t.abort = <<>>
               \/ t.refuse # <<>> /\ t.commit = <<>>
    <2>1. RunOK(r) /\ pc[r] \in Labels  BY OneRun
    <2>2. CASE pc[r] = "new"  BY <1>1, <2>1, <2>2 DEF RunOK
    <2>3. CASE pc[r] \in {"prepare", "backoff"}  BY <2>1, <2>3 DEF RunOK, Unfinished
    <2>4. CASE pc[r] = "commit"  BY <2>1, <2>4 DEF RunOK, Committing
    <2>5. CASE pc[r] = "abort"  BY <2>1, <2>5 DEF RunOK, Aborting
    <2>6. CASE pc[r] = "done"  BY <1>1, <1>2, <2>6 DEF Committing, Aborting
    <2> QED  BY <2>1, <2>2, <2>3, <2>4, <2>5, <2>6 DEF Labels
  <1>5. ASSUME NEW r \in Runs, pc[r] = "done", Refused(r)
        PROVE  EachOnce(trail[r].abort, trail[r].join, Aborters) /\ Backward(trail[r].abort)
    <2>1. Aborting(trail[r], 0)  BY <1>1, <1>2, <1>5 DEF Committing, Refused
    <2>2. trail[r].join \in Seq(Stages)  BY OneRun
    <2>3. 0 + 1 .. Len(trail[r].join) = 1 .. Len(trail[r].join)  BY SMT, <2>2
    <2> QED  BY <2>1, <2>2, <2>3, ReachedAll DEF Aborting
  <1>6. ASSUME NEW r \in Runs, pc[r] = "done", ~Refused(r)
        PROVE  EachOnce(trail[r].commit, trail[r].join, Committers) /\ Forward(trail[r].commit)
    <2>1. trail[r].join \in Seq(Stages) /\ trail[r].join = joined[r]  BY OneRun
    <2>2. CASE trail[r] = NoTrail
      <3>1. DOMAIN trail[r].commit = {} /\ DOMAIN trail[r].join = {}  BY SMT, <1>1, <2>2
      <3> QED  BY <3>1 DEF EachOnce, Forward
    <2>3. CASE Committing(trail[r], Len(joined[r]))  BY <2>1, <2>3, ReachedAll DEF Committing
    <2> QED  BY <1>2, <1>6, <2>2, <2>3 DEF Aborting, Refused
  <1>7. AllOrNothing  BY <1>4, <1>5, <1>6 DEF AllOrNothing, Refused, Forward, Backward
  <1> QED  BY <1>3, <1>7

-----------------------------------------------------------------------------
\* Flow.Run is all-or-nothing, whatever the stages decide, however they route and
\* retry and however concurrent Runs and cancellations interleave: a Run that is
\* over committed every stage that joined, in order, or rolled every one back in
\* reverse, each once; its journal says which; and a duplicate of an answered
\* request is replayed without running a stage.
THEOREM FlowStaysAtomic == FlowSpec => []FlowAtomic
  <1>1. FlowInit => FlowInv  BY FlowInitial
  <1>2. FlowInv /\ [FlowNext]_flowVars => FlowInv'  BY FlowStep
  <1>3. FlowInv => FlowAtomic  BY FlowInvAtomic
  <1> QED  BY <1>1, <1>2, <1>3, PTL DEF FlowSpec
==============================================================================
