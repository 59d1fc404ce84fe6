-------------------------------- MODULE Flow --------------------------------
(***************************************************************************)
(* flow/: transactions in two phases.  Run prepares the stages of the      *)
(* entry group and of the groups they route to, then commits the ones that *)
(* joined, or aborts them in reverse; concurrent Runs share only the       *)
(* idempotency store.  What a stage's Prepare decides is left open.        *)
(***************************************************************************)
EXTENDS Naturals, Sequences

CONSTANTS
  Runs,         \* calls of Run, each with an Exchange of its own
  Stages,       \* the stages of the flow
  Committers,   \* those that implement Committer
  Aborters,     \* those that implement Aborter
  Retried,      \* those wrapped by Retry
  MaxAttempts,  \* the policy's MaxAttempts
  Groups,       \* a function from group names to sequences of stages
  Entry,        \* the entry group
  MaxStages,    \* f.maxStages
  Keys,         \* idempotency keys
  Key,          \* a function from runs to the key KeyFunc gives, or None
  None

ASSUME FlowAssumption ==
  /\ {Committers, Aborters, Retried} \subseteq SUBSET Stages
  /\ Groups \in [DOMAIN Groups -> Seq(Stages)] /\ Entry \in DOMAIN Groups
  /\ None \notin Keys \cup Runs \cup DOMAIN Groups \cup {"nil", "error"}
  /\ Key \in [Runs -> Keys \cup {None}]
  /\ MaxStages \in Nat /\ MaxAttempts \in Nat \ {0}

VARIABLES
  pc,         \* per run: "new", "prepare", "backoff", "commit", "abort", "done"
  work,       \* the pipeline: work[r], and the position i in it
  i,
  attempt,    \* retryStage.Prepare's attempt at work[i]
  joined,     \* the stages that joined
  j,          \* position in joined in the second phase
  cancelled,  \* per run: whether its context is cancelled
  failed,     \* whether a Commit returned an error
  response,   \* ex.Response, named by the run that produced it
  result,     \* what Run returned: "nil", "error", or None so far
  store,      \* per key: the stored response, or None
  trail,      \* history of a run: the stages that joined and refused, and the calls of
              \* Commit and Abort, each with its stage's position among the joined
  journal,    \* the events recorded for a run
  before      \* the runs that had returned nil when a run began

preparing == <<work, i, attempt, joined>>
outcome == <<j, failed, response, result, store>>
flowVars == <<pc, preparing, outcome, cancelled, trail, journal, before>>

NoTrail == [join |-> <<>>, refuse |-> <<>>, commit |-> <<>>, abort |-> <<>>]

FlowInit ==
  /\ pc = [r \in Runs |-> "new"]
  /\ work = [r \in Runs |-> <<>>] /\ i = [r \in Runs |-> 1]
  /\ attempt = [r \in Runs |-> 1] /\ joined = [r \in Runs |-> <<>>]
  /\ j = [r \in Runs |-> 0] /\ cancelled = [r \in Runs |-> FALSE]
  /\ failed = [r \in Runs |-> FALSE]
  /\ response = [r \in Runs |-> None] /\ result = [r \in Runs |-> None]
  /\ store = [k \in Keys |-> None]
  /\ trail = [r \in Runs |-> NoTrail] /\ journal = [r \in Runs |-> <<>>]
  /\ before = [r \in Runs |-> {}]

goto(r, l) == pc' = [pc EXCEPT ![r] = l]
emit(r, e) == journal' = [journal EXCEPT ![r] = Append(@, e)]
did(r, what, st) == trail' = [trail EXCEPT ![r][what] = Append(@, st)]

Cancel(r) ==
  /\ pc[r] # "done" /\ ~cancelled[r]
  /\ cancelled' = [cancelled EXCEPT ![r] = TRUE]
  /\ UNCHANGED <<pc, preparing, outcome, trail, journal, before>>

-----------------------------------------------------------------------------
\* Up to the prepare loop: replay a stored response, or begin.
Begin(r) ==
  /\ pc[r] = "new"
  /\ before' = [before EXCEPT ![r] = {q \in Runs : result[q] = "nil"}]
  /\ IF Key[r] # None /\ store[Key[r]] # None
       THEN /\ goto(r, "done") /\ emit(r, "idempotent-hit")
            /\ response' = [response EXCEPT ![r] = store[Key[r]]]
            /\ result' = [result EXCEPT ![r] = "nil"]
            /\ UNCHANGED work
       ELSE /\ goto(r, "prepare") /\ emit(r, "begin")
            /\ work' = [work EXCEPT ![r] = Groups[Entry]]
            /\ UNCHANGED <<response, result>>
  /\ UNCHANGED <<i, attempt, joined, j, failed, store, cancelled, trail>>

\* Leaving the prepare loop for the commit or the abort path.
toCommit(r) == goto(r, "commit") /\ j' = [j EXCEPT ![r] = 1]
toAbort(r, js) == goto(r, "abort") /\ j' = [j EXCEPT ![r] = Len(js)]

AtStage(r) == pc[r] = "prepare" /\ i[r] <= Len(work[r])

\* The checks before a stage: the stage limit, then the context.
Stopped(r) == i[r] > MaxStages \/ (attempt[r] = 1 /\ cancelled[r])

PrepareStop(r) ==
  /\ AtStage(r) /\ Stopped(r)
  /\ toAbort(r, joined[r]) /\ did(r, "refuse", None)
  /\ UNCHANGED <<preparing, failed, response, result, store, cancelled, journal, before>>

\* A stage's Prepare returns an error that is not retried (any more).
PrepareError(r) ==
  /\ AtStage(r) /\ ~Stopped(r)
  /\ toAbort(r, joined[r]) /\ did(r, "refuse", work[r][i[r]])
  /\ UNCHANGED <<preparing, failed, response, result, store, cancelled, journal, before>>

\* A retryable error of a stage that Retry wraps.
PrepareRetry(r) ==
  /\ AtStage(r) /\ ~Stopped(r)
  /\ work[r][i[r]] \in Retried /\ attempt[r] < MaxAttempts
  /\ goto(r, "backoff")
  /\ UNCHANGED <<preparing, outcome, cancelled, trail, journal, before>>

\* Mutant: the attempts are not counted.
BackoffForever(r) ==
  /\ pc[r] = "backoff"
  /\ \/ goto(r, "prepare") /\ UNCHANGED <<attempt, j, trail>>
     \/ /\ cancelled[r] /\ toAbort(r, joined[r]) /\ did(r, "refuse", work[r][i[r]])
        /\ UNCHANGED attempt
  /\ UNCHANGED <<work, i, joined, failed, response, result, store, cancelled, journal, before>>

\* The select of the backoff: the timer, or the context.
Backoff(r) ==
  /\ pc[r] = "backoff"
  /\ \/ /\ goto(r, "prepare") /\ attempt' = [attempt EXCEPT ![r] = @ + 1]
        /\ UNCHANGED <<j, trail>>
     \/ /\ cancelled[r] /\ toAbort(r, joined[r]) /\ did(r, "refuse", work[r][i[r]])
        /\ UNCHANGED attempt
  /\ UNCHANGED <<work, i, joined, failed, response, result, store, cancelled, journal, before>>

\* The stage votes Continue (Route(g) if g is a group) and joins.
PrepareContinue(r, g) ==
  /\ AtStage(r) /\ ~Stopped(r)
  /\ did(r, "join", work[r][i[r]])
  /\ joined' = [joined EXCEPT ![r] = Append(@, work[r][i[r]])]
  /\ work' = IF g = None THEN work ELSE [work EXCEPT ![r] = @ \o Groups[g]]
  /\ i' = [i EXCEPT ![r] = @ + 1] /\ attempt' = [attempt EXCEPT ![r] = 1]
  /\ UNCHANGED <<pc, outcome, cancelled, journal, before>>

\* The history once a stage refuses, which may have joined.
refusal(r, st, joins) ==
  LET t == trail[r]
  IN  [t EXCEPT !.join = IF joins THEN Append(t.join, st) ELSE t.join,
                !.refuse = Append(t.refuse, st)]

\* Mutant: a stage that aborts the exchange does not join.
PrepareAbortLeaves(r, joins) ==
  /\ AtStage(r) /\ ~Stopped(r)
  /\ LET st == work[r][i[r]] IN
       /\ trail' = [trail EXCEPT ![r] = refusal(r, st, joins)]
       /\ toAbort(r, joined[r])
  /\ UNCHANGED <<preparing, failed, response, result, store, cancelled, journal, before>>

\* The stage calls Exchange.Abort, or routes to an unknown group; it joins
\* first if it votes Continue.
PrepareAbort(r, joins) ==
  /\ AtStage(r) /\ ~Stopped(r)
  /\ LET st == work[r][i[r]]
         js == IF joins THEN Append(joined[r], st) ELSE joined[r]
     IN /\ trail' = [trail EXCEPT ![r] = refusal(r, st, joins)]
        /\ joined' = [joined EXCEPT ![r] = js]
        /\ toAbort(r, js)
  /\ UNCHANGED <<work, i, attempt, failed, response, result, store, cancelled, journal, before>>

PrepareSkip(r) ==
  /\ AtStage(r) /\ ~Stopped(r)
  /\ i' = [i EXCEPT ![r] = @ + 1] /\ attempt' = [attempt EXCEPT ![r] = 1]
  /\ UNCHANGED <<pc, work, joined, outcome, cancelled, trail, journal, before>>

\* A stage votes Done, or there is none left.
PrepareDone(r) ==
  /\ pc[r] = "prepare" /\ (AtStage(r) => ~Stopped(r))
  /\ toCommit(r)
  /\ UNCHANGED <<preparing, failed, response, result, store, cancelled, trail, journal, before>>

-----------------------------------------------------------------------------
(* The second phase.                                                       *)

\* A call to the stage at j.
callAt(r) == [at |-> j[r], stage |-> joined[r][j[r]]]

CommitNext(r) ==
  /\ pc[r] = "commit" /\ j[r] <= Len(joined[r])
  /\ IF joined[r][j[r]] \in Committers
       THEN /\ did(r, "commit", callAt(r))
            /\ UNCHANGED failed \/ failed' = [failed EXCEPT ![r] = TRUE]
       ELSE UNCHANGED <<trail, failed>>
  /\ j' = [j EXCEPT ![r] = @ + 1]
  /\ UNCHANGED <<pc, preparing, response, result, store, cancelled, journal, before>>

\* The event, the idempotency store, and the return.
CommitEnd(r) ==
  /\ pc[r] = "commit" /\ j[r] > Len(joined[r])
  /\ goto(r, "done") /\ emit(r, "committed")
  /\ response' = [response EXCEPT ![r] = r]
  /\ result' = [result EXCEPT ![r] = IF failed[r] THEN "error" ELSE "nil"]
  /\ store' = IF Key[r] # None /\ ~failed[r] THEN [store EXCEPT ![Key[r]] = r] ELSE store
  /\ UNCHANGED <<preparing, j, failed, cancelled, trail, before>>

\* An Abort's error is logged and no more.
AbortNext(r) ==
  /\ pc[r] = "abort" /\ j[r] > 0
  /\ IF joined[r][j[r]] \in Aborters THEN did(r, "abort", callAt(r)) ELSE UNCHANGED trail
  /\ j' = [j EXCEPT ![r] = @ - 1]
  /\ UNCHANGED <<pc, preparing, failed, response, result, store, cancelled, journal, before>>

AbortEnd(r) ==
  /\ pc[r] = "abort" /\ j[r] = 0
  /\ goto(r, "done") /\ emit(r, "aborted")
  /\ result' = [result EXCEPT ![r] = "error"]
  /\ UNCHANGED <<preparing, j, failed, response, store, cancelled, trail, before>>

-----------------------------------------------------------------------------
Run(r) ==
  \/ Begin(r)
  \/ PrepareStop(r) \/ PrepareError(r) \/ PrepareRetry(r) \/ Backoff(r)
  \/ \E g \in DOMAIN Groups \cup {None} : PrepareContinue(r, g)
  \/ \E joins \in BOOLEAN : PrepareAbort(r, joins)
  \/ PrepareSkip(r) \/ PrepareDone(r)
  \/ CommitNext(r) \/ CommitEnd(r)
  \/ AbortNext(r) \/ AbortEnd(r)

\* All transactions are over.
Quiet == (\A r \in Runs : pc[r] = "done") /\ UNCHANGED flowVars

FlowNext == (\E r \in Runs : Run(r) \/ Cancel(r)) \/ Quiet

\* A Run that was called goes on: stages return, and backoffs end.
FlowFairness == \A r \in Runs : WF_flowVars(pc[r] # "new" /\ Run(r))

FlowSpec == FlowInit /\ [][FlowNext]_flowVars

-----------------------------------------------------------------------------
(* Properties.                                                             *)

Labels == {"new", "prepare", "backoff", "commit", "abort", "done"}
Events == {"begin", "idempotent-hit", "committed", "aborted"}

StageCalls == [at : Nat, stage : Stages]

\* Type correctness; no Run calls more than MaxStages stages, whatever they
\* route to.
FlowTypeOK ==
  /\ pc \in [Runs -> Labels] /\ cancelled \in [Runs -> BOOLEAN]
  /\ work \in [Runs -> Seq(Stages)] /\ joined \in [Runs -> Seq(Stages)]
  /\ i \in [Runs -> 1 .. MaxStages + 1] /\ attempt \in [Runs -> 1 .. MaxAttempts]
  /\ j \in [Runs -> 0 .. MaxStages + 1] /\ failed \in [Runs -> BOOLEAN]
  /\ response \in [Runs -> Runs \cup {None}] /\ result \in [Runs -> {"nil", "error", None}]
  /\ store \in [Keys -> Runs \cup {None}]
  /\ trail \in [Runs -> [join : Seq(Stages), refuse : Seq(Stages \cup {None}),
                         commit : Seq(StageCalls), abort : Seq(StageCalls)]]
  /\ journal \in [Runs -> Seq(Events)] /\ before \in [Runs -> SUBSET Runs]

Refused(r) == trail[r].refuse # <<>>

\* The calls went to the stages of js that are in S, each of them once.
EachOnce(calls, js, S) ==
  /\ {calls[x].at : x \in DOMAIN calls} = {k \in DOMAIN js : js[k] \in S}
  /\ \A x \in DOMAIN calls : calls[x].stage = js[calls[x].at]

\* "all-or-nothing": once a stage refused nothing is committed, and nothing is
\* rolled back otherwise; a Run that is over committed every stage that joined,
\* in prepare order, even past Commits that failed, or it rolled every one back
\* in reverse order, each exactly once.
AllOrNothing ==
  \A r \in Runs : LET t == trail[r] IN
    /\ t.commit # <<>> => ~Refused(r) /\ t.abort = <<>>
    /\ t.abort # <<>> => Refused(r)
    /\ pc[r] = "done" /\ Refused(r) =>
         /\ EachOnce(t.abort, t.join, Aborters)
         /\ \A x, y \in DOMAIN t.abort : x < y => t.abort[x].at > t.abort[y].at
    /\ pc[r] = "done" /\ ~Refused(r) =>
         /\ EachOnce(t.commit, t.join, Committers)
         /\ \A x, y \in DOMAIN t.commit : x < y => t.commit[x].at < t.commit[y].at

\* The journal tells what happened: of a Run that is over it holds one event of
\* a replay that ran nothing, or a begin and the one ending that took place: a
\* commit pass, whether or not its Commits succeeded, or a rollback.
JournalTells ==
  \A r \in Runs : pc[r] = "done" =>
    \/ journal[r] = <<"idempotent-hit">> /\ trail[r] = NoTrail
    \/ journal[r] = <<"begin", "committed">> /\ ~Refused(r)
    \/ journal[r] = <<"begin", "aborted">> /\ Refused(r) /\ result[r] = "error"

SameKey(r, q) == Key[r] # None /\ Key[r] = Key[q]

\* A duplicate that arrives once a request with its key has been answered is
\* replayed: no stage runs for it, and its answer is one that a transaction with
\* that key committed.
Replayed ==
  \A r, q \in Runs : SameKey(r, q) /\ r \in before[q] =>
    /\ trail[q] = NoTrail /\ result[q] = "nil"
    /\ \E p \in Runs : SameKey(p, q) /\ response[q] = p /\ journal[p] = <<"begin", "committed">>
                         /\ result[p] = "nil"

\* A Run that was called returns, however its stages route and retry.
Terminates == \A r \in Runs : pc[r] # "new" ~> pc[r] = "done"

\* A Run is a transaction: what its stages did, its journal, its answer and what a
\* duplicate gets tell one story.
FlowAtomic == FlowTypeOK /\ AllOrNothing /\ JournalTells /\ Replayed
==============================================================================
