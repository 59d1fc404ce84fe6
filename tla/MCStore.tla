------------------------------- MODULE MCStore -------------------------------
(* Model-checking instances of Store, and its refinement of DurableQueue.    *)
EXTENDS StoreInvariant, TLC

\* Payloads, pullers and keys are interchangeable: nothing compares them.
Symmetry == Permutations(Msgs) \cup Permutations(Pullers) \cup Permutations(Keys)

\* Past an append that Exposing describes, where the safety properties say no
\* more, only logs are explored in which replay meets one record behind a torn one.
Explored == exposed => stale = {} /\ Len(log) = 2 /\ log[1] = Torn

\* The payloads of key k that replay rebuilds from the part of the log that is
\* on stable storage.
DurablePayloads(k) ==
  LET l == SubSeq(log, 1, durable)
      mine == SelectSeq([i \in 1 .. Len(l) |-> i],
                        LAMBDA i : Live(l, i) /\ l[i].key = k)
  IN  [j \in 1 .. Len(mine) |-> l[mine[j]].val]

Abstract == INSTANCE DurableQueue
              WITH queue <- [k \in Keys |-> DurablePayloads(k)]

\* The store implements the durable queue: seen through its fsynced log, Push,
\* Pull, Compact, Close, Open and a crash inside any of them only ever append at
\* the tail of a queue or drop a taken payload from its head.
ImplementsDurableQueue == Abstract!Spec
==============================================================================
