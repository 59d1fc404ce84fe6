--------------------------- MODULE StoreInvariant ---------------------------
(***************************************************************************)
(* The inductive invariant behind Store's NoLoss and NoResurrection.       *)
(***************************************************************************)
EXTENDS Store

IsOut(l, i) == i \in 1 .. Len(l) /\ l[i].op = "out"
IsIn(l, i) == i \in 1 .. Len(l) /\ l[i].op = "in"

\* The shape of a log that replay reads back whole: torn at most at its end, one
\* out record per sequence number and per payload, every tombstone behind the
\* out record it names.
WellFormed(l) ==
  /\ \A i \in 1 .. Len(l) : l[i].op = "torn" => i = Len(l)
  /\ \A i, j \in 1 .. Len(l) :
       IsOut(l, i) /\ IsOut(l, j) /\ (l[i].seq = l[j].seq \/ l[i].val = l[j].val)
         => i = j
  /\ \A i \in 1 .. Len(l) :
       IsOut(l, i) => l[i].key \in Keys /\ l[i].val \in pushed
  /\ \A j \in 1 .. Len(l) :
       IsIn(l, j) => \E i \in 1 .. j : IsOut(l, i) /\ l[i].seq = l[j].seq

\* Tombstones name taken payloads; the first n records hold every payload that
\* is owed, and the tombstone of every payload that was delivered.
Accounts(l, n) ==
  /\ \A i, j \in 1 .. Len(l) :
       IsOut(l, i) /\ IsIn(l, j) /\ l[i].seq = l[j].seq => l[i].val \in taken
  /\ \A m \in acked \ taken : \E i \in 1 .. n : IsOut(l, i) /\ l[i].val = m
  /\ \A i \in 1 .. Len(l) :
       IsOut(l, i) /\ l[i].val \in delivered =>
         \E j \in 1 .. n : IsIn(l, j) /\ l[j].seq = l[i].seq

Good(l, n) == WellFormed(l) /\ Accounts(l, n)

\* How much of the log a crash cannot take away.
Safe == IF "power" \in Faults THEN durable ELSE Len(log)

\* Replay has read records 1 .. pos - 1.
Reading ==
  /\ pos <= Len(log) + 1
  /\ \A i \in 1 .. pos - 1 : log[i].op # "torn"
  /\ tomb = {log[i].seq : i \in {j \in 1 .. pos - 1 : log[j].op = "in"}}
  /\ \A n \in 1 .. Len(entries) :
       \E i \in 1 .. pos - 1 : IsOut(log, i) /\ log[i] = entries[n]
  /\ \A a, b \in 1 .. Len(entries) : entries[a].seq = entries[b].seq => a = b

ReplayInv ==
  /\ Reading
  /\ data = [k \in Keys |-> <<>>]
  /\ \A i \in 1 .. pos - 1 :
       IsOut(log, i) => \E n \in 1 .. Len(entries) : entries[n] = log[i]

\* Memory against log: queued entries are records of the log, at one place
\* each, and none of them was delivered.
MemoryInv ==
  /\ \A k \in Keys : \A n \in 1 .. Len(data[k]) :
       /\ \E i \in 1 .. Len(log) : log[i] = Out(data[k][n].seq, k, data[k][n].val)
       /\ data[k][n].val \notin delivered
  /\ \A k1, k2 \in Keys :
       \A n1 \in 1 .. Len(data[k1]), n2 \in 1 .. Len(data[k2]) :
         data[k1][n1].seq = data[k2][n2].seq => k1 = k2 /\ n1 = n2

\* The second loop of replay has still to distribute entries.
FilterInv ==
  /\ Reading
  /\ pos <= Len(log) => log[pos].op = "torn"
  /\ MemoryInv
  /\ \A n \in 1 .. Len(entries), k \in Keys :
       \A i \in 1 .. Len(data[k]) : entries[n].seq # data[k][i].seq
  /\ \A i \in 1 .. pos - 1 : IsOut(log, i) =>
       \/ log[i].seq \in tomb
       \/ \E n \in 1 .. Len(entries) : entries[n] = log[i]
       \/ \E n \in 1 .. Len(data[log[i].key]) :
            data[log[i].key][n].val = log[i].val

OpenInv ==
  /\ MemoryInv
  /\ \A m \in acked \ taken : \E k \in Keys : \E n \in 1 .. Len(data[k]) :
       data[k][n].val = m

\* The holder of s.mu between Write and Sync.
SyncInv ==
  /\ log # <<>> /\ log[Len(log)] = rec /\ stale = {}
  /\ \/ /\ rec.op = "out" /\ rec.key \in Keys /\ rec.val \in Msgs
        /\ rec.val \notin delivered
        /\ \A k \in Keys : \A n \in 1 .. Len(data[k]) : data[k][n].seq # rec.seq
     \/ /\ rec.op = "in" /\ who \in Pullers /\ want[who] \in Keys
        /\ data[want[who]] # <<>>
        /\ Head(data[want[who]]).seq = rec.seq
        /\ Head(data[want[who]]).val \in taken

\* Compact has copied the queues of the keys outside todo.
CompactInv ==
  /\ \A i \in 1 .. Len(tmp) : \E k \in Keys \ todo : \E n \in 1 .. Len(data[k]) :
       tmp[i] = Out(data[k][n].seq, k, data[k][n].val)
  /\ \A i, j \in 1 .. Len(tmp) : tmp[i].seq = tmp[j].seq => i = j
  /\ \A k \in Keys \ todo : \A n \in 1 .. Len(data[k]) :
       \E i \in 1 .. Len(tmp) : tmp[i] = Out(data[k][n].seq, k, data[k][n].val)

StoreInv ==
  /\ Good(log, Safe)
  /\ "power" \in Faults => \A l \in stale : Good(l, Len(l))
  /\ phase = "replay" => ReplayInv
  /\ phase = "filter" => FilterInv
  /\ phase \in {"open", "closed"} => OpenInv
  /\ phase = "down" => data = [k \in Keys |-> <<>>]
  /\ phase # "open" => at = "idle"
  /\ at = "sync" => SyncInv
  /\ at = "tmp" => CompactInv
  /\ delivered \subseteq taken /\ acked \subseteq pushed /\ taken \subseteq pushed

\* Everything NoLoss and NoResurrection rest on, until the first append that
\* Exposing describes.
IInv == ~exposed => StoreInv
==============================================================================
