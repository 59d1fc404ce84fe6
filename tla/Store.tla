-------------------------------- MODULE Store --------------------------------
(***************************************************************************)
(* space/store.go: the durable store-and-forward queue.  A keyed FIFO kept *)
(* in memory and backed by an append-only log: Push appends an "out"       *)
(* record, Pull appends a tombstone, Open replays the log, Compact         *)
(* rewrites it.  Every method holds s.mu, so at most one call is between   *)
(* its first and its last disk operation; a crash may fall between them.   *)
(*                                                                         *)
(* A log is a sequence of records.  A record cut short by a crash or a     *)
(* short write is the single record Torn; what the framing makes of the    *)
(* bytes that follow one is described at ReplayRecord.                     *)
(***************************************************************************)
EXTENDS Integers, Sequences

CONSTANTS
  Keys,     \* queue keys
  Msgs,     \* payloads; each is pushed at most once, so it names its Push
  Pullers,  \* goroutines that call Pull or Pullp
  None,     \* no key, no payload, no puller
  Sync,     \* the WithSync option
  Faults,   \* which disk faults may happen, of the kinds in FaultKinds
  MaxLog    \* bound: Write is not attempted on a log of this many records

\* "kill"    the process may die and leave the page cache to the next one
\* "power"   the machine may die and lose log bytes that were not fsynced
\* "torn"    ... and may keep a part of the first lost record
\* "short"   a Write may stop part way with an error (disk full)
\* "sync"    a Sync may fail after the Write succeeded
\* "dirsync" the directory fsync of Compact may fail
FaultKinds == {"kill", "power", "torn", "short", "sync", "dirsync"}

ASSUME ConstantsAssumption ==
  /\ None \notin Keys /\ None \notin Msgs /\ None \notin Pullers
  /\ Sync \in BOOLEAN
  /\ Faults \subseteq FaultKinds
  /\ MaxLog \in Nat

VARIABLES
  log,        \* the file at s.path, as a reader of it sees it now
  durable,    \* how many of its leading records are on stable storage
  stale,      \* older contents a crash may bring back: renames not yet fsynced
  phase,      \* "down", "replay", "filter" (both inside Open), "open", "closed"
  pos,        \* replay: index of the next record to read
  entries,    \* replay: the out records read
  tomb,       \* replay: the sequence numbers of the tombstones read
  data,       \* s.data
  seq,        \* s.seq
  file,       \* s.file is open for appending
  at,         \* where the holder of s.mu is: "idle" when nobody holds it
  rec,        \* the record the holder is appending
  who,        \* the puller the holder is, None for a pusher
  tmp,        \* Compact: records written to the .compact file
  todo,       \* Compact: the keys its range loop has not reached
  want,       \* the key each puller is inside Pull for, or None
  waiting,    \* the pullers blocked on the notify channel
  pushed,     \* history: payloads handed to Push
  acked,      \* history: payloads whose Push returned nil
  taken,      \* history: payloads whose tombstone reached the log
  delivered,  \* history: payloads a Pull returned
  exposed     \* history: a record was ever appended where Exposing says

disk == <<log, durable, stale>>
reader == <<pos, entries, tomb>>
memory == <<data, seq, file>>
holder == <<at, rec, who, tmp, todo>>
pulls == <<want, waiting>>
history == <<pushed, acked, taken, delivered, exposed>>
vars == <<disk, phase, reader, memory, holder, pulls, history>>

Entry == [seq : Nat, val : Msgs]

Out(s, k, m) == [op |-> "out", seq |-> s, key |-> k, val |-> m]
In(s) == [op |-> "in", seq |-> s, key |-> None, val |-> None]
Torn == [op |-> "torn", seq |-> 0, key |-> None, val |-> None]

OutRecord == [op : {"out"}, seq : Nat, key : Keys, val : Msgs]
InRecord == [op : {"in"}, seq : Nat, key : {None}, val : {None}]
Record == OutRecord \cup InRecord \cup {Torn}

-----------------------------------------------------------------------------
(* The disk.  What a power failure may leave of a log whose first n        *)
(* records are durable: those and any number of the others, the next one   *)
(* possibly torn.                                                          *)

Kept(l, n) == {SubSeq(l, 1, i) : i \in n .. Len(l)}

Cut(l, n) ==
  IF "torn" \in Faults
  THEN {Append(SubSeq(l, 1, i), Torn) : i \in n .. Len(l) - 1}
  ELSE {}

\* Every contents the next Open may find if the process dies now.
Images ==
  IF "power" \in Faults
  THEN Kept(log, durable) \cup Cut(log, durable) \cup stale
  ELSE {log}

Init ==
  /\ log = <<>> /\ durable = 0 /\ stale = {}
  /\ phase = "down"
  /\ pos = 1 /\ entries = <<>> /\ tomb = {}
  /\ data = [k \in Keys |-> <<>>] /\ seq = 0 /\ file = FALSE
  /\ at = "idle" /\ rec = Torn /\ who = None /\ tmp = <<>> /\ todo = {}
  /\ want = [p \in Pullers |-> None] /\ waiting = {}
  /\ pushed = {} /\ acked = {} /\ taken = {} /\ delivered = {}
  /\ exposed = FALSE

-----------------------------------------------------------------------------
(* Open and replay.                                                        *)

\* Open starts a new Store on the file.  After Close it is called once the
\* pullers of the closed Store have returned.
Open ==
  /\ phase \in {"down", "closed"}
  /\ \A p \in Pullers : want[p] = None
  /\ phase' = "replay"
  /\ pos' = 1 /\ entries' = <<>> /\ tomb' = {}
  /\ data' = [k \in Keys |-> <<>>] /\ seq' = 0 /\ file' = FALSE
  /\ UNCHANGED <<disk, holder, pulls, history>>

\* One turn of the read loop on a complete record.
ReplayRecord ==
  /\ phase = "replay" /\ pos <= Len(log) /\ log[pos] # Torn
  /\ LET r == log[pos] IN
       /\ entries' = IF r.op = "out" THEN Append(entries, r) ELSE entries
       /\ seq' = IF r.op = "out" /\ r.seq >= seq THEN r.seq + 1 ELSE seq
       /\ tomb' = IF r.op = "in" THEN tomb \cup {r.seq} ELSE tomb
  /\ pos' = pos + 1
  /\ UNCHANGED <<disk, phase, data, file, holder, pulls, history>>

\* The loop breaks at a clean end of file, or at a record whose bytes run
\* out.  A torn record with records after it also ends the loop here when it
\* announces more bytes than follow it: they are read as its body.
ReplayStop ==
  /\ phase = "replay"
  /\ pos <= Len(log) => log[pos] = Torn
  /\ phase' = "filter"
  /\ UNCHANGED <<disk, reader, memory, holder, pulls, history>>

\* When enough bytes follow the torn record, its body is completed with theirs
\* and the next length prefix is read from the middle of a record: Open fails
\* with "corrupt record".
ReplayCorrupt ==
  /\ phase = "replay" /\ pos < Len(log) /\ log[pos] = Torn
  /\ phase' = "down"
  /\ UNCHANGED <<disk, reader, memory, holder, pulls, history>>

\* Mutant: tombstones are not applied.
ReplayEntryUnfiltered ==
  /\ phase = "filter" /\ entries # <<>>
  /\ LET e == Head(entries) IN
       data' = [data EXCEPT ![e.key] = Append(@, [seq |-> e.seq, val |-> e.val])]
  /\ entries' = Tail(entries)
  /\ UNCHANGED <<disk, phase, pos, tomb, seq, file, holder, pulls, history>>

\* The second loop: one entry joins its queue unless a tombstone names it.
ReplayEntry ==
  /\ phase = "filter" /\ entries # <<>>
  /\ LET e == Head(entries) IN
       data' = IF e.seq \in tomb THEN data
               ELSE [data EXCEPT ![e.key] =
                       Append(@, [seq |-> e.seq, val |-> e.val])]
  /\ entries' = Tail(entries)
  /\ UNCHANGED <<disk, phase, pos, tomb, seq, file, holder, pulls, history>>

ReplayDone ==
  /\ phase = "filter" /\ entries = <<>>
  /\ phase' = "open" /\ file' = TRUE
  /\ UNCHANGED <<disk, reader, data, seq, holder, pulls, history>>

-----------------------------------------------------------------------------
(* append: Write, then Sync.  Push and takeHead go through it.             *)

Unlocked == phase = "open" /\ at = "idle"

\* Mutant: the notify channel is replaced, not closed.
signalDropped == UNCHANGED waiting

signal == waiting' = {}

TornTail == log # <<>> /\ log[Len(log)] = Torn

\* Appends that nothing in the code prevents and that no later replay can be
\* relied on to read back: after a torn record (Open does not truncate it), to a
\* log whose rename was never made durable, under a sequence number the log
\* already holds (left by a Push whose Sync failed).
Exposing(r) ==
  \/ TornTail
  \/ stale # {}
  \/ r.op = "out" /\ \E i \in 1 .. Len(log) : log[i].op = "out" /\ log[i].seq = r.seq

\* s.file.Write succeeded: the record is in the file, s.mu stays held.
Written(r, p) ==
  /\ file /\ Len(log) < MaxLog
  /\ log' = Append(log, r)
  /\ exposed' = (exposed \/ Exposing(r))
  /\ at' = "sync" /\ rec' = r /\ who' = p
  /\ UNCHANGED <<durable, stale, tmp, todo>>

\* s.file.Write failed, with nothing or a part of the record written.  Torn
\* bytes after torn bytes are one torn record.
WriteFailed ==
  /\ \/ UNCHANGED log
     \/ "short" \in Faults /\ file /\ ~TornTail /\ Len(log) < MaxLog
        /\ log' = Append(log, Torn)
  /\ UNCHANGED <<durable, stale, holder, exposed>>

Push(k, m) ==
  /\ Unlocked /\ m \notin pushed
  /\ Written(Out(seq, k, m), None) \/ WriteFailed
  /\ pushed' = pushed \cup {m}
  /\ UNCHANGED <<phase, reader, memory, pulls, acked, taken, delivered>>

\* takeHead up to its Write, for puller p inside Pull or Pullp.
takeHead(p, k) ==
  /\ data[k] # <<>>
  /\ LET head == Head(data[k]) IN
       \/ /\ Written(In(head.seq), p)
          /\ taken' = taken \cup {head.val}
          /\ want' = [want EXCEPT ![p] = k]
       \/ /\ WriteFailed
          /\ want' = [want EXCEPT ![p] = None]
          /\ UNCHANGED taken
  /\ UNCHANGED <<phase, reader, memory, waiting, pushed, acked, delivered>>

\* What the caller of append does once it returned nil.
Appended ==
  IF rec.op = "out"
  THEN /\ data' = [data EXCEPT ![rec.key] =
                     Append(@, [seq |-> rec.seq, val |-> rec.val])]
       /\ seq' = seq + 1
       /\ signal
       /\ acked' = acked \cup {rec.val}
       /\ UNCHANGED <<want, delivered>>
  ELSE LET k == want[who] IN
       /\ data' = [data EXCEPT ![k] = Tail(@)]
       /\ delivered' = delivered \cup {Head(data[k]).val}
       /\ want' = [want EXCEPT ![who] = None]
       /\ UNCHANGED <<seq, waiting, acked>>

release == at' = "idle" /\ rec' = Torn /\ who' = None /\ UNCHANGED <<tmp, todo>>

\* Mutant: the record is acknowledged before it is synced.
AppendDoneUnsynced ==
  /\ at = "sync"
  /\ Appended
  /\ release
  /\ UNCHANGED <<disk, phase, reader, file, pushed, taken, exposed>>

AppendDone ==
  /\ at = "sync"
  /\ durable' = IF Sync THEN Len(log) ELSE durable
  /\ Appended
  /\ release
  /\ UNCHANGED <<log, stale, phase, reader, file, pushed, taken, exposed>>

\* Sync failed: the caller returns the error, the record stays in the file.
SyncFailed ==
  /\ at = "sync" /\ Sync /\ "sync" \in Faults
  /\ want' = IF rec.op = "out" THEN want ELSE [want EXCEPT ![who] = None]
  /\ release
  /\ UNCHANGED <<disk, phase, reader, memory, waiting, pushed, acked, taken,
                 delivered, exposed>>

-----------------------------------------------------------------------------
(* Pull, Pullp.                                                            *)

\* A goroutine enters Pull.
PullCall(p, k) ==
  /\ phase \in {"open", "closed"} /\ want[p] = None
  /\ want' = [want EXCEPT ![p] = k]
  /\ UNCHANGED <<disk, phase, reader, memory, holder, waiting, history>>

\* The queue is non-empty: take its head.
PullTake(p) ==
  /\ Unlocked /\ want[p] # None /\ p \notin waiting
  /\ takeHead(p, want[p])

\* The queue is empty: snapshot s.notify under the lock and block on it.
PullWait(p) ==
  /\ Unlocked /\ want[p] # None /\ p \notin waiting
  /\ data[want[p]] = <<>>
  /\ waiting' = waiting \cup {p}
  /\ UNCHANGED <<disk, phase, reader, memory, holder, want, history>>

\* ctx ends while blocked.
PullCancel(p) ==
  /\ p \in waiting
  /\ want' = [want EXCEPT ![p] = None] /\ waiting' = waiting \ {p}
  /\ UNCHANGED <<disk, phase, reader, memory, holder, history>>

\* The store is found closed: ErrClosed.
PullClosed(p) ==
  /\ phase = "closed" /\ want[p] # None /\ p \notin waiting
  /\ want' = [want EXCEPT ![p] = None]
  /\ UNCHANGED <<disk, phase, reader, memory, holder, waiting, history>>

\* Pullp changes state only when the queue is non-empty.
Pullp(p, k) ==
  /\ Unlocked /\ want[p] = None
  /\ takeHead(p, k)

-----------------------------------------------------------------------------
(* Compact.                                                                *)

CompactBegin ==
  /\ Unlocked
  /\ at' = "tmp" /\ tmp' = <<>> /\ todo' = Keys
  /\ UNCHANGED <<disk, phase, reader, memory, rec, who, pulls, history>>

\* Mutants: the head of a queue is not copied; a queue is copied backwards.
CompactKeySkipsHead(k) ==
  /\ at = "tmp" /\ k \in todo
  /\ tmp' = tmp \o [i \in 1 .. Len(data[k]) - 1 |->
                      Out(data[k][i + 1].seq, k, data[k][i + 1].val)]
  /\ todo' = todo \ {k}
  /\ UNCHANGED <<disk, phase, reader, memory, at, rec, who, pulls, history>>

CompactKeyBackwards(k) ==
  /\ at = "tmp" /\ k \in todo
  /\ LET q == data[k] IN
       tmp' = tmp \o [i \in 1 .. Len(q) |->
                        Out(q[Len(q) + 1 - i].seq, k, q[Len(q) + 1 - i].val)]
  /\ todo' = todo \ {k}
  /\ UNCHANGED <<disk, phase, reader, memory, at, rec, who, pulls, history>>

\* The range loop reaches a key, in map order: any.
CompactKey(k) ==
  /\ at = "tmp" /\ k \in todo
  /\ tmp' = tmp \o [i \in 1 .. Len(data[k]) |->
                      Out(data[k][i].seq, k, data[k][i].val)]
  /\ todo' = todo \ {k}
  /\ UNCHANGED <<disk, phase, reader, memory, at, rec, who, pulls, history>>

CompactReturn == at' = "idle" /\ tmp' = <<>> /\ todo' = {} /\ UNCHANGED <<rec, who>>

\* Creating, writing, flushing or syncing the .compact file failed.
CompactAbort ==
  /\ at = "tmp"
  /\ CompactReturn
  /\ UNCHANGED <<disk, phase, reader, memory, pulls, history>>

\* Closing the old file, or renaming over it, failed.  After the first s.file
\* stays closed, after the second it is reopened, best effort.
CompactSwapFailed ==
  /\ at = "tmp" /\ todo = {}
  /\ file' \in {file, FALSE}
  /\ CompactReturn
  /\ UNCHANGED <<disk, phase, reader, data, seq, pulls, history>>

\* The synced .compact file replaces the log.  Until the directory is fsynced
\* a power failure may bring back what the old file held.
CompactRename ==
  /\ at = "tmp" /\ todo = {} /\ file
  /\ log' = tmp /\ durable' = Len(tmp)
  /\ stale' = stale \cup Kept(log, durable) \cup Cut(log, durable)
  /\ at' = "renamed" /\ file' = FALSE
  /\ UNCHANGED <<phase, reader, data, seq, rec, who, tmp, todo, pulls, history>>

\* syncDir, then reopening the log for appending, which may fail too.
CompactSyncDir ==
  /\ at = "renamed"
  /\ \/ stale' = {}
     \/ "dirsync" \in Faults /\ UNCHANGED stale
  /\ file' \in BOOLEAN
  /\ CompactReturn
  /\ UNCHANGED <<log, durable, phase, reader, data, seq, pulls, history>>

-----------------------------------------------------------------------------
(* Close and crash.                                                        *)

Close ==
  /\ Unlocked
  /\ phase' = "closed" /\ file' = FALSE
  /\ signal
  /\ UNCHANGED <<disk, reader, data, seq, holder, want, history>>

\* The process dies, at any point of any call, and one of the contents the
\* disk may hold is what the next Open reads.
Crash ==
  /\ phase # "down"
  /\ \/ "kill" \in Faults /\ UNCHANGED disk
     \/ /\ "power" \in Faults
        /\ \E l \in Images : log' = l /\ durable' = Len(l) /\ stale' = {}
  /\ phase' = "down"
  /\ pos' = 1 /\ entries' = <<>> /\ tomb' = {}
  /\ data' = [k \in Keys |-> <<>>] /\ seq' = 0 /\ file' = FALSE
  /\ at' = "idle" /\ rec' = Torn /\ who' = None /\ tmp' = <<>> /\ todo' = {}
  /\ want' = [p \in Pullers |-> None] /\ waiting' = {}
  /\ UNCHANGED history

-----------------------------------------------------------------------------
Replay ==
  ReplayRecord \/ ReplayStop \/ ReplayCorrupt \/ ReplayEntry \/ ReplayDone

Puller(p) ==
  \/ PullTake(p) \/ PullWait(p) \/ PullCancel(p) \/ PullClosed(p)
  \/ \E k \in Keys : PullCall(p, k) \/ Pullp(p, k)

Compact ==
  \/ CompactBegin \/ (\E k \in Keys : CompactKey(k)) \/ CompactAbort
  \/ CompactSwapFailed \/ CompactRename \/ CompactSyncDir

Next ==
  \/ Open \/ Replay
  \/ \E k \in Keys, m \in Msgs : Push(k, m)
  \/ AppendDone \/ SyncFailed
  \/ \E p \in Pullers : Puller(p)
  \/ Compact
  \/ Close \/ Crash

Spec == Init /\ [][Next]_vars

\* The holder of s.mu runs on; a goroutine that wants s.mu gets it in the end,
\* however often others take it (sync.Mutex hands itself to a starving waiter);
\* nothing forces a caller to call, a context to end or the process to die.
CompactStep ==
  \/ (\E k \in Keys : CompactKey(k)) \/ CompactAbort
  \/ CompactSwapFailed \/ CompactRename \/ CompactSyncDir

Fairness ==
  /\ WF_vars(AppendDone \/ SyncFailed) /\ WF_vars(CompactStep)
  /\ \A p \in Pullers : SF_vars(PullTake(p)) /\ WF_vars(PullClosed(p))

FairSpec == Spec /\ Fairness

-----------------------------------------------------------------------------
(* Properties.                                                             *)

\* Type correctness, with who may hold s.mu when: only an open store is being
\* changed, and a puller between Write and Sync is not also blocked on notify.
TypeOK ==
  /\ log \in Seq(Record) /\ durable \in 0 .. Len(log) /\ stale \subseteq Seq(Record)
  /\ phase \in {"down", "replay", "filter", "open", "closed"}
  /\ pos \in Nat \ {0} /\ entries \in Seq(OutRecord) /\ tomb \in SUBSET Nat
  /\ data \in [Keys -> Seq(Entry)] /\ seq \in Nat /\ file \in BOOLEAN
  /\ at \in {"idle", "sync", "tmp", "renamed"} /\ (at # "idle" => phase = "open")
  /\ rec \in Record /\ who \in Pullers \cup {None}
  /\ tmp \in Seq(OutRecord) /\ todo \subseteq Keys
  /\ want \in [Pullers -> Keys \cup {None}]
  /\ waiting \subseteq {p \in Pullers : want[p] # None}
  /\ at = "sync" => \/ rec \in OutRecord
                    \/ /\ rec \in InRecord
                       /\ who \in Pullers \ waiting
                       /\ want[who] \in Keys /\ data[want[who]] # <<>>
  /\ pushed \subseteq Msgs /\ acked \subseteq Msgs /\ taken \subseteq Msgs
  /\ delivered \subseteq Msgs /\ exposed \in BOOLEAN

\* What replay would rebuild from contents l: the out records before the first
\* torn one that no tombstone before it names.
Readable(l, i) == i \in DOMAIN l /\ \A j \in 1 .. i : l[j].op # "torn"
Live(l, i) ==
  /\ Readable(l, i) /\ l[i].op = "out"
  /\ \A j \in DOMAIN l :
       Readable(l, j) /\ l[j].op = "in" => l[j].seq # l[i].seq
Survives(l, m) == \E i \in DOMAIN l : Live(l, i) /\ l[i].val = m

\* No acknowledged message is lost: whatever a crash leaves on the disk, replay
\* rebuilds every payload whose Push returned nil and whose tombstone was never
\* written.  (Push and takeHead order their Write, Sync and memory update, and
\* Compact its sync, rename and directory fsync, for this.)
CrashSafe == \A m \in acked \ taken : \A l \in Images : Survives(l, m)

\* The same as long as no record was appended where Exposing says.
NoLoss == ~exposed => CrashSafe

\* "A crash never resurrects a delivered entry": a payload a Pull returned is in
\* no contents a crash may leave, and is not queued in memory to be pulled again.
NoResurrection ==
  ~exposed =>
    \A m \in delivered :
      /\ \A l \in Images : ~Survives(l, m)
      /\ \A k \in Keys : \A i \in DOMAIN data[k] : data[k][i].val # m

\* Between calls the queues in memory are, in order, what replay would rebuild
\* from the log: Push, Pull, Compact and Open keep the two in step.
Rebuilt(k) ==
  LET mine == SelectSeq([i \in 1 .. Len(log) |-> i],
                        LAMBDA i : Live(log, i) /\ log[i].key = k)
  IN  [j \in 1 .. Len(mine) |-> [seq |-> log[mine[j]].seq, val |-> log[mine[j]].val]]

MemoryMatchesLog ==
  Unlocked /\ ~exposed => \A k \in Keys : data[k] = Rebuilt(k)

\* No lost wakeup: Pull snapshots s.notify under the lock, so no puller stays
\* blocked while its queue has an entry or the store is closed.
NoLostWakeup ==
  \A p \in waiting : phase = "open" /\ data[want[p]] = <<>>

\* A Pull whose queue has an entry returns, with it or with an error, or another
\* puller empties the queue, or the store closes: Pull's loop does not starve.
PullProgress ==
  \A p \in Pullers : \A k \in Keys :
    (want[p] = k /\ data[k] # <<>>) ~> (want[p] # k \/ data[k] = <<>> \/ phase # "open")

\* Close "unblocks waiters with ErrClosed".
CloseUnblocks ==
  \A p \in Pullers : (want[p] # None /\ phase = "closed") ~> (want[p] = None)

\* The types hold, and whoever pulls gets away: nobody sleeps through a Push or a
\* Close, a Pull whose queue has an entry returns, and Close lets every Pull go
\* (Pull, signal, Close).
PullersReturn == [](TypeOK /\ NoLostWakeup) /\ PullProgress /\ CloseUnblocks
==============================================================================
