------------------------------ MODULE StoreLog ------------------------------
(****************************************************************************)
(* Type correctness of Store, for any keys, payloads, pullers, faults and  *)
(* log length, and what keeps its log good: the records a crash leaves of  *)
(* it and the records a call appends, and what steps that leave it alone   *)
(* preserve.                                                               *)
(****************************************************************************)
EXTENDS StoreInvariant, SequenceTheorems, TLAPS

USE Zenon

-----------------------------------------------------------------------------
(* Sequences.                                                              *)

\* Every prefix of a sequence over S is a sequence over S, element by element.
LEMMA PrefixOf ==
  ASSUME NEW S, NEW s \in Seq(S), NEW n \in 0 .. Len(s)
  PROVE  /\ SubSeq(s, 1, n) \in Seq(S)
         /\ Len(SubSeq(s, 1, n)) = n
         /\ \A i \in 1 .. n : SubSeq(s, 1, n)[i] = s[i]
<1>1. \A i \in 1 .. n : s[i] \in S
  BY SMT, ElementOfSeq, LenProperties
<1>2. /\ SubSeq(s, 1, n) \in Seq(S)
      /\ Len(SubSeq(s, 1, n)) = IF 1 <= n THEN n - 1 + 1 ELSE 0
      /\ \A i \in 1 .. n - 1 + 1 : SubSeq(s, 1, n)[i] = s[1 + i - 1]
  <2>1. 1 \in Int /\ n \in Int
    BY SMT, LenProperties
  <2> QED BY SMT, <1>1, <2>1, SubSeqProperties
<1> QED BY SMT, <1>2, LenProperties

\* What a power failure may leave of a typed log is typed.
LEMMA DiskType ==
  ASSUME TypeOK PROVE Kept(log, durable) \cup Cut(log, durable) \subseteq Seq(Record)
<1>1. Torn \in Record BY DEF Record
<1>2. ASSUME NEW i \in durable .. Len(log)
      PROVE  /\ SubSeq(log, 1, i) \in Seq(Record)
             /\ Append(SubSeq(log, 1, i), Torn) \in Seq(Record)
  <2>1. i \in 0 .. Len(log) BY SMT, <1>2, LenProperties DEF TypeOK
  <2>2. SubSeq(log, 1, i) \in Seq(Record) BY <2>1, PrefixOf DEF TypeOK
  <2> QED BY <2>2, <1>1, AppendProperties
<1>3. \A i \in durable .. Len(log) - 1 : i \in durable .. Len(log)
  BY SMT, LenProperties DEF TypeOK
<1> QED BY <1>2, <1>3 DEF Kept, Cut

LEMMA ImagesType ==
  ASSUME TypeOK PROVE Images \subseteq Seq(Record)
BY DiskType DEF Images, TypeOK

-----------------------------------------------------------------------------
(* Type correctness.                                                       *)

\* A record is an out record, a tombstone or torn, and says which by its op.
LEMMA RecordKinds ==
  ASSUME NEW r \in Record
  PROVE  /\ r.op \in {"out", "in", "torn"}
         /\ r.op = "out" => r \in OutRecord /\ r.key \in Keys /\ r.val \in Msgs
         /\ r.op = "in" => r \in InRecord
         /\ r.op = "torn" => r = Torn
         /\ r.seq \in Nat
BY SMT DEF Record, OutRecord, InRecord, Torn

LEMMA MadeRecords ==
  /\ Torn \in Record
  /\ \A s \in Nat : In(s) \in InRecord /\ In(s) \in Record
  /\ \A s \in Nat, k \in Keys, m \in Msgs : Out(s, k, m) \in OutRecord /\ Out(s, k, m) \in Record
BY DEF Record, OutRecord, InRecord, Out, In

LEMMA WrittenType ==
  ASSUME TypeOK, NEW r \in Record, NEW p \in Pullers \cup {None}, Written(r, p)
  PROVE  /\ log' \in Seq(Record) /\ durable' \in 0 .. Len(log') /\ stale' \subseteq Seq(Record)
         /\ at' = "sync" /\ rec' = r /\ who' = p /\ UNCHANGED <<tmp, todo>>
         /\ exposed' \in BOOLEAN
<1>1. /\ log' \in Seq(Record) /\ Len(log') = Len(log) + 1
  BY SMT, AppendProperties DEF Written, TypeOK
<1>2. (exposed \/ Exposing(r)) \in BOOLEAN
  OBVIOUS
<1> QED BY SMT, <1>1, <1>2, LenProperties DEF Written, TypeOK

LEMMA WriteFailedType ==
  ASSUME TypeOK, WriteFailed
  PROVE  /\ log' \in Seq(Record) /\ durable' \in 0 .. Len(log') /\ stale' \subseteq Seq(Record)
         /\ UNCHANGED <<holder, exposed>>
<1>1. CASE log' = log
  BY <1>1 DEF WriteFailed, TypeOK
<1>2. CASE log' = Append(log, Torn)
  <2>1. /\ log' \in Seq(Record) /\ Len(log') = Len(log) + 1
    BY SMT, <1>2, AppendProperties, MadeRecords DEF TypeOK
  <2> QED BY SMT, <2>1, LenProperties DEF WriteFailed, TypeOK
<1> QED BY <1>1, <1>2 DEF WriteFailed

LEMMA TakeHeadType ==
  ASSUME TypeOK, Unlocked, NEW p \in Pullers \ waiting, NEW k \in Keys, takeHead(p, k)
  PROVE  TypeOK'
<1>1. /\ data[k] \in Seq(Entry) /\ data[k] # <<>>
  BY DEF TypeOK, takeHead
<1>2. Head(data[k]) \in Entry
  BY <1>1, HeadTailProperties
<1>3. Head(data[k]).seq \in Nat /\ Head(data[k]).val \in Msgs
  BY <1>2 DEF Entry
<1>4. CASE /\ Written(In(Head(data[k]).seq), p)
           /\ taken' = taken \cup {Head(data[k]).val}
           /\ want' = [want EXCEPT ![p] = k]
  <2>1. In(Head(data[k]).seq) \in InRecord /\ In(Head(data[k]).seq) \in Record
    BY <1>3, MadeRecords
  <2>2. p \in Pullers \cup {None} /\ p \in Pullers /\ p \notin waiting
    OBVIOUS
  <2>3. /\ log' \in Seq(Record) /\ durable' \in 0 .. Len(log') /\ stale' \subseteq Seq(Record)
        /\ at' = "sync" /\ rec' = In(Head(data[k]).seq) /\ who' = p /\ UNCHANGED <<tmp, todo>>
        /\ exposed' \in BOOLEAN
    BY <1>4, <2>1, <2>2, WrittenType
  <2>4. /\ want' \in [Pullers -> Keys \cup {None}] /\ want'[p] = k
        /\ \A q \in waiting : want'[q] # None
    BY <1>4, ConstantsAssumption DEF TypeOK
  <2> QED BY <1>1, <1>3, <1>4, <2>1, <2>2, <2>3, <2>4 DEF takeHead, TypeOK, reader, memory, Unlocked
<1>5. CASE /\ WriteFailed
           /\ want' = [want EXCEPT ![p] = None]
           /\ UNCHANGED taken
  <2>1. /\ log' \in Seq(Record) /\ durable' \in 0 .. Len(log') /\ stale' \subseteq Seq(Record)
        /\ UNCHANGED <<holder, exposed>>
    BY <1>5, WriteFailedType
  <2>2. /\ want' \in [Pullers -> Keys \cup {None}]
        /\ \A q \in waiting : want'[q] # None
    BY <1>5 DEF TypeOK
  <2> QED BY <1>3, <1>5, <2>1, <2>2 DEF takeHead, TypeOK, reader, memory, holder, Unlocked
<1> QED BY <1>4, <1>5 DEF takeHead

LEMMA TypeStep ==
  ASSUME TypeOK, [Next]_vars PROVE TypeOK'
<1> USE DEF disk, reader, memory, holder, pulls, history
<1>1. CASE Open
  <2>1. [k \in Keys |-> <<>>] \in [Keys -> Seq(Entry)] BY EmptySeq
  <2>2. <<>> \in Seq(OutRecord) BY EmptySeq
  <2>3. data' \in [Keys -> Seq(Entry)] /\ entries' \in Seq(OutRecord)
    BY <1>1, <2>1, <2>2, Zenon DEF Open
  <2>4. /\ pos' = 1 /\ tomb' = {} /\ seq' = 0 /\ file' = FALSE /\ phase' = "replay"
        /\ at = "idle" /\ UNCHANGED <<disk, holder, pulls, history>>
    BY <1>1 DEF Open, TypeOK
  <2>5. tomb' \in SUBSET Nat /\ file' \in BOOLEAN
    BY <2>4, Zenon
  <2>6. /\ phase' = "replay"
        /\ at = "idle" /\ UNCHANGED <<disk, holder, pulls, history>>
        /\ pos' \in Nat \ {0} /\ seq' \in Nat
    <3>1. pos' = 1 /\ seq' = 0 BY <2>4
    <3>2. pos' \in Nat \ {0} /\ seq' \in Nat BY SMT, <3>1
    <3> QED BY <2>4, <3>2
  <2> QED BY <2>3, <2>5, <2>6 DEF TypeOK
<1>2. CASE ReplayRecord
  <2>1. pos \in 1 .. Len(log) BY SMT, <1>2, LenProperties DEF ReplayRecord, TypeOK
  <2>2. log[pos] \in Record BY <2>1, ElementOfSeq DEF TypeOK
  <2>3. log[pos].seq \in Nat /\ (log[pos].op = "out" => log[pos] \in OutRecord)
    BY <2>2, RecordKinds
  <2>4. entries' \in Seq(OutRecord)
    BY <1>2, <2>3, AppendProperties DEF ReplayRecord, TypeOK
  <2>51. pos' \in Nat \ {0}
    BY SMT, <1>2 DEF ReplayRecord, TypeOK
  <2>52. seq' \in Nat
    BY SMTT(30), <1>2, <2>3 DEF ReplayRecord, TypeOK
  <2>53. tomb' \in SUBSET Nat
    BY <1>2, <2>3, Zenon DEF ReplayRecord, TypeOK
  <2>5. pos' \in Nat \ {0} /\ seq' \in Nat /\ tomb' \in SUBSET Nat
    BY <2>51, <2>52, <2>53
  <2>6. UNCHANGED <<disk, phase, data, file, holder, pulls, history>>
    BY <1>2 DEF ReplayRecord
  <2> QED BY <2>4, <2>5, <2>6 DEF TypeOK
<1>3. CASE ReplayStop
  BY <1>3 DEF ReplayStop, TypeOK
<1>4. CASE ReplayCorrupt
  BY <1>4 DEF ReplayCorrupt, TypeOK
<1>5. CASE ReplayEntry
  <2>1. Head(entries) \in OutRecord /\ Tail(entries) \in Seq(OutRecord)
    BY <1>5, HeadTailProperties DEF ReplayEntry, TypeOK
  <2> DEFINE e == Head(entries)
             d == [seq |-> e.seq, val |-> e.val]
  <2>2. e.key \in Keys /\ d \in Entry BY <2>1 DEF OutRecord, Entry
  <2>3. Append(data[e.key], d) \in Seq(Entry) BY SMT, <2>2, AppendProperties DEF TypeOK
  <2> HIDE DEF d, e
  <2>4. data' \in [Keys -> Seq(Entry)]
    BY <1>5, <2>2, <2>3 DEF ReplayEntry, TypeOK, d, e
  <2> QED BY <1>5, <2>1, <2>4 DEF ReplayEntry, TypeOK
<1>6. CASE ReplayDone
  BY <1>6 DEF ReplayDone, TypeOK
<1>7. ASSUME NEW k \in Keys, NEW m \in Msgs, Push(k, m) PROVE TypeOK'
  <2>1. Out(seq, k, m) \in OutRecord /\ Out(seq, k, m) \in Record
    BY MadeRecords DEF TypeOK
  <2>2. CASE Written(Out(seq, k, m), None)
    <3>1. /\ log' \in Seq(Record) /\ durable' \in 0 .. Len(log') /\ stale' \subseteq Seq(Record)
          /\ at' = "sync" /\ rec' = Out(seq, k, m) /\ who' = None /\ UNCHANGED <<tmp, todo>>
          /\ exposed' \in BOOLEAN
      BY <2>1, <2>2, WrittenType
    <3> QED BY <1>7, <2>1, <3>1 DEF Push, TypeOK, Unlocked
  <2>3. CASE WriteFailed
    <3>1. /\ log' \in Seq(Record) /\ durable' \in 0 .. Len(log') /\ stale' \subseteq Seq(Record)
          /\ UNCHANGED <<holder, exposed>>
      BY <2>3, WriteFailedType
    <3> QED BY <1>7, <3>1 DEF Push, TypeOK, Unlocked
  <2> QED BY <1>7, <2>2, <2>3 DEF Push
<1>8. CASE AppendDone
  <2>1. durable' \in 0 .. Len(log') BY SMTT(30), <1>8, LenProperties DEF AppendDone, TypeOK
  <2>2. CASE rec.op = "out"
    <3> DEFINE d == [seq |-> rec.seq, val |-> rec.val]
    <3>1. rec \in OutRecord BY <2>2, RecordKinds DEF TypeOK
    <3>2. rec.key \in Keys /\ d \in Entry BY <3>1 DEF OutRecord, Entry
    <3>3. Append(data[rec.key], d) \in Seq(Entry) BY SMT, <3>2, AppendProperties DEF TypeOK
    <3>4. rec.val \in Msgs BY <3>1 DEF OutRecord
    <3> HIDE DEF d
    <3>5. data' \in [Keys -> Seq(Entry)]
      BY ZenonT(30), <1>8, <2>2, <3>2, <3>3 DEF AppendDone, Appended, TypeOK, d
    <3> QED BY SMT, <1>8, <2>1, <2>2, <3>4, <3>5, MadeRecords DEF AppendDone, Appended, TypeOK, release, signal
  <2>3. CASE rec.op # "out"
    <3>1. /\ who \in Pullers \ waiting /\ want[who] \in Keys /\ data[want[who]] # <<>>
      BY <1>8, <2>3 DEF AppendDone, TypeOK, OutRecord
    <3> DEFINE k == want[who]
    <3>2. data[k] \in Seq(Entry) /\ Tail(data[k]) \in Seq(Entry) /\ Head(data[k]) \in Entry
      BY <3>1, HeadTailProperties DEF TypeOK
    <3>3. Head(data[k]).val \in Msgs BY SMTT(30), <3>2 DEF Entry
    <3> HIDE DEF k
    <3>4. data' \in [Keys -> Seq(Entry)]
      BY ZenonT(30), <1>8, <2>3, <3>1, <3>2 DEF AppendDone, Appended, TypeOK, k
    <3>5. /\ want' \in [Pullers -> Keys \cup {None}]
          /\ \A q \in waiting : want'[q] # None
      BY ZenonT(30), <1>8, <2>3, <3>1 DEF AppendDone, Appended, TypeOK
    <3>6. delivered' \subseteq Msgs
      BY <1>8, <2>3, <3>3 DEF AppendDone, Appended, TypeOK, k
    <3> QED BY <1>8, <2>1, <2>3, <3>4, <3>5, <3>6, MadeRecords DEF AppendDone, Appended, TypeOK, release
  <2> QED BY <2>2, <2>3
<1>9. CASE SyncFailed
  <2>1. CASE rec.op = "out"
    BY <1>9, <2>1, MadeRecords DEF SyncFailed, TypeOK, release
  <2>2. CASE rec.op # "out"
    <3>1. /\ who \in Pullers \ waiting /\ want[who] \in Keys /\ data[want[who]] # <<>>
      BY <1>9, <2>2 DEF SyncFailed, TypeOK, OutRecord
    <3>2. /\ want' \in [Pullers -> Keys \cup {None}]
          /\ \A q \in waiting : want'[q] # None
      BY ZenonT(30), <1>9, <2>2, <3>1 DEF SyncFailed, TypeOK
    <3> QED BY <1>9, <2>2, <3>2, MadeRecords DEF SyncFailed, TypeOK, release
  <2> QED BY <2>1, <2>2
<1>10. ASSUME NEW p \in Pullers, PullTake(p) PROVE TypeOK'
  BY ZenonT(30), <1>10, TakeHeadType DEF PullTake, TypeOK
<1>11. ASSUME NEW p \in Pullers, NEW k \in Keys, Pullp(p, k) PROVE TypeOK'
  <2>1. p \in Pullers \ waiting BY <1>11 DEF Pullp, TypeOK
  <2> QED BY <1>11, <2>1, TakeHeadType DEF Pullp
<1>12. ASSUME NEW p \in Pullers, NEW k \in Keys, PullCall(p, k) PROVE TypeOK'
  <2>1. want' \in [Pullers -> Keys \cup {None}] /\ \A q \in Pullers : q # p => want'[q] = want[q]
    BY <1>12 DEF PullCall, TypeOK
  <2>2. at = "sync" /\ rec \notin OutRecord => who # p
    BY <1>12, ConstantsAssumption DEF PullCall, TypeOK
  <2>3. \A q \in waiting : want'[q] # None
    BY <1>12, <2>1, ConstantsAssumption DEF PullCall, TypeOK
  <2> QED BY <1>12, <2>1, <2>2, <2>3 DEF PullCall, TypeOK
<1>13. ASSUME NEW p \in Pullers, PullWait(p) PROVE TypeOK'
  BY <1>13 DEF PullWait, TypeOK, Unlocked
<1>14. ASSUME NEW p \in Pullers, PullCancel(p) PROVE TypeOK'
  BY <1>14 DEF PullCancel, TypeOK
<1>15. ASSUME NEW p \in Pullers, PullClosed(p) PROVE TypeOK'
  BY <1>15 DEF PullClosed, TypeOK
<1>16. CASE CompactBegin
  <2>1. <<>> \in Seq(OutRecord) BY EmptySeq
  <2> QED BY <1>16, <2>1 DEF CompactBegin, TypeOK, Unlocked
<1>17. ASSUME NEW k \in Keys, CompactKey(k) PROVE TypeOK'
  <2> DEFINE copy == [i \in 1 .. Len(data[k]) |-> Out(data[k][i].seq, k, data[k][i].val)]
  <2>1. data[k] \in Seq(Entry) /\ Len(data[k]) \in Nat BY SMTT(30), LenProperties DEF TypeOK
  <2>2. \A i \in 1 .. Len(data[k]) : Out(data[k][i].seq, k, data[k][i].val) \in OutRecord
    <3> TAKE i \in 1 .. Len(data[k])
    <3>1. data[k][i] \in Entry BY <2>1, ElementOfSeq
    <3> QED BY ZenonT(30), <3>1, MadeRecords DEF Entry
  <2>3. copy \in [1 .. Len(data[k]) -> OutRecord] BY <2>2
  <2>4. copy \in Seq(OutRecord) BY SMT, <2>1, <2>3, SeqDef
  <2>5. tmp \o copy \in Seq(OutRecord) BY <2>4, ConcatProperties DEF TypeOK
  <2> HIDE DEF copy
  <2>6. tmp' \in Seq(OutRecord) BY <1>17, <2>5 DEF CompactKey, copy
  <2> QED BY <1>17, <2>6 DEF CompactKey, TypeOK
<1>18. CASE CompactAbort
  <2>1. <<>> \in Seq(OutRecord) BY EmptySeq
  <2> QED BY <1>18, <2>1 DEF CompactAbort, CompactReturn, TypeOK
<1>19. CASE CompactSwapFailed
  <2>1. <<>> \in Seq(OutRecord) BY EmptySeq
  <2> QED BY ZenonT(30), <1>19, <2>1 DEF CompactSwapFailed, CompactReturn, TypeOK
<1>20. CASE CompactRename
  <2>1. tmp \in Seq(Record) BY SeqMonotonic DEF TypeOK, Record
  <2>2. Len(tmp) \in 0 .. Len(tmp) BY SMT, <2>1, LenProperties
  <2>3. stale' \subseteq Seq(Record)
    <3>1. Kept(log, durable) \cup Cut(log, durable) \subseteq Seq(Record)
      BY DiskType
    <3> QED BY <1>20, <3>1 DEF CompactRename, TypeOK
  <2> QED BY ZenonT(30), <1>20, <2>1, <2>2, <2>3 DEF CompactRename, TypeOK
<1>21. CASE CompactSyncDir
  <2>1. <<>> \in Seq(OutRecord) BY EmptySeq
  <2> QED BY <1>21, <2>1 DEF CompactSyncDir, CompactReturn, TypeOK
<1>22. CASE Close
  BY ZenonT(30), <1>22 DEF Close, signal, TypeOK, Unlocked
<1>23. CASE Crash
  <2>1. [k \in Keys |-> <<>>] \in [Keys -> Seq(Entry)] BY EmptySeq
  <2>2. <<>> \in Seq(OutRecord) BY EmptySeq
  <2>3. /\ log' \in Seq(Record) /\ durable' \in 0 .. Len(log') /\ stale' \subseteq Seq(Record)
    <3>1. CASE UNCHANGED disk BY <3>1 DEF TypeOK
    <3>2. ASSUME NEW l \in Images, log' = l, durable' = Len(l), stale' = {}
          PROVE  /\ log' \in Seq(Record) /\ durable' \in 0 .. Len(log')
                 /\ stale' \subseteq Seq(Record)
      <4>1. l \in Seq(Record) BY ImagesType
      <4> QED BY SMT, <3>2, <4>1, LenProperties
    <3> QED BY <1>23, <3>1, <3>2 DEF Crash
  <2>4. /\ data' \in [Keys -> Seq(Entry)] /\ entries' \in Seq(OutRecord)
        /\ tmp' \in Seq(OutRecord)
    BY <1>23, <2>1, <2>2, Zenon DEF Crash
  <2>5. /\ pos' = 1 /\ tomb' = {} /\ seq' = 0 /\ file' = FALSE /\ phase' = "down"
        /\ at' = "idle" /\ rec' = Torn /\ who' = None /\ todo' = {} /\ waiting' = {}
        /\ want' \in [Pullers -> Keys \cup {None}] /\ UNCHANGED history
    BY <1>23, Zenon DEF Crash
  <2>6. /\ tomb' \in SUBSET Nat /\ file' \in BOOLEAN /\ phase' = "down"
        /\ at' = "idle" /\ rec' = Torn /\ who' = None /\ todo' \subseteq Keys
        /\ waiting' = {}
        /\ want' \in [Pullers -> Keys \cup {None}] /\ UNCHANGED history
    BY <2>5, Zenon
  <2>7. pos' \in Nat \ {0} /\ seq' \in Nat
    <3>1. pos' = 1 /\ seq' = 0 BY <2>5
    <3> QED BY SMT, <3>1
  <2> QED BY <2>3, <2>4, <2>6, <2>7, MadeRecords DEF TypeOK
<1>24. CASE UNCHANGED vars
  BY <1>24 DEF vars, TypeOK
<1> QED
  BY <1>1, <1>2, <1>3, <1>4, <1>5, <1>6, <1>7, <1>8, <1>9, <1>10, <1>11, <1>12,
     <1>13, <1>14, <1>15, <1>16, <1>17, <1>18, <1>19, <1>20, <1>21, <1>22,
     <1>23, <1>24
  DEF Next, Replay, Puller, Compact

\* Type correctness of the store, whatever the constants.
THEOREM TypeCorrect == Spec => []TypeOK
<1>1. Init => TypeOK
  <2>1. [k \in Keys |-> <<>>] \in [Keys -> Seq(Entry)] BY EmptySeq
  <2>2. <<>> \in Seq(OutRecord) /\ <<>> \in Seq(Record) /\ Len(<<>>) = 0 BY EmptySeq
  <2> SUFFICES ASSUME Init PROVE TypeOK OBVIOUS
  <2>3. /\ data \in [Keys -> Seq(Entry)] /\ entries \in Seq(OutRecord)
        /\ tmp \in Seq(OutRecord) /\ log \in Seq(Record) /\ Len(log) = 0
    BY <2>1, <2>2, Zenon DEF Init
  <2>4. /\ durable = 0 /\ stale = {} /\ phase = "down"
        /\ pos = 1 /\ tomb = {} /\ seq = 0 /\ file = FALSE
        /\ at = "idle" /\ rec = Torn /\ who = None /\ todo = {} /\ waiting = {}
        /\ want \in [Pullers -> Keys \cup {None}]
        /\ pushed = {} /\ acked = {} /\ taken = {} /\ delivered = {}
        /\ exposed = FALSE
    BY Zenon DEF Init
  <2>5. tomb \in SUBSET Nat /\ file \in BOOLEAN /\ exposed \in BOOLEAN
    BY <2>4, Zenon
  <2>6. durable \in 0 .. 0 /\ pos \in Nat \ {0} /\ seq \in Nat
    <3>1. durable = 0 /\ pos = 1 /\ seq = 0 BY <2>4
    <3> QED BY SMT, <3>1
  <2>7. /\ stale = {} /\ phase = "down"
        /\ at = "idle" /\ rec = Torn /\ who = None /\ todo = {} /\ waiting = {}
        /\ want \in [Pullers -> Keys \cup {None}]
        /\ pushed = {} /\ acked = {} /\ taken = {} /\ delivered = {}
    BY <2>4
  <2> QED BY <2>3, <2>5, <2>6, <2>7, MadeRecords DEF TypeOK
<1>2. TypeOK /\ [Next]_vars => TypeOK'
  BY TypeStep
<1> QED BY <1>1, <1>2, PTL DEF Spec

-----------------------------------------------------------------------------
(* What a crash leaves of a good log is good.                              *)

LEMMA SafeType == TypeOK => Safe \in 0 .. Len(log)
BY SMT, LenProperties DEF TypeOK, Safe

\* l is the first n records of the log, n at least Safe, the next one perhaps
\* torn.
LEMMA GoodPrefix ==
  ASSUME TypeOK, Good(log, Safe), NEW n \in Safe .. Len(log),
         NEW l \in Seq(Record), \A i \in 1 .. n : l[i] = log[i],
         \/ Len(l) = n
         \/ Len(l) = n + 1 /\ n < Len(log) /\ l[n + 1] = Torn
  PROVE  Good(l, Len(l))
<1>1. /\ Len(log) \in Nat /\ Len(l) \in Nat /\ Safe \in 0 .. Len(log) /\ n \in Nat
  BY SMT, LenProperties, SafeType DEF TypeOK
<1>2. Torn.op = "torn" BY DEF Torn
<1>3. \A i \in 1 .. Len(l) : l[i].op # "torn" => i \in 1 .. n
  BY SMT, <1>1, <1>2
<1>4. \A i : IsOut(l, i) => i \in 1 .. n /\ IsOut(log, i) /\ l[i] = log[i]
  BY SMT, <1>1, <1>3 DEF IsOut
<1>5. \A i : IsIn(l, i) => i \in 1 .. n /\ IsIn(log, i) /\ l[i] = log[i]
  BY SMT, <1>1, <1>3 DEF IsIn
<1>6. \A i \in 1 .. n : (IsOut(log, i) => IsOut(l, i)) /\ (IsIn(log, i) => IsIn(l, i))
  BY SMT, <1>1 DEF IsOut, IsIn
<1>7. \A i \in 1 .. Len(l) : l[i].op = "torn" => i = Len(l)
  BY SMT, <1>1 DEF Good, WellFormed
<1>8. \A i, j \in 1 .. Len(l) :
        IsOut(l, i) /\ IsOut(l, j) /\ (l[i].seq = l[j].seq \/ l[i].val = l[j].val)
          => i = j
  BY SMT, <1>4, <1>1 DEF Good, WellFormed
<1>9. \A i \in 1 .. Len(l) : IsOut(l, i) => l[i].key \in Keys /\ l[i].val \in pushed
  BY SMT, <1>4, <1>1 DEF Good, WellFormed
<1>10. \A j \in 1 .. Len(l) :
         IsIn(l, j) => \E i \in 1 .. j : IsOut(l, i) /\ l[i].seq = l[j].seq
  <2> TAKE j \in 1 .. Len(l)
  <2> HAVE IsIn(l, j)
  <2>1. j \in 1 .. n /\ j \in 1 .. Len(log) /\ IsIn(log, j) /\ l[j] = log[j]
    BY SMT, <1>1, <1>5
  <2>2. PICK i \in 1 .. j : IsOut(log, i) /\ log[i].seq = log[j].seq
    BY <2>1 DEF Good, WellFormed
  <2>3. i \in 1 .. n BY SMT, <1>1, <2>1, <2>2
  <2> QED BY <1>6, <2>1, <2>2, <2>3
<1>11. \A i, j \in 1 .. Len(l) :
         IsOut(l, i) /\ IsIn(l, j) /\ l[i].seq = l[j].seq => l[i].val \in taken
  <2> TAKE i, j \in 1 .. Len(l)
  <2> HAVE IsOut(l, i) /\ IsIn(l, j) /\ l[i].seq = l[j].seq
  <2>1. i \in 1 .. Len(log) /\ IsOut(log, i) /\ l[i] = log[i] BY SMT, <1>1, <1>4
  <2>2. j \in 1 .. Len(log) /\ IsIn(log, j) /\ l[j] = log[j] BY SMT, <1>1, <1>5
  <2> QED BY <2>1, <2>2 DEF Good, Accounts
<1>12. \A m \in acked \ taken : \E i \in 1 .. Len(l) : IsOut(l, i) /\ l[i].val = m
  <2> TAKE m \in acked \ taken
  <2>1. PICK i \in 1 .. Safe : IsOut(log, i) /\ log[i].val = m
    BY DEF Good, Accounts
  <2>2. i \in 1 .. n /\ i \in 1 .. Len(l) BY SMT, <1>1, <2>1
  <2> QED BY <1>6, <2>1, <2>2
<1>13. \A i \in 1 .. Len(l) :
         IsOut(l, i) /\ l[i].val \in delivered =>
           \E j \in 1 .. Len(l) : IsIn(l, j) /\ l[j].seq = l[i].seq
  <2> TAKE i \in 1 .. Len(l)
  <2> HAVE IsOut(l, i) /\ l[i].val \in delivered
  <2>1. i \in 1 .. Len(log) /\ IsOut(log, i) /\ l[i] = log[i] BY SMT, <1>1, <1>4
  <2>2. PICK j \in 1 .. Safe : IsIn(log, j) /\ log[j].seq = log[i].seq
    BY <2>1 DEF Good, Accounts
  <2>3. j \in 1 .. n /\ j \in 1 .. Len(l) BY SMT, <1>1, <2>2
  <2> QED BY <1>6, <2>1, <2>2, <2>3
<1> QED BY <1>7, <1>8, <1>9, <1>10, <1>11, <1>12, <1>13 DEF Good, WellFormed, Accounts

LEMMA GoodDisk ==
  ASSUME TypeOK, Good(log, Safe), "power" \in Faults,
         NEW l \in Kept(log, durable) \cup Cut(log, durable)
  PROVE  Good(l, Len(l))
<1>1. Safe = durable BY DEF Safe
<1>2. l \in Seq(Record) BY DiskType
<1>3. Len(log) \in Nat /\ durable \in 0 .. Len(log) BY LenProperties DEF TypeOK
<1>4. CASE l \in Kept(log, durable)
  <2>1. PICK n \in durable .. Len(log) : l = SubSeq(log, 1, n)
    BY <1>4 DEF Kept
  <2>2. n \in 0 .. Len(log) BY SMT, <1>3
  <2>3. Len(l) = n /\ \A i \in 1 .. n : l[i] = log[i]
    BY SMT, <2>1, <2>2, PrefixOf DEF TypeOK
  <2> QED BY <1>1, <1>2, <2>3, GoodPrefix
<1>5. CASE l \in Cut(log, durable)
  <2>1. PICK n \in durable .. Len(log) - 1 : l = Append(SubSeq(log, 1, n), Torn)
    BY <1>5 DEF Cut
  <2>2. n \in 0 .. Len(log) /\ n \in durable .. Len(log) /\ n < Len(log) BY SMT, <1>3
  <2>3. /\ SubSeq(log, 1, n) \in Seq(Record) /\ Len(SubSeq(log, 1, n)) = n
        /\ \A i \in 1 .. n : SubSeq(log, 1, n)[i] = log[i]
    BY SMT, <2>2, PrefixOf DEF TypeOK
  <2>4. /\ Len(l) = n + 1 /\ l[n + 1] = Torn
        /\ \A i \in 1 .. n : l[i] = log[i]
    BY SMT, <2>1, <2>3, MadeRecords, AppendProperties
  <2> QED BY <1>1, <1>2, <2>2, <2>4, GoodPrefix
<1> QED BY <1>4, <1>5

LEMMA GoodImages ==
  ASSUME TypeOK, StoreInv, NEW l \in Images PROVE Good(l, Len(l))
<1>1. CASE "power" \in Faults BY <1>1, GoodDisk DEF Images, StoreInv
<1>2. CASE "power" \notin Faults
  <2>1. Safe = Len(log) BY <1>2 DEF Safe
  <2>2. Images = {log} BY <1>2 DEF Images
  <2>3. l = log BY <2>2
  <2> QED BY <2>1, <2>3 DEF StoreInv
<1> QED BY <1>1, <1>2

-----------------------------------------------------------------------------
(* The invariant implies the properties.                                   *)

LEMMA GoodReads ==
  ASSUME NEW l \in Seq(Record), Good(l, Len(l)), NEW i \in 1 .. Len(l), l[i].op # "torn"
  PROVE  Readable(l, i)
<1>1. DOMAIN l = 1 .. Len(l) /\ Len(l) \in Nat BY LenProperties
<1>2. ASSUME NEW j \in 1 .. i, l[j].op = "torn" PROVE FALSE
  <2>1. j \in 1 .. Len(l) BY SMT, <1>1
  <2>2. j = Len(l) BY <1>2, <2>1 DEF Good, WellFormed
  <2>3. i = j
    <3>1. Len(l) \in Nat BY LenProperties
    <3> DEFINE n == Len(l)
    <3>2. n \in Nat /\ i \in 1 .. n /\ j \in 1 .. i /\ j = n BY <3>1, <1>2, <2>2
    <3> HIDE DEF n
    <3> QED BY SMT, <3>2
  <2> QED BY <1>2, <2>3
<1> QED BY <1>1, <1>2 DEF Readable

LEMMA InvImplies == TypeOK /\ IInv => NoLoss /\ NoResurrection
<1> SUFFICES ASSUME TypeOK, StoreInv, ~exposed
             PROVE  /\ CrashSafe
                    /\ \A m \in delivered :
                         /\ \A l \in Images : ~Survives(l, m)
                         /\ \A k \in Keys : \A i \in DOMAIN data[k] : data[k][i].val # m
  BY DEF IInv, NoLoss, NoResurrection
<1>1. CrashSafe
  <2> SUFFICES ASSUME NEW m \in acked \ taken, NEW l \in Images PROVE Survives(l, m)
    BY DEF CrashSafe
  <2>1. l \in Seq(Record) /\ Good(l, Len(l)) BY ImagesType, GoodImages
  <2>2. DOMAIN l = 1 .. Len(l) BY <2>1, LenProperties
  <2>3. PICK i \in 1 .. Len(l) : IsOut(l, i) /\ l[i].val = m
    BY <2>1 DEF Good, Accounts
  <2>4. Readable(l, i) BY <2>1, <2>3, GoodReads DEF IsOut
  <2>5. \A j \in DOMAIN l : l[j].op = "in" => l[j].seq # l[i].seq
    BY <2>1, <2>2, <2>3 DEF Good, Accounts, IsIn
  <2> QED BY <2>2, <2>3, <2>4, <2>5 DEF Survives, Live, IsOut
<1>2. ASSUME NEW m \in delivered, NEW l \in Images PROVE ~Survives(l, m)
  <2>1. l \in Seq(Record) /\ Good(l, Len(l)) BY ImagesType, GoodImages
  <2>2. DOMAIN l = 1 .. Len(l) BY <2>1, LenProperties
  <2> SUFFICES ASSUME NEW i \in 1 .. Len(l), Live(l, i), l[i].val = m PROVE FALSE
    BY <2>2 DEF Survives
  <2>3. IsOut(l, i) BY DEF Live, IsOut
  <2>4. PICK j \in 1 .. Len(l) : IsIn(l, j) /\ l[j].seq = l[i].seq
    BY <1>2, <2>1, <2>3 DEF Good, Accounts
  <2>5. Readable(l, j) BY <2>1, <2>4, GoodReads DEF IsIn
  <2> QED BY <2>2, <2>4, <2>5 DEF Live, IsIn
<1>3. ASSUME NEW m \in delivered, NEW k \in Keys, NEW i \in DOMAIN data[k]
      PROVE  data[k][i].val # m
  <2>1. DOMAIN data[k] = 1 .. Len(data[k]) BY LenProperties DEF TypeOK
  <2>2. phase \notin {"down", "replay"}
    <3> SUFFICES ASSUME data = [kk \in Keys |-> <<>>] PROVE FALSE
      BY DEF StoreInv, ReplayInv
    <3>1. data[k] = <<>> OBVIOUS
    <3> QED BY SMT, <3>1, <2>1
  <2>3. MemoryInv BY <2>2 DEF TypeOK, StoreInv, FilterInv, OpenInv
  <2> QED BY SMT, <2>1, <2>3 DEF MemoryInv
<1> QED BY <1>1, <1>2, <1>3

-----------------------------------------------------------------------------
(* Appending to a good log.                                                *)

LEMMA Appending ==
  ASSUME TypeOK, NEW r \in Record, log' = Append(log, r)
  PROVE  /\ Len(log) \in Nat /\ Len(log') = Len(log) + 1
         /\ \A i \in 1 .. Len(log) : i \in 1 .. Len(log') /\ log'[i] = log[i]
         /\ log'[Len(log) + 1] = r
         /\ \A i \in 1 .. Len(log') : i \in 1 .. Len(log) \/ i = Len(log) + 1
         /\ \A i : IsOut(log', i) <=> IsOut(log, i) \/ (i = Len(log) + 1 /\ r.op = "out")
         /\ \A i : IsIn(log', i) <=> IsIn(log, i) \/ (i = Len(log) + 1 /\ r.op = "in")
<1>1. /\ Len(log) \in Nat /\ Len(log') = Len(log) + 1
      /\ \A i \in 1 .. Len(log) : log'[i] = log[i]
      /\ log'[Len(log) + 1] = r
  BY SMT, AppendProperties, LenProperties DEF TypeOK
<1>2. \A i : i \in 1 .. Len(log') <=> i \in 1 .. Len(log) \/ i = Len(log) + 1
  BY SMT, <1>1
<1> QED BY <1>1, <1>2 DEF IsOut, IsIn

LEMMA NotTorn ==
  ASSUME TypeOK, Good(log, Safe), ~TornTail
  PROVE  \A i \in 1 .. Len(log) : log[i].op # "torn"
<1> SUFFICES ASSUME NEW i \in 1 .. Len(log), log[i].op = "torn" PROVE FALSE
  OBVIOUS
<1>1. i = Len(log) BY DEF Good, WellFormed
<1>2. log[i] \in Record BY ElementOfSeq DEF TypeOK
<1>3. log[i] = Torn BY <1>2, RecordKinds
<1>4. log # <<>>
  <2> SUFFICES ASSUME log = <<>> PROVE FALSE OBVIOUS
  <2>1. Len(log) = 0 BY EmptySeq
  <2> QED BY SMT, <2>1
<1> QED BY <1>1, <1>3, <1>4 DEF TornTail

\* Push's Write.
LEMMA PushGood ==
  ASSUME TypeOK, Good(log, Safe), delivered \subseteq taken, taken \subseteq pushed,
         NEW r \in OutRecord, r.val \notin pushed, ~Exposing(r),
         log' = Append(log, r), durable' = durable, pushed' = pushed \cup {r.val},
         UNCHANGED <<acked, taken, delivered>>
  PROVE  Good(log, Safe)'
<1>1. r \in Record /\ r.op = "out" /\ r.key \in Keys BY DEF Record, OutRecord
<1>2. Safe \in 0 .. Len(log) BY SafeType
<1>3. ~TornTail /\ \A i : IsOut(log, i) => log[i].seq # r.seq
  BY <1>1 DEF Exposing, IsOut
<1> DEFINE N == Len(log)
<1>4. /\ N \in Nat /\ Len(log') = N + 1
      /\ \A i \in 1 .. N : i \in 1 .. Len(log') /\ log'[i] = log[i]
      /\ log'[N + 1] = r
      /\ \A i \in 1 .. Len(log') : i \in 1 .. N \/ i = N + 1
      /\ \A i : IsOut(log', i) <=> IsOut(log, i) \/ i = N + 1
      /\ \A i : IsIn(log', i) <=> IsIn(log, i)
  BY SMT, <1>1, Appending
<1>5. Safe' \in Safe .. Len(log') BY SMT, <1>2, <1>4 DEF Safe
<1>6. \A i : IsOut(log, i) \/ IsIn(log, i) => i \in 1 .. N /\ log'[i] = log[i]
  BY <1>4 DEF IsOut, IsIn
<1>7. \A i : IsIn(log, i) => log[i].seq # r.seq
  <2> SUFFICES ASSUME NEW i, IsIn(log, i), log[i].seq = r.seq PROVE FALSE
    OBVIOUS
  <2>1. i \in 1 .. N BY <1>6
  <2>2. PICK j \in 1 .. i : IsOut(log, j) /\ log[j].seq = log[i].seq
    BY <2>1 DEF Good, WellFormed
  <2> QED BY <1>3, <2>2
<1>8. \A i : IsOut(log, i) => log[i].val # r.val /\ log[i].val \in pushed /\ log[i].key \in Keys
  BY <1>6 DEF Good, WellFormed
<1> HIDE DEF N
<1>9. WellFormed(log)'
  <2>1. \A i \in 1 .. Len(log') : log'[i].op = "torn" => i = Len(log')
    BY <1>1, <1>3, <1>4, NotTorn DEF N
  <2>2. \A i, j \in 1 .. Len(log') :
          IsOut(log', i) /\ IsOut(log', j) /\ (log'[i].seq = log'[j].seq \/ log'[i].val = log'[j].val)
            => i = j
    BY SMT, <1>3, <1>4, <1>6, <1>8 DEF Good, WellFormed, N
  <2>3. \A i \in 1 .. Len(log') :
          IsOut(log', i) => log'[i].key \in Keys /\ log'[i].val \in pushed'
    BY <1>1, <1>4, <1>6, <1>8
  <2>4. \A j \in 1 .. Len(log') :
          IsIn(log', j) => \E i \in 1 .. j : IsOut(log', i) /\ log'[i].seq = log'[j].seq
    <3> TAKE j \in 1 .. Len(log')
    <3> HAVE IsIn(log', j)
    <3>1. IsIn(log, j) /\ j \in 1 .. Len(log) /\ log'[j] = log[j] BY <1>4, <1>6 DEF N
    <3>2. PICK i \in 1 .. j : IsOut(log, i) /\ log[i].seq = log[j].seq
      BY <3>1 DEF Good, WellFormed
    <3> QED BY <1>4, <1>6, <3>1, <3>2
  <2> QED BY <2>1, <2>2, <2>3, <2>4 DEF WellFormed
<1>10. Accounts(log, Safe)'
  <2>1. \A i, j \in 1 .. Len(log') :
          IsOut(log', i) /\ IsIn(log', j) /\ log'[i].seq = log'[j].seq => log'[i].val \in taken
    BY SMT, <1>4, <1>6, <1>7 DEF Good, Accounts, N
  <2>2. \A m \in acked \ taken : \E i \in 1 .. Safe' : IsOut(log', i) /\ log'[i].val = m
    <3> TAKE m \in acked \ taken
    <3>1. PICK i \in 1 .. Safe : IsOut(log, i) /\ log[i].val = m BY DEF Good, Accounts
    <3>2. i \in 1 .. Safe' BY SMT, <1>2, <1>4, <1>5 DEF N
    <3> QED BY <1>4, <1>6, <3>1, <3>2
  <2>3. \A i \in 1 .. Len(log') :
          IsOut(log', i) /\ log'[i].val \in delivered =>
            \E j \in 1 .. Safe' : IsIn(log', j) /\ log'[j].seq = log'[i].seq
    <3> TAKE i \in 1 .. Len(log')
    <3> HAVE IsOut(log', i) /\ log'[i].val \in delivered
    <3>1. IsOut(log, i) /\ i \in 1 .. Len(log) /\ log'[i] = log[i] BY <1>4, <1>6 DEF N
    <3>2. PICK j \in 1 .. Safe : IsIn(log, j) /\ log[j].seq = log[i].seq
      BY <3>1 DEF Good, Accounts
    <3>3. j \in 1 .. Safe' BY SMT, <1>2, <1>4, <1>5 DEF N
    <3> QED BY <1>4, <1>6, <3>1, <3>2, <3>3
  <2> QED BY ZenonT(30), <2>1, <2>2, <2>3 DEF Accounts
<1> QED BY <1>9, <1>10 DEF Good

\* takeHead's Write: the tombstone of the payload that record i pushed.
LEMMA TakeGood ==
  ASSUME TypeOK, Good(log, Safe), delivered \subseteq taken, taken \subseteq pushed,
         NEW i \in 1 .. Len(log), IsOut(log, i), NEW r \in InRecord, r.seq = log[i].seq,
         ~TornTail, log' = Append(log, r), durable' = durable,
         taken' = taken \cup {log[i].val}, UNCHANGED <<pushed, acked, delivered>>
  PROVE  Good(log, Safe)' /\ taken' \subseteq pushed'
<1>1. r \in Record /\ r.op = "in" BY DEF Record, InRecord
<1>2. Safe \in 0 .. Len(log) BY SafeType
<1> DEFINE N == Len(log)
<1>4. /\ N \in Nat /\ Len(log') = N + 1
      /\ \A n \in 1 .. N : n \in 1 .. Len(log') /\ log'[n] = log[n]
      /\ log'[N + 1] = r
      /\ \A n \in 1 .. Len(log') : n \in 1 .. N \/ n = N + 1
      /\ \A n : IsOut(log', n) <=> IsOut(log, n)
      /\ \A n : IsIn(log', n) <=> IsIn(log, n) \/ n = N + 1
  BY SMT, <1>1, Appending
<1>5. Safe' \in Safe .. Len(log') BY SMT, <1>2, <1>4 DEF Safe
<1>6. \A n : IsOut(log, n) \/ IsIn(log, n) => n \in 1 .. N /\ log'[n] = log[n]
  BY <1>4 DEF IsOut, IsIn
<1> HIDE DEF N
<1>9. WellFormed(log)'
  <2>1. \A n \in 1 .. Len(log') : log'[n].op = "torn" => n = Len(log')
    BY <1>1, <1>4, NotTorn DEF N
  <2>2. \A n, j \in 1 .. Len(log') :
          IsOut(log', n) /\ IsOut(log', j) /\ (log'[n].seq = log'[j].seq \/ log'[n].val = log'[j].val)
            => n = j
    BY SMT, <1>4, <1>6 DEF Good, WellFormed, N
  <2>3. \A n \in 1 .. Len(log') :
          IsOut(log', n) => log'[n].key \in Keys /\ log'[n].val \in pushed'
    BY <1>4, <1>6 DEF Good, WellFormed, N
  <2>4. \A j \in 1 .. Len(log') :
          IsIn(log', j) => \E n \in 1 .. j : IsOut(log', n) /\ log'[n].seq = log'[j].seq
    <3> TAKE j \in 1 .. Len(log')
    <3> HAVE IsIn(log', j)
    <3>1. CASE IsIn(log, j)
      <4>1. j \in 1 .. Len(log) /\ log'[j] = log[j] BY <1>6, <3>1 DEF N
      <4>2. PICK n \in 1 .. j : IsOut(log, n) /\ log[n].seq = log[j].seq
        BY <3>1, <4>1 DEF Good, WellFormed
      <4> QED BY <1>4, <1>6, <4>1, <4>2
    <3>2. CASE j = N + 1
      <4>1. i \in 1 .. j BY <1>4, <3>2 DEF N
      <4> QED BY <1>4, <1>6, <3>2, <4>1
    <3> QED BY SMTT(30), <1>4, <3>1, <3>2
  <2> QED BY ZenonT(30), <2>1, <2>2, <2>3, <2>4 DEF WellFormed
<1>10. Accounts(log, Safe)'
  <2>1. \A n, j \in 1 .. Len(log') :
          IsOut(log', n) /\ IsIn(log', j) /\ log'[n].seq = log'[j].seq => log'[n].val \in taken'
    <3> TAKE n, j \in 1 .. Len(log')
    <3> HAVE IsOut(log', n) /\ IsIn(log', j) /\ log'[n].seq = log'[j].seq
    <3>1. IsOut(log, n) /\ n \in 1 .. Len(log) /\ log'[n] = log[n] BY <1>4, <1>6 DEF N
    <3>2. CASE IsIn(log, j)
      <4>1. j \in 1 .. Len(log) /\ log'[j] = log[j] BY <1>6, <3>2 DEF N
      <4>2. log[n].val \in taken BY <3>1, <3>2, <4>1 DEF Good, Accounts
      <4> QED BY <3>1, <4>2
    <3>3. CASE j = N + 1
      <4>1. log[n].seq = log[i].seq BY <1>4, <3>1, <3>3
      <4>2. n = i BY <3>1, <4>1 DEF Good, WellFormed
      <4> QED BY <3>1, <4>2
    <3> QED BY <1>4, <3>2, <3>3
  <2>2. \A m \in acked \ taken' : \E n \in 1 .. Safe' : IsOut(log', n) /\ log'[n].val = m
    <3> TAKE m \in acked \ taken'
    <3>1. PICK n \in 1 .. Safe : IsOut(log, n) /\ log[n].val = m BY DEF Good, Accounts
    <3>2. n \in 1 .. Safe' BY SMT, <1>2, <1>4, <1>5 DEF N
    <3> QED BY <1>4, <1>6, <3>1, <3>2
  <2>3. \A n \in 1 .. Len(log') :
          IsOut(log', n) /\ log'[n].val \in delivered =>
            \E j \in 1 .. Safe' : IsIn(log', j) /\ log'[j].seq = log'[n].seq
    <3> TAKE n \in 1 .. Len(log')
    <3> HAVE IsOut(log', n) /\ log'[n].val \in delivered
    <3>1. IsOut(log, n) /\ n \in 1 .. Len(log) /\ log'[n] = log[n] BY <1>4, <1>6 DEF N
    <3>2. PICK j \in 1 .. Safe : IsIn(log, j) /\ log[j].seq = log[n].seq
      BY <3>1 DEF Good, Accounts
    <3>3. j \in 1 .. Safe' BY SMT, <1>2, <1>4, <1>5 DEF N
    <3> QED BY <1>4, <1>6, <3>1, <3>2, <3>3
  <2> QED BY ZenonT(30), <2>1, <2>2, <2>3 DEF Accounts
<1>11. log[i].val \in pushed BY DEF Good, WellFormed
<1> QED BY <1>9, <1>10, <1>11 DEF Good

\* A short write: the log ends in a torn record.
LEMMA ShortGood ==
  ASSUME TypeOK, Good(log, Safe), ~TornTail, log' = Append(log, Torn), durable' = durable,
         pushed \subseteq pushed', UNCHANGED <<acked, taken, delivered>>
  PROVE  Good(log, Safe)'
<1>1. Torn \in Record /\ Torn.op = "torn" BY DEF Record, Torn
<1>2. Safe \in 0 .. Len(log) BY SafeType
<1> DEFINE N == Len(log)
<1>4. /\ N \in Nat /\ Len(log') = N + 1
      /\ \A n \in 1 .. N : n \in 1 .. Len(log') /\ log'[n] = log[n]
      /\ \A n \in 1 .. Len(log') : n \in 1 .. N \/ n = N + 1
      /\ \A n : IsOut(log', n) <=> IsOut(log, n)
      /\ \A n : IsIn(log', n) <=> IsIn(log, n)
  BY <1>1, Appending
<1>5. Safe' \in Safe .. Len(log') BY SMT, <1>2, <1>4 DEF Safe
<1>6. \A n : IsOut(log, n) \/ IsIn(log, n) => n \in 1 .. N /\ log'[n] = log[n]
  BY <1>4 DEF IsOut, IsIn
<1> HIDE DEF N
<1>9. WellFormed(log)'
  <2>1. \A n \in 1 .. Len(log') : log'[n].op = "torn" => n = Len(log')
    BY <1>4, NotTorn DEF N
  <2>2. \A n, j \in 1 .. Len(log') :
          IsOut(log', n) /\ IsOut(log', j) /\ (log'[n].seq = log'[j].seq \/ log'[n].val = log'[j].val)
            => n = j
    BY <1>4, <1>6 DEF Good, WellFormed, N
  <2>3. \A n \in 1 .. Len(log') :
          IsOut(log', n) => log'[n].key \in Keys /\ log'[n].val \in pushed'
    BY SMT, <1>4, <1>6 DEF Good, WellFormed, N
  <2>4. \A j \in 1 .. Len(log') :
          IsIn(log', j) => \E n \in 1 .. j : IsOut(log', n) /\ log'[n].seq = log'[j].seq
    <3> TAKE j \in 1 .. Len(log')
    <3> HAVE IsIn(log', j)
    <3>1. IsIn(log, j) /\ j \in 1 .. Len(log) /\ log'[j] = log[j] BY <1>4, <1>6 DEF N
    <3>2. PICK n \in 1 .. j : IsOut(log, n) /\ log[n].seq = log[j].seq
      BY <3>1 DEF Good, WellFormed
    <3> QED BY <1>4, <1>6, <3>1, <3>2
  <2> QED BY <2>1, <2>2, <2>3, <2>4 DEF WellFormed
<1>10. Accounts(log, Safe)'
  <2>1. \A n, j \in 1 .. Len(log') :
          IsOut(log', n) /\ IsIn(log', j) /\ log'[n].seq = log'[j].seq => log'[n].val \in taken
    BY SMT, <1>4, <1>6 DEF Good, Accounts, N
  <2>2. \A m \in acked \ taken : \E n \in 1 .. Safe' : IsOut(log', n) /\ log'[n].val = m
    <3> TAKE m \in acked \ taken
    <3>1. PICK n \in 1 .. Safe : IsOut(log, n) /\ log[n].val = m BY DEF Good, Accounts
    <3>2. n \in 1 .. Safe' BY SMT, <1>2, <1>4, <1>5 DEF N
    <3> QED BY <1>4, <1>6, <3>1, <3>2
  <2>3. \A n \in 1 .. Len(log') :
          IsOut(log', n) /\ log'[n].val \in delivered =>
            \E j \in 1 .. Safe' : IsIn(log', j) /\ log'[j].seq = log'[n].seq
    <3> TAKE n \in 1 .. Len(log')
    <3> HAVE IsOut(log', n) /\ log'[n].val \in delivered
    <3>1. IsOut(log, n) /\ n \in 1 .. Len(log) /\ log'[n] = log[n] BY <1>4, <1>6 DEF N
    <3>2. PICK j \in 1 .. Safe : IsIn(log, j) /\ log[j].seq = log[n].seq
      BY <3>1 DEF Good, Accounts
    <3>3. j \in 1 .. Safe' BY SMT, <1>2, <1>4, <1>5 DEF N
    <3> QED BY <1>4, <1>6, <3>1, <3>2, <3>3
  <2> QED BY ZenonT(30), <2>1, <2>2, <2>3 DEF Accounts
<1> QED BY <1>9, <1>10 DEF Good

-----------------------------------------------------------------------------
(* What steps leave alone.                                                 *)

\* A good log stays good as history grows where it does not look.
LEMMA LogFrame ==
  ASSUME Good(log, Safe), log' = log, durable' = durable,
         pushed \subseteq pushed', taken \subseteq taken',
         acked' \ taken' \subseteq acked \ taken, delivered' \subseteq delivered
  PROVE  Good(log, Safe)'
<1>1. Safe' = Safe BY DEF Safe
<1>2. WellFormed(log)' BY DEF Good, WellFormed, IsOut, IsIn
<1>3. Accounts(log, Safe)' BY SMT, <1>1 DEF Good, Accounts, IsOut, IsIn
<1> QED BY <1>2, <1>3 DEF Good

LEMMA StaleFrame ==
  ASSUME \A l \in stale : Good(l, Len(l)), stale' \subseteq stale,
         pushed \subseteq pushed', taken \subseteq taken',
         acked' \ taken' \subseteq acked \ taken, delivered' \subseteq delivered
  PROVE  (\A l \in stale : Good(l, Len(l)))'
<1> SUFFICES ASSUME NEW l \in stale' PROVE Good(l, Len(l))'
  OBVIOUS
<1>1. Good(l, Len(l)) OBVIOUS
<1>2. WellFormed(l)' BY <1>1 DEF Good, WellFormed, IsOut, IsIn
<1>3. Accounts(l, Len(l))' BY <1>1 DEF Good, Accounts, IsOut, IsIn
<1> QED BY <1>2, <1>3 DEF Good

\* The queues stay matched by a log that keeps its records.
LEMMA MemoryFrame ==
  ASSUME MemoryInv, data' = data, delivered' = delivered,
         \A i \in 1 .. Len(log) : i \in 1 .. Len(log') /\ log'[i] = log[i]
  PROVE  MemoryInv'
<1>1. \A k \in Keys : \A n \in 1 .. Len(data[k]) :
        /\ \E i \in 1 .. Len(log') : log'[i] = Out(data[k][n].seq, k, data[k][n].val)
        /\ data[k][n].val \notin delivered
  BY SMTT(30) DEF MemoryInv
<1> DEFINE Distinct(d) ==
       \A k1, k2 \in Keys : \A n1 \in 1 .. Len(d[k1]), n2 \in 1 .. Len(d[k2]) :
         d[k1][n1].seq = d[k2][n2].seq => k1 = k2 /\ n1 = n2
<1>2. Distinct(data) BY DEF MemoryInv
<1>3. \A k \in Keys : \A n \in 1 .. Len(data'[k]) :
        /\ \E i \in 1 .. Len(log') : log'[i] = Out(data'[k][n].seq, k, data'[k][n].val)
        /\ data'[k][n].val \notin delivered'
  BY <1>1
<1> HIDE DEF Distinct
<1>4. Distinct(data') BY <1>2
<1> QED BY <1>3, <1>4 DEF MemoryInv, Distinct

LEMMA OpenFrame ==
  ASSUME OpenInv, data' = data, delivered' = delivered, acked' \ taken' \subseteq acked \ taken,
         \A i \in 1 .. Len(log) : i \in 1 .. Len(log') /\ log'[i] = log[i]
  PROVE  OpenInv'
<1>1. MemoryInv' BY MemoryFrame DEF OpenInv
<1> QED BY <1>1 DEF OpenInv
=============================================================================
