---------------------------- MODULE StoreSafety -----------------------------
(****************************************************************************)
(* Every step of Store keeps StoreInv: the calls that append to its log    *)
(* (Push, Pull and Pullp, up to their Write and after their Sync), Crash,  *)
(* Open and the steps of replay, waiting, Compact, Close.  The theorems:   *)
(* up to the first append that Exposing names no acknowledged payload is   *)
(* lost and no delivered one returns.                                      *)
(****************************************************************************)
EXTENDS StoreLog

USE Zenon

-----------------------------------------------------------------------------
(* append.                                                                 *)

LEMMA WriteFailedSafe ==
  ASSUME TypeOK, StoreInv, Unlocked, WriteFailed, pushed \subseteq pushed',
         UNCHANGED <<phase, data, acked, taken, delivered>>
  PROVE  StoreInv'
<1>1. phase' = "open" /\ at' = "idle" /\ UNCHANGED <<durable, stale>>
  BY DEF Unlocked, WriteFailed, holder
<1>2. Good(log, Safe)' /\ \A i \in 1 .. Len(log) : i \in 1 .. Len(log') /\ log'[i] = log[i]
  <2>1. CASE log' = log
    <3>1. Good(log, Safe)' BY <2>1, <1>1, LogFrame DEF StoreInv
    <3> QED BY <3>1, <2>1
  <2>2. CASE log' = Append(log, Torn) /\ ~TornTail
    <3>1. Good(log, Safe)' BY <2>2, <1>1, ShortGood DEF StoreInv
    <3>2. Torn \in Record BY DEF Record
    <3> QED BY <3>1, <3>2, <2>2, Appending
  <2> QED BY <2>1, <2>2 DEF WriteFailed
<1>3. ("power" \in Faults => \A l \in stale : Good(l, Len(l)))'
  BY <1>1, StaleFrame DEF StoreInv
<1>4. OpenInv' BY <1>2, OpenFrame DEF StoreInv, Unlocked
<1>5. (delivered \subseteq taken /\ acked \subseteq pushed /\ taken \subseteq pushed)'
  BY DEF StoreInv
<1> QED BY <1>1, <1>2, <1>3, <1>4, <1>5 DEF StoreInv

LEMMA PushSafe ==
  ASSUME TypeOK, StoreInv, ~exposed', NEW k \in Keys, NEW m \in Msgs, Push(k, m)
  PROVE  StoreInv'
<1>0. pushed' = pushed \cup {m} /\ UNCHANGED <<phase, data, acked, taken, delivered>>
  BY DEF Push, memory
<1>1. CASE WriteFailed BY <1>0, <1>1, WriteFailedSafe DEF Push
<1>2. CASE Written(Out(seq, k, m), None)
  <2> DEFINE r == Out(seq, k, m)
  <2>1. r \in OutRecord /\ r \in Record BY MadeRecords DEF TypeOK
  <2>2. r.op = "out" /\ r.key = k /\ r.val = m /\ r.seq = seq BY DEF Out
  <2> HIDE DEF r
  <2>3. /\ log' = Append(log, r) /\ at' = "sync" /\ rec' = r
        /\ UNCHANGED <<durable, stale>> /\ phase' = "open"
    BY <1>0, <1>2 DEF Written, Push, Unlocked, r
  <2>4. ~Exposing(r) BY <1>2, Zenon DEF Written, r
  <2>5. stale = {} BY <2>4 DEF Exposing
  <2>6. m \notin pushed BY DEF Push
  <2>7. delivered \subseteq taken /\ taken \subseteq pushed /\ acked \subseteq pushed /\ Good(log, Safe)
    BY DEF StoreInv
  <2>8. Good(log, Safe)' BY <1>0, <2>1, <2>2, <2>3, <2>4, <2>6, <2>7, PushGood
  <2>9. OpenInv BY DEF StoreInv, Push, Unlocked
  <2>10. /\ \A i \in 1 .. Len(log) : i \in 1 .. Len(log') /\ log'[i] = log[i]
         /\ Len(log') = Len(log) + 1 /\ log'[Len(log) + 1] = r
    BY <2>1, <2>3, Appending
  <2>11. OpenInv' BY <1>0, <2>9, <2>10, OpenFrame
  <2>12. SyncInv'
    <3>1. \A h \in Keys : \A n \in 1 .. Len(data[h]) : data[h][n].seq # r.seq
      <4> SUFFICES ASSUME NEW h \in Keys, NEW n \in 1 .. Len(data[h]), data[h][n].seq = r.seq
                   PROVE  FALSE
        OBVIOUS
      <4>1. PICK i \in 1 .. Len(log) : log[i] = Out(data[h][n].seq, h, data[h][n].val)
        BY <2>9 DEF OpenInv, MemoryInv
      <4>2. log[i].op = "out" /\ log[i].seq = r.seq BY SMT, <4>1 DEF Out
      <4> QED BY <2>2, <2>4, <4>1, <4>2 DEF Exposing
    <3>2. log' # <<>>
      <4>1. Len(log') # 0 BY SMT, <2>10, LenProperties DEF TypeOK
      <4> QED BY <4>1, EmptySeq
    <3>3. log'[Len(log')] = rec' BY <2>3, <2>10
    <3>4. stale' = {} BY <2>3, <2>5
    <3>5. rec'.op = "out" /\ rec'.key \in Keys /\ rec'.val \in Msgs /\ rec'.val \notin delivered'
      BY <1>0, <2>2, <2>3, <2>6, <2>7
    <3>6. \A h \in Keys : \A n \in 1 .. Len(data'[h]) : data'[h][n].seq # rec'.seq
      BY <1>0, <2>3, <3>1
    <3> QED BY <3>2, <3>3, <3>4, <3>5, <3>6, Zenon DEF SyncInv
  <2>13. (delivered \subseteq taken /\ acked \subseteq pushed /\ taken \subseteq pushed)'
    BY <1>0, <2>7
  <2>14. ("power" \in Faults => \A l \in stale : Good(l, Len(l)))' BY <2>3, <2>5
  <2> QED BY <2>3, <2>8, <2>11, <2>12, <2>13, <2>14 DEF StoreInv
<1> QED BY <1>1, <1>2 DEF Push

LEMMA TakeSafe ==
  ASSUME TypeOK, StoreInv, ~exposed', Unlocked, NEW p \in Pullers, NEW k \in Keys, takeHead(p, k)
  PROVE  StoreInv'
<1>0. /\ UNCHANGED <<phase, data, pushed, acked, delivered>> /\ data[k] # <<>>
      /\ phase = "open" /\ at = "idle"
  BY DEF takeHead, memory, Unlocked
<1>1. CASE WriteFailed /\ taken' = taken BY <1>0, <1>1, WriteFailedSafe
<1>2. CASE Written(In(Head(data[k]).seq), p) /\ taken' = taken \cup {Head(data[k]).val}
           /\ want' = [want EXCEPT ![p] = k]
  <2> DEFINE head == Head(data[k])
             r == In(head.seq)
  <2>1. data[k] \in Seq(Entry) /\ head = data[k][1] /\ 1 \in 1 .. Len(data[k]) /\ head \in Entry
    <3>1. data[k] \in Seq(Entry) BY DEF TypeOK
    <3> QED BY SMT, <1>0, <3>1, HeadTailProperties, EmptySeq, LenProperties
  <2>2. OpenInv BY SMTT(30), <1>0 DEF StoreInv
  <2>3. PICK i \in 1 .. Len(log) : log[i] = Out(head.seq, k, head.val)
    BY SMTT(30), <2>1, <2>2 DEF OpenInv, MemoryInv
  <2>5. r \in InRecord /\ r \in Record /\ r.seq = head.seq /\ r.op = "in"
    BY SMTT(30), <2>1, MadeRecords DEF Entry, In
  <2> HIDE DEF head, r
  <2>4. IsOut(log, i) /\ log[i].seq = head.seq /\ log[i].val = head.val
    BY SMTT(30), <2>3 DEF Out, IsOut
  <2>6. /\ log' = Append(log, r) /\ at' = "sync" /\ rec' = r /\ who' = p
        /\ UNCHANGED <<durable, stale>> /\ phase' = "open" /\ taken' = taken \cup {head.val}
    BY ZenonT(30), <1>0, <1>2 DEF Written, r, head
  <2>7. ~Exposing(r) BY <1>2, Zenon DEF Written, r, head
  <2>8. stale = {} /\ ~TornTail BY <2>7 DEF Exposing
  <2>9. delivered \subseteq taken /\ taken \subseteq pushed /\ acked \subseteq pushed /\ Good(log, Safe)
    BY SMTT(30) DEF StoreInv
  <2>10. Good(log, Safe)' /\ taken' \subseteq pushed'
    BY ZenonT(30), <1>0, <2>4, <2>5, <2>6, <2>8, <2>9, TakeGood
  <2>11. /\ \A n \in 1 .. Len(log) : n \in 1 .. Len(log') /\ log'[n] = log[n]
         /\ Len(log') = Len(log) + 1 /\ log'[Len(log) + 1] = r
    BY ZenonT(30), <2>5, <2>6, Appending
  <2>12. OpenInv' BY ZenonT(30), <1>0, <2>2, <2>6, <2>11, OpenFrame
  <2>13. SyncInv'
    <3>1. log' # <<>>
      <4>1. Len(log) \in Nat BY LenProperties DEF TypeOK
      <4>2. Len(log') # 0 BY SMT, <2>11, <4>1
      <4> QED BY SMTT(30), <4>2, EmptySeq
    <3>2. log'[Len(log')] = rec' BY <2>6, <2>11
    <3>3. stale' = {} BY <2>6, <2>8
    <3>4. who' \in Pullers /\ want'[who'] = k BY <1>2, <2>6 DEF TypeOK
    <3>5. rec'.op = "in" /\ data'[want'[who']] # <<>> /\ head = Head(data'[want'[who']])
      BY <1>0, <2>5, <2>6, <3>4 DEF head
    <3>6. head.seq = rec'.seq /\ head.val \in taken' BY <2>5, <2>6
    <3> QED BY <3>1, <3>2, <3>3, <3>4, <3>5, <3>6, Zenon DEF SyncInv
  <2>14. (delivered \subseteq taken /\ acked \subseteq pushed)' BY <1>0, <2>6, <2>9
  <2>15. ("power" \in Faults => \A l \in stale : Good(l, Len(l)))' BY <2>6, <2>8
  <2> QED BY <2>6, <2>10, <2>12, <2>13, <2>14, <2>15 DEF StoreInv
<1> QED BY <1>1, <1>2 DEF takeHead

\* After Sync returned nil the whole log is safe.
LEMMA Synced ==
  ASSUME TypeOK, Sync \/ "power" \notin Faults, AppendDone
  PROVE  /\ Safe' = Len(log) /\ log' = log /\ Len(log) \in Nat
         /\ \A i \in 1 .. Safe : i \in 1 .. Len(log)
         /\ phase = "open" /\ phase' = "open" /\ at' = "idle"
         /\ UNCHANGED <<stale, pushed, taken>>
<1>1. Safe \in 0 .. Len(log) /\ Len(log) \in Nat BY SafeType, LenProperties DEF TypeOK
<1>2. Safe' = Len(log) BY DEF Safe, AppendDone
<1>3. phase = "open" BY DEF TypeOK, AppendDone
<1> QED BY SMT, <1>1, <1>2, <1>3 DEF AppendDone, release

LEMMA PushDoneSafe ==
  ASSUME TypeOK, StoreInv, Sync \/ "power" \notin Faults, AppendDone, rec.op = "out"
  PROVE  StoreInv'
<1>1. /\ Safe' = Len(log) /\ log' = log /\ Len(log) \in Nat
      /\ \A i \in 1 .. Safe : i \in 1 .. Len(log)
      /\ phase = "open" /\ phase' = "open" /\ at' = "idle"
      /\ UNCHANGED <<stale, pushed, taken>>
  BY Synced
<1>2. SyncInv /\ OpenInv /\ Good(log, Safe) BY <1>1 DEF StoreInv, AppendDone
<1>3. rec \in OutRecord /\ rec.key \in Keys /\ rec.val \in Msgs /\ rec.seq \in Nat
  BY RecordKinds DEF TypeOK
<1> DEFINE e == [seq |-> rec.seq, val |-> rec.val]
<1>4. /\ data' = [data EXCEPT ![rec.key] = Append(@, e)]
      /\ acked' = acked \cup {rec.val} /\ delivered' = delivered
  BY DEF AppendDone, Appended
<1>5. e \in Entry /\ e.seq = rec.seq /\ e.val = rec.val BY SMTT(30), <1>3 DEF Entry
<1> HIDE DEF e
<1>6. Len(log) \in 1 .. Len(log) /\ log[Len(log)] = rec /\ IsOut(log, Len(log))
  <2>1. Len(log) # 0 BY <1>2, EmptySeq DEF SyncInv, TypeOK
  <2> QED BY SMTT(30), <1>1, <1>2, <2>1 DEF SyncInv, IsOut
<1>7. rec = Out(rec.seq, rec.key, rec.val) BY <1>3 DEF OutRecord, Out
<1>8. data \in [Keys -> Seq(Entry)] BY DEF TypeOK
<1>9. \A k \in Keys : k # rec.key => data'[k] = data[k] BY SMTT(30), <1>4, <1>8
<1> DEFINE D == Len(data[rec.key])
<1>10. /\ D \in Nat /\ Len(data'[rec.key]) = D + 1 /\ data'[rec.key][D + 1] = e
       /\ \A n \in 1 .. D : data'[rec.key][n] = data[rec.key][n]
  <2>1. data[rec.key] \in Seq(Entry) /\ data'[rec.key] = Append(data[rec.key], e)
    BY <1>3, <1>4, <1>8
  <2> QED BY SMT, <1>5, <2>1, AppendProperties, LenProperties
<1>11. \A k \in Keys : \A n \in 1 .. Len(data'[k]) :
         \/ n \in 1 .. Len(data[k]) /\ data'[k][n] = data[k][n]
         \/ k = rec.key /\ n = D + 1 /\ data'[k][n] = e
  BY SMTT(30), <1>9, <1>10
<1>12. \A k \in Keys : \A n \in 1 .. Len(data[k]) :
         n \in 1 .. Len(data'[k]) /\ data'[k][n] = data[k][n]
  BY SMT, <1>9, <1>10
<1>13. D + 1 \in 1 .. Len(data'[rec.key]) BY SMT, <1>10
<1> HIDE DEF D
<1>14. Good(log, Safe)'
  <2>1. WellFormed(log)' BY SMTT(30), <1>1, <1>2 DEF Good, WellFormed, IsOut, IsIn
  <2>2. \A m \in acked' \ taken' : \E i \in 1 .. Len(log) : IsOut(log, i) /\ log[i].val = m
    <3> TAKE m \in acked' \ taken'
    <3>1. CASE m = rec.val BY <1>6, <3>1
    <3>2. CASE m \in acked \ taken
      <4>1. PICK i \in 1 .. Safe : IsOut(log, i) /\ log[i].val = m
        BY <1>2, <3>2 DEF Good, Accounts
      <4> QED BY <1>1, <4>1
    <3> QED BY <1>1, <1>4, <3>1, <3>2
  <2>3. \A i \in 1 .. Len(log) :
          IsOut(log, i) /\ log[i].val \in delivered =>
            \E j \in 1 .. Len(log) : IsIn(log, j) /\ log[j].seq = log[i].seq
    BY SMTT(30), <1>1, <1>2 DEF Good, Accounts
  <2>4. Accounts(log, Safe)' BY SMTT(30), <1>1, <1>2, <1>4, <2>2, <2>3 DEF Good, Accounts, IsOut, IsIn
  <2> QED BY SMTT(30), <2>1, <2>4 DEF Good
<1>15. MemoryInv'
  <2>1. \A k \in Keys : \A n \in 1 .. Len(data'[k]) :
          /\ \E i \in 1 .. Len(log) : log[i] = Out(data'[k][n].seq, k, data'[k][n].val)
          /\ data'[k][n].val \notin delivered
    <3> TAKE k \in Keys
    <3> TAKE n \in 1 .. Len(data'[k])
    <3>1. CASE n \in 1 .. Len(data[k]) /\ data'[k][n] = data[k][n]
      BY SMTT(30), <1>2, <3>1 DEF OpenInv, MemoryInv
    <3>2. CASE k = rec.key /\ data'[k][n] = e
      <4>1. log[Len(log)] = Out(data'[k][n].seq, k, data'[k][n].val)
        BY <1>5, <1>6, <1>7, <3>2
      <4>2. rec.val \notin delivered BY <1>2 DEF SyncInv
      <4> QED BY <1>5, <1>6, <3>2, <4>1, <4>2
    <3> QED BY <1>11, <3>1, <3>2
  <2>2. \A k \in Keys : \A n \in 1 .. Len(data[k]) : data[k][n].seq # e.seq
    BY <1>2, <1>5 DEF SyncInv
  <2>3. ASSUME NEW k1 \in Keys, NEW k2 \in Keys, NEW n1 \in 1 .. Len(data'[k1]),
               NEW n2 \in 1 .. Len(data'[k2]), data'[k1][n1].seq = data'[k2][n2].seq
        PROVE  k1 = k2 /\ n1 = n2
    <3>1. CASE n1 \in 1 .. Len(data[k1]) /\ data'[k1][n1] = data[k1][n1]
      <4>1. n2 \in 1 .. Len(data[k2]) /\ data'[k2][n2] = data[k2][n2]
        BY SMT, <1>11, <2>2, <2>3, <3>1
      <4> QED BY SMTT(30), <1>2, <2>3, <3>1, <4>1 DEF OpenInv, MemoryInv
    <3>2. CASE k1 = rec.key /\ n1 = D + 1 /\ data'[k1][n1] = e
      <4>1. k2 = rec.key /\ n2 = D + 1 BY SMT, <1>11, <2>2, <2>3, <3>2
      <4> QED BY <3>2, <4>1
    <3> QED BY SMTT(30), <1>11, <3>1, <3>2
  <2>4. delivered' = delivered BY SMTT(30), <1>4
  <2> QED BY SMTT(30), <1>1, <2>1, <2>3, <2>4 DEF MemoryInv
<1>16. \A m \in acked' \ taken' : \E k \in Keys : \E n \in 1 .. Len(data'[k]) : data'[k][n].val = m
  <2> TAKE m \in acked' \ taken'
  <2>1. CASE m = rec.val
    <3>1. data'[rec.key][D + 1].val = m BY <1>5, <1>10, <2>1 DEF D
    <3> QED BY <1>3, <1>13, <3>1
  <2>2. CASE m \in acked \ taken
    <3>1. PICK k \in Keys : \E n \in 1 .. Len(data[k]) : data[k][n].val = m
      BY <1>2, <2>2 DEF OpenInv
    <3> QED BY <1>12, <3>1
  <2> QED BY <1>1, <1>4, <2>1, <2>2
<1>17. OpenInv' BY <1>15, <1>16 DEF OpenInv
<1>18. (delivered \subseteq taken /\ acked \subseteq pushed /\ taken \subseteq pushed)'
  <2>1. rec.val \in pushed BY <1>2, <1>6 DEF Good, WellFormed
  <2> QED BY SMTT(30), <1>1, <1>4, <2>1 DEF StoreInv
<1>19. ("power" \in Faults => \A l \in stale : Good(l, Len(l)))'
  BY <1>1, <1>2 DEF SyncInv
<1> QED BY <1>1, <1>14, <1>17, <1>18, <1>19 DEF StoreInv

LEMMA TakeDoneSafe ==
  ASSUME TypeOK, StoreInv, Sync \/ "power" \notin Faults, AppendDone, rec.op # "out"
  PROVE  StoreInv'
<1>1. /\ Safe' = Len(log) /\ log' = log /\ Len(log) \in Nat
      /\ \A i \in 1 .. Safe : i \in 1 .. Len(log)
      /\ phase = "open" /\ phase' = "open" /\ at' = "idle"
      /\ UNCHANGED <<stale, pushed, taken>>
  BY Synced
<1>2. SyncInv /\ OpenInv /\ Good(log, Safe) BY SMTT(30), <1>1 DEF StoreInv, AppendDone
<1> DEFINE k == want[who]
           q == data[k]
           h == Head(q)
<1>3. rec.op = "in" /\ k \in Keys /\ q # <<>> /\ h.seq = rec.seq /\ h.val \in taken
  BY <1>2 DEF SyncInv
<1>4. /\ data' = [data EXCEPT ![k] = Tail(@)]
      /\ delivered' = delivered \cup {h.val} /\ acked' = acked
  BY DEF AppendDone, Appended
<1>5. data \in [Keys -> Seq(Entry)] /\ q \in Seq(Entry) BY <1>3 DEF TypeOK
<1>6. /\ h = q[1] /\ Len(q) \in Nat /\ Len(q) # 0 /\ Len(Tail(q)) = Len(q) - 1
      /\ \A n \in 1 .. Len(Tail(q)) : Tail(q)[n] = q[n + 1]
  BY SMT, <1>3, <1>5, HeadTailProperties, EmptySeq, LenProperties
<1> HIDE DEF q, h, k
<1>7. data'[k] = Tail(q) /\ q = data[k] /\ \A x \in Keys : x # k => data'[x] = data[x]
  BY <1>3, <1>4, <1>5 DEF q
<1> DEFINE D == Len(q)
<1>8. \A n \in 1 .. Len(data'[k]) : n + 1 \in 1 .. D /\ n + 1 # 1 /\ data'[k][n] = data[k][n + 1]
  BY SMT, <1>6, <1>7
<1>9. \A n \in 1 .. D : n # 1 => n - 1 \in 1 .. Len(data'[k]) /\ data'[k][n - 1] = data[k][n]
  BY SMT, <1>6, <1>7
<1>10. D \in Nat /\ 1 \in 1 .. Len(data[k]) /\ data[k][1] = h /\ D = Len(data[k])
  BY SMT, <1>6, <1>7
<1> HIDE DEF D
<1>11. PICK i0 \in 1 .. Len(log) : log[i0] = Out(h.seq, k, h.val)
  BY SMT, <1>2, <1>3, <1>10 DEF OpenInv, MemoryInv
<1>12. IsOut(log, i0) /\ log[i0].seq = h.seq /\ log[i0].val = h.val BY SMT, <1>11 DEF Out, IsOut
<1>13. Len(log) \in 1 .. Len(log) /\ IsIn(log, Len(log)) /\ log[Len(log)].seq = h.seq
  <2>1. Len(log) # 0 BY <1>2, EmptySeq DEF SyncInv, TypeOK
  <2> QED BY SMTT(30), <1>1, <1>2, <1>3, <2>1 DEF SyncInv, IsIn
<1>14. Good(log, Safe)'
  <2>1. WellFormed(log)' BY ZenonT(30), <1>1, <1>2 DEF Good, WellFormed, IsOut, IsIn
  <2>2. \A m \in acked \ taken : \E i \in 1 .. Len(log) : IsOut(log, i) /\ log[i].val = m
    BY SMTT(30), <1>1, <1>2 DEF Good, Accounts
  <2>3. ASSUME NEW i \in 1 .. Len(log), IsOut(log, i), log[i].val \in delivered'
        PROVE  \E j \in 1 .. Len(log) : IsIn(log, j) /\ log[j].seq = log[i].seq
    <3>1. CASE log[i].val \in delivered BY <1>1, <1>2, <2>3, <3>1 DEF Good, Accounts
    <3>2. CASE log[i].val = h.val
      <4>1. i = i0 BY <1>2, <1>12, <2>3, <3>2 DEF Good, WellFormed
      <4> QED BY SMTT(30), <1>12, <1>13, <4>1
    <3> QED BY ZenonT(30), <1>4, <2>3, <3>1, <3>2
  <2>4. UNCHANGED <<acked, taken>> /\ Safe' = Len(log) /\ log' = log BY SMTT(30), <1>1, <1>4
  <2>5. Accounts(log, Safe)' BY SMTT(30), <1>2, <2>2, <2>3, <2>4 DEF Good, Accounts, IsOut, IsIn
  <2> QED BY SMTT(30), <2>1, <2>5 DEF Good
\* Every entry left was queued, at another place than the head.
<1>15. ASSUME NEW x \in Keys, NEW n \in 1 .. Len(data'[x])
       PROVE  \E m \in 1 .. Len(data[x]) :
                /\ data'[x][n] = data[x][m] /\ m = (IF x = k THEN n + 1 ELSE n)
                /\ ~(x = k /\ m = 1)
  BY ZenonT(30), <1>7, <1>8, <1>10, <1>15
<1>16. ASSUME NEW x \in Keys, NEW m \in 1 .. Len(data[x]), ~(x = k /\ m = 1)
       PROVE  data[x][m].val # h.val
  <2> SUFFICES ASSUME data[x][m].val = h.val PROVE FALSE OBVIOUS
  <2>1. PICK i \in 1 .. Len(log) : log[i] = Out(data[x][m].seq, x, data[x][m].val)
    BY SMT, <1>2 DEF OpenInv, MemoryInv
  <2>2. IsOut(log, i) /\ log[i].val = h.val /\ log[i].seq = data[x][m].seq
    BY SMTT(30), <2>1 DEF Out, IsOut
  <2>3. i = i0 BY <1>2, <1>12, <2>2 DEF Good, WellFormed
  <2>4. data[x][m].seq = data[k][1].seq BY SMTT(30), <1>10, <1>12, <2>2, <2>3
  <2> QED BY SMTT(30), <1>2, <1>3, <1>10, <1>16, <2>4 DEF OpenInv, MemoryInv
<1>17. MemoryInv'
  <2>1. ASSUME NEW x \in Keys, NEW n \in 1 .. Len(data'[x])
        PROVE  /\ \E i \in 1 .. Len(log) : log[i] = Out(data'[x][n].seq, x, data'[x][n].val)
               /\ data'[x][n].val \notin delivered'
    <3>1. PICK m \in 1 .. Len(data[x]) : data'[x][n] = data[x][m] /\ ~(x = k /\ m = 1)
      BY SMTT(30), <1>15
    <3>2. /\ \E i \in 1 .. Len(log) : log[i] = Out(data[x][m].seq, x, data[x][m].val)
          /\ data[x][m].val \notin delivered
      BY <1>2 DEF OpenInv, MemoryInv
    <3>3. data[x][m].val # h.val BY <1>16, <3>1
    <3>4. delivered' = delivered \cup {h.val} BY <1>4
    <3> QED BY ZenonT(30), <3>1, <3>2, <3>3, <3>4
  <2>2. ASSUME NEW x \in Keys, NEW y \in Keys, NEW n1 \in 1 .. Len(data'[x]),
               NEW n2 \in 1 .. Len(data'[y]), data'[x][n1].seq = data'[y][n2].seq
        PROVE  x = y /\ n1 = n2
    <3>1. PICK m1 \in 1 .. Len(data[x]) :
            data'[x][n1] = data[x][m1] /\ m1 = (IF x = k THEN n1 + 1 ELSE n1)
      BY SMT, <1>15
    <3>2. PICK m2 \in 1 .. Len(data[y]) :
            data'[y][n2] = data[y][m2] /\ m2 = (IF y = k THEN n2 + 1 ELSE n2)
      BY SMT, <1>15
    <3>3. data[x][m1].seq = data[y][m2].seq BY <2>2, <3>1, <3>2
    <3>4. x = y /\ m1 = m2 BY SMT, <1>2, <3>3 DEF OpenInv, MemoryInv
    <3> QED BY SMT, <3>1, <3>2, <3>4
  <2> QED BY SMTT(30), <1>1, <2>1, <2>2 DEF MemoryInv
<1>18. \A m \in acked \ taken : \E x \in Keys : \E n \in 1 .. Len(data'[x]) : data'[x][n].val = m
  <2> TAKE m \in acked \ taken
  <2>0. PICK x \in Keys : \E n \in 1 .. Len(data[x]) : data[x][n].val = m
    BY <1>2 DEF OpenInv
  <2>1. PICK n \in 1 .. Len(data[x]) : data[x][n].val = m BY <2>0
  <2>2. CASE x # k BY <1>7, <2>1, <2>2
  <2>3. CASE x = k
    <3>1. n # 1 BY <1>3, <1>10, <2>1, <2>3
    <3>2. n - 1 \in 1 .. Len(data'[k]) /\ data'[k][n - 1] = data[k][n]
      BY <1>9, <1>10, <2>1, <2>3, <3>1
    <3> QED BY <1>3, <2>1, <2>3, <3>2
  <2> QED BY <2>2, <2>3
<1>19. OpenInv'
  <2>1. acked' = acked /\ taken' = taken BY <1>1, <1>4
  <2> QED BY <1>17, <1>18, <2>1 DEF OpenInv
<1>20. (delivered \subseteq taken /\ acked \subseteq pushed /\ taken \subseteq pushed)'
  BY <1>1, <1>3, <1>4 DEF StoreInv
<1>21. ("power" \in Faults => \A l \in stale : Good(l, Len(l)))'
  BY <1>1, <1>2 DEF SyncInv
<1> QED BY <1>1, <1>14, <1>19, <1>20, <1>21 DEF StoreInv

-----------------------------------------------------------------------------
(* Crash, Open and replay.                                                 *)

LEMMA CrashSafely ==
  ASSUME TypeOK, StoreInv, Crash PROVE StoreInv'
<1>1. /\ phase' = "down" /\ at' = "idle" /\ data' = [k \in Keys |-> <<>>]
      /\ UNCHANGED <<pushed, acked, taken, delivered>>
  BY DEF Crash, history
<1>2. Good(log, Safe)' /\ ("power" \in Faults => \A l \in stale : Good(l, Len(l)))'
  <2>1. CASE UNCHANGED disk
    <3>1. Good(log, Safe)' BY <1>1, <2>1, LogFrame DEF StoreInv, disk
    <3>2. ("power" \in Faults => \A l \in stale : Good(l, Len(l)))'
      BY <1>1, <2>1, StaleFrame DEF StoreInv, disk
    <3> QED BY <3>1, <3>2
  <2>2. CASE \E l \in Images : log' = l /\ durable' = Len(l) /\ stale' = {}
    <3>1. PICK l \in Images : log' = l /\ durable' = Len(l) /\ stale' = {} BY <2>2
    <3>2. Good(l, Len(l)) BY GoodImages
    <3>3. Safe' = Len(l) BY <3>1 DEF Safe
    <3>4. WellFormed(log)' BY <1>1, <3>1, <3>2 DEF Good, WellFormed, IsOut, IsIn
    <3>5. Accounts(log, Safe)' BY SMT, <1>1, <3>1, <3>2, <3>3 DEF Good, Accounts, IsOut, IsIn
    <3> QED BY <3>1, <3>4, <3>5 DEF Good
  <2> QED BY <2>1, <2>2 DEF Crash
<1>3. (delivered \subseteq taken /\ acked \subseteq pushed /\ taken \subseteq pushed)'
  BY <1>1 DEF StoreInv
<1> QED BY <1>1, <1>2, <1>3 DEF StoreInv

\* What replay's steps leave alone.
LEMMA ReplayFrame ==
  ASSUME TypeOK, StoreInv, phase # "open", UNCHANGED <<disk, holder, history>>
  PROVE  /\ Good(log, Safe)' /\ at' = "idle"
         /\ ("power" \in Faults => \A l \in stale : Good(l, Len(l)))'
         /\ (delivered \subseteq taken /\ acked \subseteq pushed /\ taken \subseteq pushed)'
<1> USE DEF disk, holder, history
<1>1. Good(log, Safe)' BY LogFrame DEF StoreInv
<1>2. ("power" \in Faults => \A l \in stale : Good(l, Len(l)))' BY StaleFrame DEF StoreInv
<1>3. at' = "idle" BY DEF TypeOK
<1> QED BY <1>1, <1>2, <1>3 DEF StoreInv

LEMMA OpenSafe ==
  ASSUME TypeOK, StoreInv, Open PROVE StoreInv'
<1>1. /\ phase # "open" /\ phase' = "replay" /\ UNCHANGED <<disk, holder, history>>
  BY DEF Open
<1>2. /\ pos' = 1 /\ entries' = <<>> /\ tomb' = {} /\ data' = [k \in Keys |-> <<>>]
      /\ log' = log /\ Len(<<>>) = 0 /\ Len(log) \in Nat
  BY EmptySeq, LenProperties DEF Open, TypeOK, disk
<1>3. Reading' BY SMT, <1>2 DEF Reading
<1>4. ReplayInv' BY SMT, <1>2, <1>3 DEF ReplayInv
<1> QED BY <1>1, <1>4, ReplayFrame DEF StoreInv

LEMMA ReplayRecordSafe ==
  ASSUME TypeOK, StoreInv, ReplayRecord PROVE StoreInv'
<1>1. /\ phase = "replay" /\ phase' = "replay" /\ UNCHANGED <<disk, holder, history>> /\ data' = data
      /\ log' = log /\ pos' = pos + 1 /\ pos <= Len(log) /\ log[pos] # Torn
  BY DEF ReplayRecord, disk
<1>2. ReplayInv /\ Reading /\ Good(log, Safe) BY <1>1 DEF StoreInv, ReplayInv
<1>3. Len(log) \in Nat /\ pos \in Nat \ {0} /\ pos \in 1 .. Len(log)
  BY SMT, <1>1, LenProperties DEF TypeOK
<1> DEFINE r == log[pos]
<1>4. r \in Record /\ r.op # "torn"
  <2>1. r \in Record BY <1>3, ElementOfSeq DEF TypeOK
  <2> QED BY <1>1, <2>1, RecordKinds
<1>5. /\ entries' = IF r.op = "out" THEN Append(entries, r) ELSE entries
      /\ tomb' = IF r.op = "in" THEN tomb \cup {r.seq} ELSE tomb
  BY DEF ReplayRecord
<1>6. \A i : i \in 1 .. pos' - 1 <=> i \in 1 .. pos - 1 \/ i = pos BY SMT, <1>1, <1>3
<1>7. \A i \in 1 .. pos - 1 : i # pos /\ i \in 1 .. Len(log) BY SMT, <1>1, <1>3
<1>8. tomb' = {log[i].seq : i \in {j \in 1 .. pos' - 1 : log[j].op = "in"}}
  <2>1. tomb = {log[i].seq : i \in {j \in 1 .. pos - 1 : log[j].op = "in"}} BY <1>2 DEF Reading
  <2>2. CASE r.op = "in" BY <1>5, <1>6, <2>1, <2>2
  <2>3. CASE r.op # "in" BY SMT, <1>5, <1>6, <2>1, <2>3
  <2> QED BY <2>2, <2>3
<1>9. r.op = "out" => r \in OutRecord BY <1>4, RecordKinds
<1> DEFINE N == Len(entries)
<1>10. N \in Nat /\ entries \in Seq(OutRecord) BY LenProperties DEF TypeOK
<1>11. r.op = "out" => /\ Len(entries') = N + 1 /\ entries'[N + 1] = r
                       /\ \A n \in 1 .. N : entries'[n] = entries[n]
  BY SMT, <1>5, <1>9, <1>10, AppendProperties
<1> HIDE DEF N, r
<1>12. \A n \in 1 .. Len(entries') :
         \/ n \in 1 .. N /\ entries'[n] = entries[n]
         \/ n = N + 1 /\ entries'[n] = r /\ IsOut(log, pos)
  BY SMT, <1>3, <1>5, <1>10, <1>11 DEF N, IsOut, r
<1>13. \A n \in 1 .. N : n \in 1 .. Len(entries') /\ entries'[n] = entries[n]
  BY SMT, <1>5, <1>10, <1>11 DEF N
<1>14. \A n \in 1 .. N : \E i \in 1 .. pos - 1 : IsOut(log, i) /\ log[i] = entries[n]
  BY <1>2 DEF Reading, N
<1>15. Reading'
  <2>1. pos' <= Len(log) + 1 BY SMT, <1>1, <1>3
  <2>2. \A i \in 1 .. pos' - 1 : log[i].op # "torn" BY <1>2, <1>4, <1>6 DEF Reading, r
  <2>3. \A n \in 1 .. Len(entries') :
          \E i \in 1 .. pos' - 1 : IsOut(log, i) /\ log[i] = entries'[n]
    BY <1>6, <1>12, <1>14 DEF r
  <2>4. IsOut(log, pos) => \A a \in 1 .. N : entries[a].seq # r.seq
    <3> SUFFICES ASSUME IsOut(log, pos), NEW a \in 1 .. N, entries[a].seq = r.seq PROVE FALSE
      OBVIOUS
    <3>1. PICK i \in 1 .. pos - 1 : IsOut(log, i) /\ log[i] = entries[a] BY <1>14
    <3> QED BY <1>2, <1>3, <1>7, <3>1 DEF Good, WellFormed, r
  <2>5. \A a, b \in 1 .. Len(entries') : entries'[a].seq = entries'[b].seq => a = b
    <3>1. \A a, b \in 1 .. N : entries[a].seq = entries[b].seq => a = b BY <1>2 DEF Reading, N
    <3> QED BY <1>12, <2>4, <3>1
  <2> QED BY SMT, <1>1, <1>8, <2>1, <2>2, <2>3, <2>5 DEF Reading, IsOut
<1>16. \A i \in 1 .. pos' - 1 :
         IsOut(log, i) => \E n \in 1 .. Len(entries') : entries'[n] = log[i]
  <2> TAKE i \in 1 .. pos' - 1
  <2> HAVE IsOut(log, i)
  <2>1. CASE i \in 1 .. pos - 1
    <3>1. PICK n \in 1 .. N : entries[n] = log[i] BY <1>2, <2>1 DEF ReplayInv, N
    <3> QED BY <1>13, <3>1
  <2>2. CASE i = pos
    <3>1. r.op = "out" BY <2>2 DEF IsOut, r
    <3>2. N + 1 \in 1 .. Len(entries') BY SMT, <1>10, <1>11, <3>1
    <3> QED BY <1>11, <2>2, <3>1, <3>2 DEF r
  <2> QED BY <1>6, <2>1, <2>2
<1>17. ReplayInv' BY <1>1, <1>2, <1>15, <1>16 DEF ReplayInv, IsOut
<1> QED BY <1>1, <1>17, ReplayFrame DEF StoreInv

LEMMA ReplayStopSafe ==
  ASSUME TypeOK, StoreInv, ReplayStop \/ ReplayCorrupt PROVE StoreInv'
<1>1. /\ phase = "replay" /\ UNCHANGED <<disk, holder, history>>
      /\ UNCHANGED <<log, pos, entries, tomb, data>>
  BY DEF ReplayStop, ReplayCorrupt, disk, reader, memory
<1>2. ReplayInv /\ Reading BY <1>1 DEF StoreInv, ReplayInv
<1>3. CASE ReplayCorrupt
  <2>1. phase' = "down" /\ data' = [k \in Keys |-> <<>>]
    BY <1>1, <1>2, <1>3 DEF ReplayCorrupt, ReplayInv
  <2> QED BY SMTT(30), <1>1, <2>1, ReplayFrame DEF StoreInv
<1>4. CASE ReplayStop
  <2>1. phase' = "filter" /\ (pos <= Len(log) => log[pos].op = "torn")
    BY SMT, <1>4 DEF ReplayStop, Torn
  <2>2. \A k \in Keys : Len(data[k]) = 0 BY <1>2, EmptySeq DEF ReplayInv
  <2>3. MemoryInv'
    <3>1. \A k \in Keys : \A n \in 1 .. Len(data'[k]) : FALSE BY SMT, <1>1, <2>2
    <3> QED BY <3>1 DEF MemoryInv
  <2>4. Reading'
    <3>1. log' = log /\ pos' = pos /\ entries' = entries /\ tomb' = tomb BY <1>1
    <3>2. tomb' = {log'[i].seq : i \in {j \in 1 .. pos' - 1 : log'[j].op = "in"}}
      BY <1>2, <3>1, ZenonT(30) DEF Reading
    <3> QED BY <1>2, <3>1, <3>2 DEF Reading, IsOut
  <2>5. FilterInv' BY SMT, <1>1, <1>2, <2>1, <2>2, <2>3, <2>4 DEF FilterInv, ReplayInv, IsOut
  <2> QED BY <1>1, <2>1, <2>5, ReplayFrame DEF StoreInv
<1> QED BY <1>3, <1>4

\* Replay stopped past every complete record.
LEMMA AllRead ==
  ASSUME TypeOK, Good(log, Safe), Reading, pos <= Len(log) => log[pos].op = "torn",
         NEW i, IsOut(log, i) \/ IsIn(log, i)
  PROVE  i \in 1 .. pos - 1
<1>1. Len(log) \in Nat /\ pos \in Nat \ {0} /\ i \in 1 .. Len(log) /\ log[i].op # "torn"
  BY LenProperties DEF TypeOK, IsOut, IsIn
<1>2. CASE pos <= Len(log)
  <2>1. pos \in 1 .. Len(log) /\ log[pos].op = "torn" BY SMT, <1>1, <1>2
  <2>2. pos = Len(log) BY <2>1 DEF Good, WellFormed
  <2>3. i # pos BY <1>1, <2>1
  <2> QED BY SMT, <1>1, <2>2, <2>3
<1>3. CASE ~(pos <= Len(log)) BY SMT, <1>1, <1>3
<1> QED BY <1>2, <1>3

LEMMA ReplayDoneSafe ==
  ASSUME TypeOK, StoreInv, ReplayDone PROVE StoreInv'
<1>1. /\ phase = "filter" /\ phase' = "open" /\ UNCHANGED <<disk, holder, history>>
      /\ UNCHANGED <<log, data, acked, taken, delivered>> /\ entries = <<>> /\ Len(<<>>) = 0
  BY SMTT(30), EmptySeq DEF ReplayDone, disk, history
<1>2. FilterInv /\ Reading /\ MemoryInv /\ Good(log, Safe) BY <1>1 DEF StoreInv, FilterInv
<1>3. ASSUME NEW m \in acked \ taken
      PROVE  \E k \in Keys : \E n \in 1 .. Len(data[k]) : data[k][n].val = m
  <2>1. PICK i \in 1 .. Safe : IsOut(log, i) /\ log[i].val = m BY <1>2 DEF Good, Accounts
  <2>2. i \in 1 .. pos - 1 BY <1>2, <2>1, AllRead DEF FilterInv
  <2>3. i \in 1 .. Len(log) BY <2>1 DEF IsOut
  <2>4. log[i].seq \notin tomb
    <3> SUFFICES ASSUME log[i].seq \in tomb PROVE FALSE OBVIOUS
    <3>1. PICK j \in 1 .. pos - 1 : log[j].op = "in" /\ log[j].seq = log[i].seq
      BY <1>2 DEF Reading
    <3>2. j \in 1 .. Len(log)
      <4>1. pos <= Len(log) + 1 BY <1>2 DEF Reading
      <4>2. pos \in Nat /\ log \in Seq(Record) BY DEF TypeOK
      <4>3. Len(log) \in Nat BY <4>2, LenProperties
      <4> QED BY SMT, <3>1, <4>1, <4>2, <4>3
    <3> QED BY <1>2, <2>1, <2>3, <3>1, <3>2 DEF Good, Accounts, IsIn
  <2>5. log[i].key \in Keys BY <1>2, <2>1, <2>3 DEF Good, WellFormed
  <2> QED BY SMT, <1>1, <1>2, <2>1, <2>2, <2>4, <2>5 DEF FilterInv
<1>4. MemoryInv' BY <1>1, <1>2, MemoryFrame
<1>5. OpenInv' BY SMT, <1>1, <1>3, <1>4 DEF OpenInv
<1> QED BY <1>1, <1>5, ReplayFrame DEF StoreInv

LEMMA ReplayEntrySafe ==
  ASSUME TypeOK, StoreInv, ReplayEntry PROVE StoreInv'
<1>1. /\ phase = "filter" /\ phase' = "filter" /\ UNCHANGED <<disk, holder, history>>
      /\ UNCHANGED <<log, pos, tomb, delivered>> /\ entries' = Tail(entries) /\ entries # <<>>
  BY SMTT(30) DEF ReplayEntry, disk, history
<1>2. FilterInv /\ Reading /\ MemoryInv /\ Good(log, Safe) BY <1>1 DEF StoreInv, FilterInv
<1> DEFINE e == Head(entries)
           N == Len(entries)
<1>3. /\ entries \in Seq(OutRecord) /\ N \in Nat /\ N # 0 /\ e = entries[1] /\ e \in OutRecord
      /\ Len(entries') = N - 1 /\ \A n \in 1 .. Len(entries') : entries'[n] = entries[n + 1]
  BY SMTT(30), <1>1, HeadTailProperties, EmptySeq, LenProperties DEF TypeOK
<1>4. data' = IF e.seq \in tomb THEN data
              ELSE [data EXCEPT ![e.key] = Append(@, [seq |-> e.seq, val |-> e.val])]
  BY DEF ReplayEntry
<1> HIDE DEF e, N
<1>5. \A n \in 1 .. Len(entries') : n + 1 \in 1 .. N /\ n + 1 # 1 /\ entries'[n] = entries[n + 1]
  BY SMT, <1>3
<1>6. \A n \in 1 .. N : n # 1 => n - 1 \in 1 .. Len(entries') /\ entries'[n - 1] = entries[n]
  BY SMT, <1>3
<1>7. 1 \in 1 .. N /\ entries[1] = e BY SMT, <1>3
<1>8. e.key \in Keys /\ e.val \in Msgs /\ e.seq \in Nat /\ e = Out(e.seq, e.key, e.val)
  BY <1>3 DEF OutRecord, Out
<1>9. PICK i0 \in 1 .. pos - 1 : IsOut(log, i0) /\ log[i0] = e
  BY <1>2, <1>7 DEF Reading, N
<1>10. i0 \in 1 .. Len(log) BY <1>9 DEF IsOut
<1>11. \A a, b \in 1 .. N : entries[a].seq = entries[b].seq => a = b BY SMTT(30), <1>2 DEF Reading, N
<1>12. Reading'
  <2>1. \A n \in 1 .. N : \E i \in 1 .. pos - 1 : IsOut(log, i) /\ log[i] = entries[n]
    BY SMTT(30), <1>2 DEF Reading, N
  <2>2. \A n \in 1 .. Len(entries') : \E i \in 1 .. pos - 1 : IsOut(log, i) /\ log[i] = entries'[n]
    BY <1>5, <2>1
  <2>3. ASSUME NEW a \in 1 .. Len(entries'), NEW b \in 1 .. Len(entries'),
               entries'[a].seq = entries'[b].seq
        PROVE  a = b
    <3>1. a + 1 = b + 1 BY SMT, <1>5, <1>11, <2>3
    <3> QED BY SMT, <3>1
  <2> QED BY SMTT(30), <1>1, <1>2, <2>2, <2>3 DEF Reading, IsOut
<1>13. CASE e.seq \in tomb
  <2>1. data' = data BY <1>4, <1>13
  <2>2. MemoryInv' BY SMTT(30), <1>1, <1>2, <2>1, MemoryFrame
  <2>3. \A n \in 1 .. Len(entries'), k \in Keys :
          \A i \in 1 .. Len(data[k]) : entries'[n].seq # data[k][i].seq
    BY SMTT(30), <1>2, <1>5 DEF FilterInv, N
  <2>4. ASSUME NEW i \in 1 .. pos - 1, IsOut(log, i)
        PROVE  \/ log[i].seq \in tomb
               \/ \E n \in 1 .. Len(entries') : entries'[n] = log[i]
               \/ \E n \in 1 .. Len(data[log[i].key]) : data[log[i].key][n].val = log[i].val
    <3>1. CASE \E n \in 1 .. N : entries[n] = log[i] BY SMTT(30), <1>6, <1>7, <1>13, <3>1
    <3> QED BY <1>2, <2>4, <3>1 DEF FilterInv, N
  <2>5. UNCHANGED <<log, pos, tomb>> /\ (pos <= Len(log) => log[pos].op = "torn")
    BY <1>1, <1>2 DEF FilterInv
  <2>6. FilterInv' BY <1>12, <2>1, <2>2, <2>3, <2>4, <2>5 DEF FilterInv, IsOut
  <2> QED BY <1>1, <2>6, ReplayFrame DEF StoreInv
<1>14. CASE e.seq \notin tomb
  <2> DEFINE d == [seq |-> e.seq, val |-> e.val]
             D == Len(data[e.key])
  <2>1. d \in Entry /\ d.seq = e.seq /\ d.val = e.val BY <1>8 DEF Entry
  <2>2. data' = [data EXCEPT ![e.key] = Append(@, d)] BY <1>4, <1>14
  <2> HIDE DEF d
  <2>3. data \in [Keys -> Seq(Entry)] BY DEF TypeOK
  <2>4. \A k \in Keys : k # e.key => data'[k] = data[k] BY SMTT(30), <2>2, <2>3
  <2>5. /\ D \in Nat /\ Len(data'[e.key]) = D + 1 /\ data'[e.key][D + 1] = d
        /\ \A n \in 1 .. D : data'[e.key][n] = data[e.key][n]
    <3>1. data[e.key] \in Seq(Entry) /\ data'[e.key] = Append(data[e.key], d)
      BY <1>8, <2>2, <2>3
    <3> QED BY SMT, <2>1, <3>1, AppendProperties, LenProperties
  <2>6. \A k \in Keys : \A n \in 1 .. Len(data'[k]) :
          \/ n \in 1 .. Len(data[k]) /\ data'[k][n] = data[k][n]
          \/ k = e.key /\ n = D + 1 /\ data'[k][n] = d
    <3>1. \A n \in 1 .. Len(data'[e.key]) : n \in 1 .. D \/ n = D + 1 BY SMT, <2>5
    <3> QED BY SMTT(30), <2>4, <2>5, <3>1
  <2>7. \A k \in Keys : \A n \in 1 .. Len(data[k]) :
          n \in 1 .. Len(data'[k]) /\ data'[k][n] = data[k][n]
    BY SMTT(30), <2>4, <2>5
  <2>8. D + 1 \in 1 .. Len(data'[e.key]) /\ data'[e.key][D + 1] = d BY SMT, <2>5
  <2> HIDE DEF D
  <2>9. e.val \notin delivered
    <3> SUFFICES ASSUME e.val \in delivered PROVE FALSE OBVIOUS
    <3>1. PICK j \in 1 .. Safe : IsIn(log, j) /\ log[j].seq = log[i0].seq
      BY SMTT(30), <1>2, <1>9, <1>10 DEF Good, Accounts
    <3>2. j \in 1 .. pos - 1 BY SMTT(30), <1>2, <3>1, AllRead DEF FilterInv
    <3> QED BY <1>2, <1>9, <1>14, <3>1, <3>2 DEF Reading, IsIn
  <2>10. \A k \in Keys : \A n \in 1 .. Len(data[k]) : data[k][n].seq # d.seq
    BY <1>2, <1>7, <2>1 DEF FilterInv, N
  <2>11. MemoryInv'
    <3>1. ASSUME NEW k \in Keys, NEW n \in 1 .. Len(data'[k])
          PROVE  /\ \E i \in 1 .. Len(log) : log[i] = Out(data'[k][n].seq, k, data'[k][n].val)
                 /\ data'[k][n].val \notin delivered
      <4>1. CASE n \in 1 .. Len(data[k]) /\ data'[k][n] = data[k][n]
        BY SMT, <1>2, <4>1 DEF MemoryInv
      <4>2. CASE k = e.key /\ data'[k][n] = d
        BY <1>8, <1>9, <1>10, <2>1, <2>9, <4>2
      <4> QED BY SMTT(30), <2>6, <3>1, <4>1, <4>2
    <3>2. ASSUME NEW x \in Keys, NEW y \in Keys, NEW n1 \in 1 .. Len(data'[x]),
                 NEW n2 \in 1 .. Len(data'[y]), data'[x][n1].seq = data'[y][n2].seq
          PROVE  x = y /\ n1 = n2
      <4>1. CASE n1 \in 1 .. Len(data[x]) /\ data'[x][n1] = data[x][n1]
        <5>1. n2 \in 1 .. Len(data[y]) /\ data'[y][n2] = data[y][n2]
          BY SMT, <2>6, <2>10, <3>2, <4>1
        <5> QED BY SMTT(30), <1>2, <3>2, <4>1, <5>1 DEF MemoryInv
      <4>2. CASE x = e.key /\ n1 = D + 1 /\ data'[x][n1] = d
        <5>1. y = e.key /\ n2 = D + 1 BY SMT, <2>6, <2>10, <3>2, <4>2
        <5> QED BY <4>2, <5>1
      <4> QED BY SMTT(30), <2>6, <4>1, <4>2
    <3> QED BY <1>1, <3>1, <3>2 DEF MemoryInv
  <2>12. ASSUME NEW n \in 1 .. Len(entries'), NEW k \in Keys, NEW i \in 1 .. Len(data'[k])
         PROVE  entries'[n].seq # data'[k][i].seq
    <3>1. n + 1 \in 1 .. N /\ n + 1 # 1 /\ entries'[n] = entries[n + 1] BY <1>5
    <3>2. entries[n + 1].seq # e.seq BY SMTT(30), <1>7, <1>11, <3>1
    <3>3. CASE i \in 1 .. Len(data[k]) /\ data'[k][i] = data[k][i]
      BY <1>2, <3>1, <3>3 DEF FilterInv, N
    <3>4. CASE data'[k][i] = d BY SMTT(30), <2>1, <3>1, <3>2, <3>4
    <3> QED BY <2>6, <3>3, <3>4
  <2>13. ASSUME NEW i \in 1 .. pos - 1, IsOut(log, i)
         PROVE  \/ log[i].seq \in tomb
                \/ \E n \in 1 .. Len(entries') : entries'[n] = log[i]
                \/ \E n \in 1 .. Len(data'[log[i].key]) : data'[log[i].key][n].val = log[i].val
    <3>0. \/ log[i].seq \in tomb
          \/ \E n \in 1 .. N : entries[n] = log[i]
          \/ \E n \in 1 .. Len(data[log[i].key]) : data[log[i].key][n].val = log[i].val
      BY ZenonT(30), <1>2, <2>13 DEF FilterInv, N
    <3>1. CASE \E n \in 1 .. N : n # 1 /\ entries[n] = log[i] BY <1>6, <3>1
    <3>2. CASE e = log[i] BY SMTT(30), <2>1, <2>8, <3>2
    <3>3. CASE \E n \in 1 .. Len(data[log[i].key]) : data[log[i].key][n].val = log[i].val
      <4>1. log[i].key \in Keys BY SMTT(30), <1>2, <2>13 DEF Good, WellFormed, IsOut
      <4> QED BY SMTT(30), <2>7, <3>3, <4>1
    <3> QED BY ZenonT(30), <1>7, <3>0, <3>1, <3>2, <3>3
  <2>14. FilterInv' BY <1>1, <1>2, <1>12, <2>11, <2>12, <2>13 DEF FilterInv, IsOut
  <2> QED BY <1>1, <2>14, ReplayFrame DEF StoreInv
<1> QED BY <1>13, <1>14

-----------------------------------------------------------------------------
(* Steps that change neither the log nor the queues.                       *)

\* A call ends, or the store closes.
LEMMA QuietSafe ==
  ASSUME StoreInv, phase = "open", phase' \in {"open", "closed"}, at' = "idle", stale' \subseteq stale,
         UNCHANGED <<log, durable, data, pushed, acked, taken, delivered>>
  PROVE  StoreInv'
<1>1. Good(log, Safe)' BY LogFrame DEF StoreInv
<1>2. ("power" \in Faults => \A l \in stale : Good(l, Len(l)))' BY StaleFrame DEF StoreInv
<1>3. OpenInv' BY OpenFrame DEF StoreInv
<1>4. (delivered \subseteq taken /\ acked \subseteq pushed /\ taken \subseteq pushed)' BY DEF StoreInv
<1> QED BY <1>1, <1>2, <1>3, <1>4 DEF StoreInv

\* A puller other than the holder of s.mu comes or goes.
LEMMA PullerSafe ==
  ASSUME StoreInv, at = "sync" /\ rec.op = "in" => want'[who] = want[who],
         UNCHANGED <<disk, phase, reader, memory, holder, history>>
  PROVE  StoreInv'
<1> USE DEF disk, reader, memory, holder, history
<1>1. Good(log, Safe)' BY LogFrame DEF StoreInv
<1>2. ("power" \in Faults => \A l \in stale : Good(l, Len(l)))' BY StaleFrame DEF StoreInv
<1>3. Reading => Reading' BY SMT DEF Reading, IsOut
<1>4. MemoryInv => MemoryInv' BY SMT DEF MemoryInv
<1>5. ReplayInv => ReplayInv' BY <1>3 DEF ReplayInv, IsOut
<1>6. FilterInv => FilterInv' BY SMT, <1>3, <1>4 DEF FilterInv, IsOut
<1>7. OpenInv => OpenInv' BY SMT, <1>4 DEF OpenInv
<1>8. CompactInv => CompactInv' BY SMT DEF CompactInv
<1>9. at = "sync" /\ SyncInv => SyncInv' BY DEF SyncInv
<1> QED BY <1>1, <1>2, <1>5, <1>6, <1>7, <1>8, <1>9 DEF StoreInv

LEMMA HolderQuiet ==
  ASSUME TypeOK, StoreInv,
         SyncFailed \/ CompactAbort \/ CompactSwapFailed \/ CompactSyncDir \/ Close
  PROVE  StoreInv'
<1>1. CASE SyncFailed
  BY <1>1, QuietSafe DEF SyncFailed, release, disk, memory, TypeOK
<1>2. CASE CompactAbort
  BY <1>2, QuietSafe DEF CompactAbort, CompactReturn, disk, memory, history, TypeOK
<1>3. CASE CompactSwapFailed
  BY <1>3, QuietSafe DEF CompactSwapFailed, CompactReturn, disk, history, TypeOK
<1>4. CASE CompactSyncDir
  <2>1. stale' \subseteq stale BY <1>4, Zenon DEF CompactSyncDir
  <2>2. phase = "open" BY <1>4 DEF CompactSyncDir, TypeOK
  <2> QED BY <1>4, <2>1, <2>2, QuietSafe DEF CompactSyncDir, CompactReturn, history
<1>5. CASE Close
  BY <1>5, QuietSafe DEF Close, Unlocked, disk, holder, history
<1> QED BY <1>1, <1>2, <1>3, <1>4, <1>5

LEMMA PullerQuiet ==
  ASSUME TypeOK, StoreInv, NEW p \in Pullers,
         \/ PullWait(p) \/ PullCancel(p) \/ PullClosed(p)
         \/ \E k \in Keys : PullCall(p, k)
  PROVE  StoreInv'
<1>1. CASE \E k \in Keys : PullCall(p, k)
  <2>1. PICK k \in Keys : PullCall(p, k) BY <1>1
  <2>2. at = "sync" /\ rec.op = "in" => want'[who] = want[who]
    <3>1. at = "sync" /\ rec.op = "in" => who # p
      BY <2>1, ConstantsAssumption DEF PullCall, StoreInv, SyncInv
    <3> QED BY SMTT(30), <2>1, <3>1 DEF PullCall, TypeOK
  <2> QED BY <2>1, <2>2, PullerSafe DEF PullCall
<1>2. CASE PullWait(p)
  BY <1>2, QuietSafe DEF PullWait, Unlocked, disk, memory, holder, history
<1>3. CASE PullCancel(p)
  <2>1. at = "sync" /\ rec.op = "in" => want'[who] = want[who]
    <3>1. at = "sync" /\ rec.op = "in" => who # p
      BY <1>3 DEF PullCancel, TypeOK, OutRecord
    <3> QED BY SMTT(30), <1>3, <3>1 DEF PullCancel, TypeOK
  <2> QED BY <1>3, <2>1, PullerSafe DEF PullCancel
<1>4. CASE PullClosed(p)
  <2>1. at # "sync" BY <1>4 DEF PullClosed, TypeOK
  <2> QED BY <1>4, <2>1, PullerSafe DEF PullClosed
<1> QED BY <1>1, <1>2, <1>3, <1>4

-----------------------------------------------------------------------------
(* Compact.                                                                *)

LEMMA CompactFrame ==
  ASSUME TypeOK, StoreInv, at' = "tmp", CompactInv', at \in {"idle", "tmp"}, phase = "open",
         UNCHANGED <<disk, phase, memory, history>>
  PROVE  StoreInv'
<1> USE DEF disk, memory, history
<1>1. Good(log, Safe)' BY LogFrame DEF StoreInv
<1>2. ("power" \in Faults => \A l \in stale : Good(l, Len(l)))' BY StaleFrame DEF StoreInv
<1>3. OpenInv' BY OpenFrame DEF StoreInv
<1>4. (delivered \subseteq taken /\ acked \subseteq pushed /\ taken \subseteq pushed)' BY DEF StoreInv
<1> QED BY <1>1, <1>2, <1>3, <1>4 DEF StoreInv

LEMMA CompactBeginSafe ==
  ASSUME TypeOK, StoreInv, CompactBegin PROVE StoreInv'
<1>1. tmp' = <<>> /\ todo' = Keys /\ Len(<<>>) = 0 BY EmptySeq DEF CompactBegin
<1>2. CompactInv' BY SMT, <1>1 DEF CompactInv
<1> QED BY <1>2, CompactFrame DEF CompactBegin, Unlocked

LEMMA CompactKeySafe ==
  ASSUME TypeOK, StoreInv, NEW k \in Keys, CompactKey(k) PROVE StoreInv'
<1>1. phase = "open" BY DEF CompactKey, TypeOK
<1>2. CompactInv /\ MemoryInv BY <1>1 DEF CompactKey, StoreInv, OpenInv
<1> DEFINE Q == [i \in 1 .. Len(data[k]) |-> Out(data[k][i].seq, k, data[k][i].val)]
           T == Len(tmp)
           D == Len(data[k])
<1>3. data[k] \in Seq(Entry) /\ D \in Nat /\ T \in Nat /\ tmp \in Seq(OutRecord)
  BY LenProperties DEF TypeOK
<1>4. \A i \in 1 .. D : Q[i] \in OutRecord /\ Q[i] = Out(data[k][i].seq, k, data[k][i].val)
  <2>1. ASSUME NEW i \in 1 .. D
        PROVE  Q[i] \in OutRecord /\ Q[i] = Out(data[k][i].seq, k, data[k][i].val)
    <3>1. data[k][i] \in Entry BY <1>3, ElementOfSeq
    <3> QED BY <3>1, MadeRecords DEF Entry
  <2> QED BY <2>1
<1>5. Q \in Seq(OutRecord) /\ Len(Q) = D
  <2>1. Q \in [1 .. D -> OutRecord] BY ZenonT(30), <1>4
  <2> QED BY SMT, <1>3, <2>1, SeqDef, LenProperties
<1>6. tmp' = tmp \o Q /\ todo' = todo \ {k} /\ k \in todo /\ at = "tmp" /\ at' = at
      /\ UNCHANGED <<disk, phase, memory, history>>
  BY DEF CompactKey
<1> HIDE DEF Q
<1>7. /\ Len(tmp') = T + D
      /\ \A i \in 1 .. Len(tmp') : tmp'[i] = IF i <= T THEN tmp[i] ELSE Q[i - T]
  <2>1. /\ Len(tmp \o Q) = Len(tmp) + Len(Q)
        /\ \A i \in 1 .. Len(tmp) + Len(Q) :
             (tmp \o Q)[i] = IF i <= Len(tmp) THEN tmp[i] ELSE Q[i - Len(tmp)]
    BY ZenonT(30), <1>3, <1>5, ConcatProperties
  <2> QED BY <1>5, <1>6, <2>1
<1> HIDE DEF T, D
<1>8. \A i \in 1 .. Len(tmp') :
        \/ i \in 1 .. T /\ tmp'[i] = tmp[i]
        \/ i - T \in 1 .. D /\ tmp'[i] = Out(data[k][i - T].seq, k, data[k][i - T].val)
  <2>1. Len(tmp') = T + D BY <1>7
  <2>2. \A i \in 1 .. Len(tmp') : (i \in 1 .. T /\ i <= T) \/ (i - T \in 1 .. D /\ ~(i <= T))
    <3>1. D \in Nat /\ T \in Nat BY <1>3
    <3> QED BY SMT, <2>1, <3>1
  <2>3. ASSUME NEW i \in 1 .. Len(tmp'), i - T \in 1 .. D, ~(i <= T)
        PROVE  tmp'[i] = Out(data[k][i - T].seq, k, data[k][i - T].val)
    BY <1>4, <1>7, <2>3
  <2>4. \A i \in 1 .. Len(tmp') : i <= T => tmp'[i] = tmp[i] BY <1>7
  <2> QED BY <2>2, <2>3, <2>4
<1>9. /\ \A i \in 1 .. T : i \in 1 .. Len(tmp') /\ tmp'[i] = tmp[i]
      /\ \A n \in 1 .. D : T + n \in 1 .. Len(tmp')
                           /\ tmp'[T + n] = Out(data[k][n].seq, k, data[k][n].val)
  <2>1. \A i \in 1 .. T : i \in 1 .. Len(tmp') /\ tmp'[i] = tmp[i] BY SMTT(30), <1>3, <1>7
  <2>2. ASSUME NEW n \in 1 .. D
        PROVE  T + n \in 1 .. Len(tmp') /\ tmp'[T + n] = Out(data[k][n].seq, k, data[k][n].val)
    <3> DEFINE j == T + n
    <3>1. j \in 1 .. Len(tmp') /\ ~(j <= T) /\ j - T = n BY SMTT(30), <1>3, <1>7
    <3> HIDE DEF j
    <3>2. tmp'[j] = Q[n] BY <1>7, <3>1
    <3>3. tmp'[j] = Out(data[k][n].seq, k, data[k][n].val) BY ZenonT(30), <1>4, <3>2
    <3> QED BY <3>1, <3>3 DEF j
  <2> QED BY <2>1, <2>2
\* Where a record of tmp' comes from.
<1>10. ASSUME NEW i \in 1 .. Len(tmp')
       PROVE  \E x \in Keys \ todo' : \E n \in 1 .. Len(data[x]) :
                /\ tmp'[i] = Out(data[x][n].seq, x, data[x][n].val)
                /\ (x = k /\ i = T + n) \/ (x # k /\ i \in 1 .. T)
  <2>1. CASE i \in 1 .. T /\ tmp'[i] = tmp[i]
    <3>1. PICK x \in Keys \ todo : \E n \in 1 .. Len(data[x]) :
                tmp[i] = Out(data[x][n].seq, x, data[x][n].val)
      BY ZenonT(30), <1>2, <2>1 DEF CompactInv, T
    <3> QED BY <1>6, <2>1, <3>1
  <2>2. CASE i - T \in 1 .. D /\ tmp'[i] = Out(data[k][i - T].seq, k, data[k][i - T].val)
    <3>1. i = T + (i - T) BY SMT, <1>3, <1>7
    <3> QED BY <1>6, <2>2, <3>1 DEF D
  <2> QED BY <1>8, <2>1, <2>2
<1>11. ASSUME NEW i \in 1 .. Len(tmp'), NEW j \in 1 .. Len(tmp'), tmp'[i].seq = tmp'[j].seq
       PROVE  i = j
  <2>1. PICK x \in Keys \ todo' : \E n \in 1 .. Len(data[x]) :
               /\ tmp'[i] = Out(data[x][n].seq, x, data[x][n].val)
               /\ (x = k /\ i = T + n) \/ (x # k /\ i \in 1 .. T)
    BY <1>10
  <2>2. PICK n \in 1 .. Len(data[x]) :
               /\ tmp'[i] = Out(data[x][n].seq, x, data[x][n].val)
               /\ (x = k /\ i = T + n) \/ (x # k /\ i \in 1 .. T)
    BY <2>1
  <2>3. PICK y \in Keys \ todo' : \E m \in 1 .. Len(data[y]) :
               /\ tmp'[j] = Out(data[y][m].seq, y, data[y][m].val)
               /\ (y = k /\ j = T + m) \/ (y # k /\ j \in 1 .. T)
    BY <1>10
  <2>4. PICK m \in 1 .. Len(data[y]) :
               /\ tmp'[j] = Out(data[y][m].seq, y, data[y][m].val)
               /\ (y = k /\ j = T + m) \/ (y # k /\ j \in 1 .. T)
    BY <2>3
  <2>5. data[x][n].seq = data[y][m].seq BY SMTT(30), <1>11, <2>2, <2>4 DEF Out
  <2>6. x = y /\ n = m BY SMTT(30), <1>2, <2>5 DEF MemoryInv
  <2>7. CASE x = k BY <2>2, <2>4, <2>6, <2>7
  <2>8. CASE x # k
    <3>1. i \in 1 .. T /\ j \in 1 .. T BY <2>2, <2>4, <2>6, <2>8
    <3>2. tmp[i].seq = tmp[j].seq BY <1>9, <1>11, <3>1
    <3> QED BY <1>2, <3>1, <3>2 DEF CompactInv, T
  <2> QED BY <2>7, <2>8
<1>12. ASSUME NEW x \in Keys \ todo', NEW n \in 1 .. Len(data[x])
       PROVE  \E i \in 1 .. Len(tmp') : tmp'[i] = Out(data[x][n].seq, x, data[x][n].val)
  <2>1. CASE x = k BY <1>9, <2>1 DEF D
  <2>2. CASE x # k
    <3>1. PICK i \in 1 .. T : tmp[i] = Out(data[x][n].seq, x, data[x][n].val)
      BY <1>2, <1>6, <2>2 DEF CompactInv, T
    <3> QED BY <1>9, <3>1
  <2> QED BY <2>1, <2>2
<1>13. data' = data BY <1>6 DEF memory
<1>14. CompactInv'
  <2>1. \A i \in 1 .. Len(tmp') : \E x \in Keys \ todo' : \E n \in 1 .. Len(data'[x]) :
          tmp'[i] = Out(data'[x][n].seq, x, data'[x][n].val)
    BY <1>10, <1>13
  <2>2. \A x \in Keys \ todo' : \A n \in 1 .. Len(data'[x]) :
          \E i \in 1 .. Len(tmp') : tmp'[i] = Out(data'[x][n].seq, x, data'[x][n].val)
    BY <1>12, <1>13
  <2> QED BY <1>11, <2>1, <2>2 DEF CompactInv
<1> QED BY <1>1, <1>6, <1>14, CompactFrame

LEMMA CompactRenameSafe ==
  ASSUME TypeOK, StoreInv, CompactRename PROVE StoreInv'
<1>1. phase = "open" /\ at = "tmp" /\ todo = {} BY DEF CompactRename, TypeOK
<1>2. CompactInv /\ OpenInv /\ MemoryInv /\ Good(log, Safe)
  BY <1>1 DEF StoreInv, OpenInv
<1>3. /\ log' = tmp /\ durable' = Len(tmp) /\ at' = "renamed" /\ phase' = "open"
      /\ UNCHANGED <<data, pushed, acked, taken, delivered>>
      /\ stale' = stale \cup Kept(log, durable) \cup Cut(log, durable)
  BY <1>1 DEF CompactRename, history
<1>4. Safe' = Len(tmp) BY <1>3 DEF Safe
<1>5. \A i : ~IsIn(tmp, i) /\ (i \in 1 .. Len(tmp) => tmp[i].op = "out" /\ IsOut(tmp, i))
  <2>1. \A i \in 1 .. Len(tmp) : tmp[i].op = "out"
    <3>1. \A i \in 1 .. Len(tmp) : tmp[i] \in OutRecord BY ElementOfSeq DEF TypeOK
    <3> QED BY <3>1 DEF OutRecord
  <2> QED BY <2>1 DEF IsIn, IsOut
\* Where a record of tmp comes from, and where it was in the old log.
<1>6. ASSUME NEW i \in 1 .. Len(tmp)
      PROVE  /\ tmp[i].key \in Keys
             /\ tmp[i].val \notin delivered
             /\ \E j \in 1 .. Len(log) : IsOut(log, j) /\ log[j].seq = tmp[i].seq
                                         /\ log[j].val = tmp[i].val
  <2>1. PICK x \in Keys : \E n \in 1 .. Len(data[x]) :
              tmp[i] = Out(data[x][n].seq, x, data[x][n].val)
    BY ZenonT(30), <1>2 DEF CompactInv
  <2>2. PICK n \in 1 .. Len(data[x]) : tmp[i] = Out(data[x][n].seq, x, data[x][n].val)
    BY <2>1
  <2>3. /\ data[x][n].val \notin delivered
        /\ \E j \in 1 .. Len(log) : log[j] = Out(data[x][n].seq, x, data[x][n].val)
    BY <1>2 DEF MemoryInv
  <2> QED BY SMT, <2>2, <2>3 DEF Out, IsOut
<1>7. WellFormed(log)'
  <2>1. \A i \in 1 .. Len(tmp) : tmp[i].op # "torn" BY <1>5
  <2>2. \A i, j \in 1 .. Len(tmp) :
          (tmp[i].seq = tmp[j].seq \/ tmp[i].val = tmp[j].val) => i = j
    <3> TAKE i, j \in 1 .. Len(tmp)
    <3>1. CASE tmp[i].seq = tmp[j].seq BY <1>2, <3>1 DEF CompactInv
    <3>2. CASE tmp[i].val = tmp[j].val
      <4>1. PICK a \in 1 .. Len(log) :
              IsOut(log, a) /\ log[a].seq = tmp[i].seq /\ log[a].val = tmp[i].val
        BY <1>6
      <4>2. PICK b \in 1 .. Len(log) :
              IsOut(log, b) /\ log[b].seq = tmp[j].seq /\ log[b].val = tmp[j].val
        BY <1>6
      <4>3. a = b BY <1>2, <3>2, <4>1, <4>2 DEF Good, WellFormed
      <4> QED BY <1>2, <4>1, <4>2, <4>3 DEF CompactInv
    <3> QED BY <3>1, <3>2
  <2>3. \A i \in 1 .. Len(tmp) : tmp[i].key \in Keys /\ tmp[i].val \in pushed
    BY <1>2, <1>6 DEF Good, WellFormed
  <2> QED BY <1>3, <1>5, <2>1, <2>2, <2>3 DEF WellFormed
<1>8. Accounts(log, Safe)'
  <2>1. \A m \in acked \ taken : \E i \in 1 .. Len(tmp) : tmp[i].val = m
    <3> TAKE m \in acked \ taken
    <3>1. PICK x \in Keys : \E n \in 1 .. Len(data[x]) : data[x][n].val = m
      BY <1>2 DEF OpenInv
    <3>2. PICK n \in 1 .. Len(data[x]) : data[x][n].val = m BY <3>1
    <3>3. PICK i \in 1 .. Len(tmp) : tmp[i] = Out(data[x][n].seq, x, data[x][n].val)
      BY <1>1, <1>2 DEF CompactInv
    <3> QED BY SMT, <3>2, <3>3 DEF Out
  <2> QED BY <1>3, <1>4, <1>5, <1>6, <2>1 DEF Accounts
<1>9. ("power" \in Faults => \A l \in stale : Good(l, Len(l)))'
  <2> SUFFICES ASSUME "power" \in Faults, NEW l \in stale' PROVE Good(l, Len(l))'
    OBVIOUS
  <2>1. Good(l, Len(l)) BY <1>2, <1>3, GoodDisk DEF StoreInv
  <2>2. WellFormed(l)' BY <1>3, <2>1 DEF Good, WellFormed, IsOut, IsIn
  <2>3. Accounts(l, Len(l))' BY <1>3, <2>1 DEF Good, Accounts, IsOut, IsIn
  <2> QED BY <2>2, <2>3 DEF Good
<1>10. MemoryInv'
  <2>1. \A x \in Keys : \A n \in 1 .. Len(data[x]) :
          \E i \in 1 .. Len(tmp) : tmp[i] = Out(data[x][n].seq, x, data[x][n].val)
    BY <1>1, <1>2 DEF CompactInv
  <2> QED BY SMT, <1>2, <1>3, <2>1 DEF MemoryInv
<1>11. OpenInv' BY SMT, <1>2, <1>3, <1>10 DEF OpenInv
<1>12. (delivered \subseteq taken /\ acked \subseteq pushed /\ taken \subseteq pushed)'
  BY <1>3 DEF StoreInv
<1> QED BY <1>3, <1>7, <1>8, <1>9, <1>11, <1>12 DEF StoreInv, Good

-----------------------------------------------------------------------------
(* The invariant, and the theorems.                                        *)

LEMMA InvInit == Init => IInv
<1> SUFFICES ASSUME Init PROVE StoreInv BY DEF IInv
<1>1. /\ log = <<>> /\ Len(log) = 0 /\ stale = {} /\ phase = "down" /\ at = "idle"
      /\ data = [k \in Keys |-> <<>>]
  BY EmptySeq DEF Init
<1>2. pushed = {} /\ acked = {} /\ taken = {} /\ delivered = {} BY SMTT(30) DEF Init
<1>3. Good(log, Safe) BY SMT, <1>1, <1>2 DEF Good, WellFormed, Accounts, IsOut, IsIn
<1> QED BY <1>1, <1>2, <1>3 DEF StoreInv

\* Once exposed, always.
LEMMA ExposedGrows == [Next]_vars /\ exposed => exposed'
<1> SUFFICES ASSUME [Next]_vars, exposed PROVE exposed'
  OBVIOUS
<1> USE DEF history, Written, WriteFailed, takeHead
<1>1. CASE UNCHANGED vars BY <1>1, Zenon DEF vars
<1>2. CASE Open \/ Replay \/ Close \/ Crash
  BY <1>2, Zenon DEF Open, Replay, ReplayRecord, ReplayStop, ReplayCorrupt, ReplayEntry, ReplayDone,
                    Close, Crash
<1>3. CASE AppendDone \/ SyncFailed BY <1>3, Zenon DEF AppendDone, SyncFailed
<1>4. CASE \E k \in Keys, m \in Msgs : Push(k, m) BY <1>4, Zenon DEF Push
<1>5. CASE \E p \in Pullers : Puller(p)
  BY <1>5, Zenon DEF Puller, PullTake, PullWait, PullCancel, PullClosed, PullCall, Pullp
<1>6. CASE Compact
  BY <1>6, Zenon DEF Compact, CompactBegin, CompactKey, CompactAbort, CompactSwapFailed,
                    CompactRename, CompactSyncDir
<1> QED BY <1>1, <1>2, <1>3, <1>4, <1>5, <1>6 DEF Next

LEMMA InvStep ==
  ASSUME Sync \/ "power" \notin Faults, TypeOK, IInv, [Next]_vars PROVE IInv'
<1> SUFFICES ASSUME ~exposed' PROVE StoreInv' BY DEF IInv
<1>1. StoreInv BY ExposedGrows DEF IInv
<1>2. CASE UNCHANGED vars
  <2>1. UNCHANGED <<disk, phase, reader, memory, holder, history>> /\ want' = want
    BY <1>2 DEF vars, pulls
  <2> QED BY <1>1, <2>1, PullerSafe
<1>3. CASE Open BY <1>1, <1>3, OpenSafe
<1>4. CASE Replay
  BY <1>1, <1>4, ReplayRecordSafe, ReplayStopSafe, ReplayEntrySafe, ReplayDoneSafe DEF Replay
<1>5. CASE \E k \in Keys, m \in Msgs : Push(k, m) BY <1>1, <1>5, PushSafe
<1>6. CASE AppendDone BY <1>1, <1>6, PushDoneSafe, TakeDoneSafe
<1>7. CASE SyncFailed BY <1>1, <1>7, HolderQuiet
<1>8. CASE \E p \in Pullers : Puller(p)
  <2>1. PICK p \in Pullers : Puller(p) BY <1>8
  <2>2. CASE PullTake(p)
    <3>1. want[p] \in Keys BY <2>2 DEF PullTake, TypeOK
    <3> QED BY <1>1, <2>2, <3>1, TakeSafe DEF PullTake
  <2>3. CASE \E k \in Keys : Pullp(p, k) BY <1>1, <2>3, TakeSafe DEF Pullp
  <2>4. CASE \/ PullWait(p) \/ PullCancel(p) \/ PullClosed(p)
             \/ \E k \in Keys : PullCall(p, k)
    BY <1>1, <2>4, PullerQuiet
  <2> QED BY <2>1, <2>2, <2>3, <2>4 DEF Puller
<1>9. CASE Compact
  BY <1>1, <1>9, CompactBeginSafe, CompactKeySafe, CompactRenameSafe, HolderQuiet DEF Compact
<1>10. CASE Close BY <1>1, <1>10, HolderQuiet
<1>11. CASE Crash BY <1>1, <1>11, CrashSafely
<1> QED BY <1>2, <1>3, <1>4, <1>5, <1>6, <1>7, <1>8, <1>9, <1>10, <1>11 DEF Next

\* With WithSync, or when the machine does not lose power, Store keeps its
\* invariant up to the first append that Exposing describes.
THEOREM Invariance ==
  ASSUME Sync \/ "power" \notin Faults PROVE Spec => []IInv
<1>1. Init => IInv BY InvInit
<1>2. TypeOK /\ IInv /\ [Next]_vars => IInv' BY InvStep
<1> QED BY <1>1, <1>2, TypeCorrect, PTL DEF Spec

\* Every payload whose Push returned nil and whose tombstone was never written
\* is rebuilt from every contents a crash may leave: Push, takeHead, Compact and
\* replay lose nothing.
THEOREM NothingLost ==
  ASSUME Sync \/ "power" \notin Faults PROVE Spec => []NoLoss
BY Invariance, TypeCorrect, InvImplies, PTL

\* A payload that Pull or Pullp returned never comes back, from a crash, from
\* Compact or from replay.
THEOREM NothingResurrected ==
  ASSUME Sync \/ "power" \notin Faults PROVE Spec => []NoResurrection
BY Invariance, TypeCorrect, InvImplies, PTL
=============================================================================
