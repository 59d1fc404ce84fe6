---------------------------- MODULE MessageProofs ----------------------------
(***************************************************************************)
(* Proofs about the message, for any messages, children, values and wires. *)
(***************************************************************************)
EXTENDS Message, FiniteSetTheorems, TLAPS

USE Zenon

Slots == [present : BOOLEAN, decoded : BOOLEAN, dirty : BOOLEAN, fromSrc : BOOLEAN,
          val : Vals \cup {0}, kid : Kids \cup {NoKid}]
Messages == [made : BOOLEAN, src : [DEs -> Bodies], owned : BOOLEAN, sealed : BOOLEAN,
             bm : SUBSET DEs, slots : [DEs -> Slots]]

\* A slot against the wire: what comes from the wire is there and was not changed,
\* and was decoded only if it decodes; what does not was set, and is decoded.
SlotOK(r, de) ==
  LET s == r.slots[de] IN
  /\ ~s.present => s = Empty
  /\ de \in r.bm <=> s.present
  /\ s.fromSrc => s.present /\ ~s.dirty /\ r.src[de].form # "absent"
  /\ s.present /\ ~s.fromSrc => s.dirty /\ s.decoded
  /\ s.decoded /\ s.fromSrc => r.src[de].form # "bad" /\ (de = "scalar" => s.val = r.src[de].val)
  /\ IF de = "composite" /\ s.decoded THEN s.kid \in Kids ELSE s.kid = NoKid

\* A message as Unmarshal left it, but for what was decoded.
AsWire(r, de) ==
  /\ r.slots[de].fromSrc <=> r.src[de] # Absent
  /\ r.slots[de].present => r.slots[de].fromSrc
Verbatim(r) == \A de \in DEs : AsWire(r, de)

MessageOK(r) ==
  /\ r \in Messages
  /\ \A de \in DEs : SlotOK(r, de)
  /\ \A de \in DEs : r.src[de].form = "absent" => r.src[de] = Absent

Child(m) == msg[m].slots["composite"].kid

MessageTyped ==
  /\ msg \in [Msgs -> Messages] /\ \A m \in Msgs : MessageOK(msg[m])
  /\ kid \in [Kids -> Vals \cup {0}]
  /\ touched \in [Msgs -> SUBSET DEs] /\ behind \subseteq Msgs /\ shared \subseteq Kids /\ fooled \subseteq Msgs

\* A child that was decoded from the wire has the wire's value, unless it was
\* written without the message.
ChildrenFollow ==
  \A m \in Msgs \ behind : LET s == msg[m].slots["composite"] IN
    s.fromSrc /\ s.decoded => kid[s.kid] = msg[m].src["composite"].val

\* Marshal's fast path finds an unchanged message, unless it is fooled.
FastPath == \A m \in Msgs \ fooled : msg[m].src # NoWire /\ ~msg[m].owned => Verbatim(msg[m])

Untouched ==
  \A m \in Msgs : msg[m].src # NoWire =>
    \A de \in DEs \ touched[m] : AsWire(msg[m], de)

\* No two messages have a child but one that is known to be shared.
ChildrenApart == \A m, n \in Msgs : m # n /\ Child(m) = Child(n) /\ Child(m) # NoKid => Child(m) \in shared

MessageInv == MessageTyped /\ ChildrenFollow /\ FastPath /\ Untouched /\ ChildrenApart
-----------------------------------------------------------------------------
(* What every operation has in common.                                       *)

\* A set that is finite and has two members has a cardinality above 1.
LEMMA TwoMembers ==
  ASSUME NEW S, IsFiniteSet(S), NEW a \in S, NEW b \in S, a # b
  PROVE  Cardinality(S) > 1
  <1>1. IsFiniteSet({a}) /\ Cardinality({a}) = 1  BY FS_Singleton
  <1>2. IsFiniteSet({a} \cup {b}) /\ Cardinality({a} \cup {b}) = 2  BY SMT, <1>1, FS_AddElement
  <1>3. {a} \cup {b} \in SUBSET S  OBVIOUS
  <1>4. Cardinality({a} \cup {b}) <= Cardinality(S)  BY <1>3, FS_Subset
  <1>5. Cardinality(S) \in Nat  BY FS_CardinalityType
  <1> QED  BY SMT, <1>2, <1>4, <1>5

\* What an operation leaves of the messages.
LEMMA OpWrites ==
  ASSUME MessageTyped, NEW m \in Msgs, NEW r, MessageOK(r), NEW ks, NEW new, OpShares(m, r, ks, new)
  PROVE  /\ msg'[m] = r /\ \A n \in Msgs \ {m} : msg'[n] = msg[n]
         /\ msg' \in [Msgs -> Messages] /\ \A n \in Msgs : MessageOK(msg'[n])
         /\ kid' = ks /\ actor' = m
  <1>1. msg \in [Msgs -> Messages] /\ msg' = [msg EXCEPT ![m] = r] /\ r \in Messages
    BY DEF MessageTyped, OpShares, MessageOK
  <1>2. msg'[m] = r /\ \A n \in Msgs \ {m} : msg'[n] = msg[n]  BY <1>1
  <1>3. msg' \in [Msgs -> Messages]  BY <1>1
  <1>4. \A n \in Msgs : MessageOK(msg'[n])  BY <1>2 DEF MessageTyped
  <1> QED  BY <1>2, <1>3, <1>4 DEF OpShares

\* The child that an operation gives its message is the one it had, a free one or
\* one that is shared from then on.
ChildFrom(m, r, new) == r.slots["composite"].kid \in {NoKid, Child(m)} \cup FreeKids \cup new

\* Then the children stay apart.
LEMMA ApartStep ==
  ASSUME MessageTyped, ChildrenApart, NEW m \in Msgs, NEW r, MessageOK(r), NEW ks,
         NEW new \in SUBSET Kids, OpShares(m, r, ks, new), ChildFrom(m, r, new)
  PROVE  ChildrenApart' /\ shared' \subseteq Kids
  <1> DEFINE c(n) == msg'[n].slots["composite"].kid
  <1>1. msg'[m] = r /\ \A n \in Msgs \ {m} : msg'[n] = msg[n]  BY OpWrites
  <1>2. shared' = {k \in shared \cup new : Cardinality({n \in Msgs : c(n) = k}) > 1}  BY DEF OpShares
  <1>3. shared' \subseteq Kids  BY <1>2 DEF MessageTyped
  <1>4. SUFFICES ASSUME NEW a \in Msgs, NEW b \in Msgs, a # b, c(a) = c(b), c(a) # NoKid
                 PROVE  c(a) \in shared'
    BY <1>3 DEF ChildrenApart, Child
  <1> HIDE DEF c
  <1>5. c(m) = r.slots["composite"].kid /\ \A n \in Msgs \ {m} : c(n) = Child(n)  BY <1>1 DEF c, Child
  <1>6. \A n \in Msgs \ {m} : Child(n) \notin FreeKids  BY DEF FreeKids, Child
  <1>7. \A n \in Msgs \ {m} : Child(n) = Child(m) /\ Child(n) # NoKid => Child(n) \in shared
    BY DEF ChildrenApart
  <1>8. \A n \in Msgs \ {m} : c(n) = c(m) /\ c(n) # NoKid => c(n) \in shared \cup new
    BY <1>5, <1>6, <1>7 DEF ChildFrom
  <1>9. c(a) \in shared \cup new
    <2>1. CASE a = m  BY <1>4, <1>8, <2>1
    <2>2. CASE b = m  BY <1>4, <1>8, <2>2
    <2>3. CASE a # m /\ b # m  BY <1>4, <1>5, <2>3 DEF ChildrenApart
    <2> QED  BY <2>1, <2>2, <2>3
  <1>10. IsFiniteSet({n \in Msgs : c(n) = c(a)})
    <2>1. {n \in Msgs : c(n) = c(a)} \in SUBSET Msgs  OBVIOUS
    <2> QED  BY <2>1, FS_Subset, MessageAssumption
  <1>11. a \in {n \in Msgs : c(n) = c(a)} /\ b \in {n \in Msgs : c(n) = c(a)}  BY <1>4
  <1>12. Cardinality({n \in Msgs : c(n) = c(a)}) > 1  BY <1>4, <1>10, <1>11, TwoMembers
  <1> QED  BY <1>2, <1>9, <1>12

\* No child is written but k, which is free or whose other parents are accounted for.
WritesOnly(m, k, ks) ==
  /\ ks \in [Kids -> Vals \cup {0}] /\ \A x \in Kids \ {k} : ks[x] = kid[x]
  /\ k \in FreeKids \cup {NoKid} \/ Unaware(m, k) \subseteq behind'

\* Of the histories, only those of m can shrink.
HistoriesGrow(m) ==
  /\ touched' \in [Msgs -> SUBSET DEs] /\ \A n \in Msgs \ {m} : touched'[n] = touched[n]
  /\ behind' \subseteq Msgs /\ behind \subseteq behind' \cup {m}
  /\ fooled' \subseteq Msgs /\ fooled \subseteq fooled' \cup {m}

\* m meets the invariant as r, with the children ks.
Follows(m, r, ks) ==
  m \notin behind' /\ r.slots["composite"].fromSrc /\ r.slots["composite"].decoded =>
    ks[r.slots["composite"].kid] = r.src["composite"].val
Meets(m, r, ks) ==
  /\ Follows(m, r, ks)
  /\ m \notin fooled' /\ r.src # NoWire /\ ~r.owned => Verbatim(r)
  /\ r.src # NoWire => \A de \in DEs \ touched'[m] : AsWire(r, de)

\* What NoLeakage says of a step.
NoLeak ==
  \A m \in Msgs, de \in DEs :
    msg[m].made /\ View(msg', kid', m, de) # View(msg, kid, m, de) =>
      /\ \/ m = actor'
         \/ /\ de = "composite" /\ msg[m].slots[de].kid \in shared
            /\ msg[m].slots[de].kid = msg'[actor'].slots[de].kid
      /\ msg[m].sealed => de = "composite" /\ msg'[m] = msg[m]

\* The child k that is written is a free one or the message's own, and readers see
\* no change of a sealed message but through its child.
Kept(m, r, k) ==
  /\ k \in FreeKids \cup {NoKid} \/ (k = Child(m) /\ k = r.slots["composite"].kid)
  /\ msg[m].made /\ msg[m].sealed =>
       \A de \in DEs : \/ View(msg', kid', m, de) = View(msg, kid, m, de)
                       \/ de = "composite" /\ r = msg[m]

\* Readers see a message that was not written through its slots change only if its
\* child was written.
LEMMA ViewKept ==
  ASSUME NEW ms, NEW ns, NEW ks, NEW ls, NEW n, NEW de \in DEs, MessageOK(ms[n]), ns[n] = ms[n],
         de = "composite" /\ ms[n].slots[de].decoded => ls[ms[n].slots[de].kid] = ks[ms[n].slots[de].kid]
  PROVE  View(ns, ls, n, de) = View(ms, ks, n, de)
  <1>1. SlotOK(ms[n], de)  BY DEF MessageOK
  <1>2. CASE de = "composite" /\ ms[n].slots[de].decoded  BY SMT, <1>2 DEF View
  <1>3. CASE de # "composite"  BY SMT, <1>3 DEF View
  <1>4. CASE ~ms[n].slots[de].decoded /\ ~ms[n].slots[de].present  BY SMT, <1>4 DEF View
  <1>5. CASE ~ms[n].slots[de].decoded /\ ms[n].slots[de].present
    <2>1. ms[n].slots[de].fromSrc  BY SMT, <1>1, <1>5 DEF SlotOK
    <2> QED  BY SMT, <1>5, <2>1 DEF View
  <1> QED  BY <1>2, <1>3, <1>4, <1>5

\* So no operation leaks into another message, but through a child they share.
LEMMA LeakStep ==
  ASSUME MessageInv, NEW m \in Msgs, NEW r, MessageOK(r), NEW ks, NEW new,
         OpShares(m, r, ks, new), NEW k, WritesOnly(m, k, ks), Kept(m, r, k)
  PROVE  NoLeak
  <1>0. MessageTyped /\ ChildrenApart  BY DEF MessageInv
  <1>1. msg'[m] = r /\ (\A n \in Msgs \ {m} : msg'[n] = msg[n]) /\ kid' = ks /\ actor' = m
    BY <1>0, OpWrites
  <1> SUFFICES ASSUME NEW n \in Msgs, NEW de \in DEs, msg[n].made,
                      View(msg', kid', n, de) # View(msg, kid, n, de)
               PROVE  /\ \/ n = actor'
                         \/ /\ de = "composite" /\ msg[n].slots[de].kid \in shared
                            /\ msg[n].slots[de].kid = msg'[actor'].slots[de].kid
                      /\ msg[n].sealed => de = "composite" /\ msg'[n] = msg[n]
    BY DEF NoLeak
  <1>2. CASE n = m  BY <1>1, <1>2 DEF Kept
  <1>3. CASE n # m
    <2>1. msg'[n] = msg[n] /\ MessageOK(msg[n])  BY <1>0, <1>1, <1>3 DEF MessageTyped
    <2>2. de = "composite" /\ msg[n].slots[de].decoded /\ ks[Child(n)] # kid[Child(n)]
      BY SMT, <1>1, <2>1, ViewKept DEF Child
    <2>3. SlotOK(msg[n], "composite")  BY <2>1 DEF MessageOK, DEs
    <2>4. Child(n) \in Kids  BY <2>2, <2>3 DEF SlotOK, Child
    <2>5. Child(n) = k  BY <2>2, <2>4 DEF WritesOnly
    <2>6. k \notin FreeKids /\ k # NoKid  BY <2>4, <2>5, MessageAssumption DEF FreeKids, Child
    <2>7. k = Child(m) /\ k = r.slots["composite"].kid  BY <2>6 DEF Kept
    <2>8. Child(n) \in shared  BY <1>0, <1>3, <2>5, <2>6, <2>7 DEF ChildrenApart
    <2> QED  BY <1>1, <2>1, <2>2, <2>5, <2>7, <2>8 DEF Child
  <1> QED  BY <1>2, <1>3

\* An operation keeps the invariant if its own message meets it afterwards and it
\* writes to no child but k, which is free or whose other parents it accounts for.
LEMMA OpStep ==
  ASSUME MessageInv, NEW m \in Msgs, NEW r, MessageOK(r), NEW ks, NEW new \in SUBSET Kids,
         OpShares(m, r, ks, new), NEW k, WritesOnly(m, k, ks), ChildFrom(m, r, new),
         HistoriesGrow(m), Meets(m, r, ks), Kept(m, r, k)
  PROVE  MessageInv' /\ NoLeak
  <1>0. MessageTyped /\ ChildrenFollow /\ FastPath /\ Untouched /\ ChildrenApart  BY DEF MessageInv
  <1>1. /\ msg'[m] = r /\ \A n \in Msgs \ {m} : msg'[n] = msg[n]
        /\ msg' \in [Msgs -> Messages] /\ \A n \in Msgs : MessageOK(msg'[n])
        /\ kid' = ks
    BY SMT, <1>0, OpWrites
  <1>2. ChildrenApart' /\ shared' \subseteq Kids  BY <1>0, ApartStep
  <1>3. MessageTyped'  BY <1>1, <1>2 DEF MessageTyped, WritesOnly, HistoriesGrow
  <1>4. ASSUME NEW n \in Msgs \ behind', LET s == msg'[n].slots["composite"] IN s.fromSrc /\ s.decoded
        PROVE  kid'[msg'[n].slots["composite"].kid] = msg'[n].src["composite"].val
    <2>1. CASE n = m  BY <1>1, <1>4, <2>1 DEF Meets, Follows
    <2>2. CASE n # m
      <3>1. msg'[n] = msg[n] /\ n \notin behind  BY <1>1, <1>4, <2>2 DEF HistoriesGrow
      <3>2. kid[Child(n)] = msg[n].src["composite"].val  BY SMTT(30), <1>0, <1>4, <3>1 DEF ChildrenFollow, Child
      <3>3. Child(n) \in Kids
        BY SMT, <1>0, <1>4, <3>1 DEF MessageTyped, MessageOK, SlotOK, Child, DEs
      <3>4. Child(n) # k
        <4>1. n \in Unaware(m, Child(n))  BY <1>4, <2>2, <3>1 DEF Unaware, Child
        <4> QED  BY SMT, <1>4, <3>3, <4>1, MessageAssumption DEF FreeKids, Child, WritesOnly
      <3> QED  BY SMT, <1>1, <3>1, <3>2, <3>3, <3>4 DEF Child, WritesOnly
    <2> QED  BY <2>1, <2>2
  <1>5. ChildrenFollow'  BY <1>4 DEF ChildrenFollow
  <1>6. FastPath'
    <2> SUFFICES ASSUME NEW n \in Msgs \ fooled', msg'[n].src # NoWire /\ ~msg'[n].owned
                 PROVE  Verbatim(msg'[n])
      BY DEF FastPath
    <2>1. CASE n = m  BY <1>1, <2>1 DEF Meets
    <2>2. CASE n # m  BY <1>0, <1>1, <2>2 DEF FastPath, HistoriesGrow
    <2> QED  BY <2>1, <2>2
  <1>7. Untouched'
    <2> SUFFICES ASSUME NEW n \in Msgs, msg'[n].src # NoWire, NEW de \in DEs \ touched'[n]
                 PROVE  AsWire(msg'[n], de)
      BY DEF Untouched
    <2>1. CASE n = m  BY <1>1, <2>1 DEF Meets
    <2>2. CASE n # m  BY SMT, <1>0, <1>1, <2>2 DEF Untouched, HistoriesGrow
    <2> QED  BY <2>1, <2>2
  <1> QED  BY <1>2, <1>3, <1>5, <1>6, <1>7, LeakStep DEF MessageInv

-----------------------------------------------------------------------------
(* A message with a slot written.                                            *)

\* q is r but for its slot de, its bitmap and whether it is owned.
Rewritten(r, q, de) ==
  /\ q \in Messages /\ q.src = r.src /\ q.made = r.made /\ q.sealed = r.sealed
  /\ \A d \in DEs \ {de} : q.slots[d] = r.slots[d]

WithSlot(r, de, s, b) == [r EXCEPT !.slots[de] = s, !.owned = TRUE, !.bm = b]

\* An assignment to a slot.
LEMMA SlotAssigned ==
  ASSUME NEW r \in Messages, NEW de \in DEs, NEW s \in Slots
  PROVE  /\ [r.slots EXCEPT ![de] = s] \in [DEs -> Slots] /\ [r.slots EXCEPT ![de] = s][de] = s
         /\ \A d \in DEs \ {de} : [r.slots EXCEPT ![de] = s][d] = r.slots[d]
  BY SMT DEF Messages

\* Writing a slot leaves the wire and the other slots alone.
LEMMA SlotWritten ==
  ASSUME NEW r \in Messages, NEW de \in DEs, NEW s \in Slots, NEW b \in SUBSET DEs
  PROVE  LET q == WithSlot(r, de, s, b) IN
         Rewritten(r, q, de) /\ q.owned /\ q.bm = b /\ q.slots[de] = s
  <1> DEFINE f == [r.slots EXCEPT ![de] = s]
             q == [r EXCEPT !.slots = f, !.owned = TRUE, !.bm = b]
  <1>1. f \in [DEs -> Slots] /\ f[de] = s /\ \A d \in DEs \ {de} : f[d] = r.slots[d]  BY SlotAssigned
  <1> HIDE DEF f
  <1>2. q \in Messages  BY <1>1 DEF Messages
  <1>3. q.src = r.src /\ q.made = r.made /\ q.sealed = r.sealed /\ q.owned /\ q.bm = b /\ q.slots = f
    BY SMT DEF Messages
  <1>4. Rewritten(r, q, de) /\ q.owned /\ q.bm = b /\ q.slots[de] = s  BY <1>1, <1>2, <1>3 DEF Rewritten
  <1>5. WithSlot(r, de, s, b) = q  BY DEF f, WithSlot
  <1> QED  BY <1>4, <1>5

ReadSlot(r, de, s) == [r EXCEPT !.slots[de] = s]

\* The same when the message stays as it is otherwise.
LEMMA SlotRead ==
  ASSUME NEW r \in Messages, NEW de \in DEs, NEW s \in Slots
  PROVE  LET q == ReadSlot(r, de, s) IN
         Rewritten(r, q, de) /\ q.owned = r.owned /\ q.bm = r.bm /\ q.slots[de] = s
  <1> DEFINE f == [r.slots EXCEPT ![de] = s]
             q == [r EXCEPT !.slots = f]
  <1>1. f \in [DEs -> Slots] /\ f[de] = s /\ \A d \in DEs \ {de} : f[d] = r.slots[d]  BY SlotAssigned
  <1> HIDE DEF f
  <1>2. q \in Messages  BY <1>1 DEF Messages
  <1>3. q.src = r.src /\ q.made = r.made /\ q.sealed = r.sealed /\ q.owned = r.owned /\ q.bm = r.bm /\ q.slots = f
    BY SMT DEF Messages
  <1>4. Rewritten(r, q, de) /\ q.owned = r.owned /\ q.bm = r.bm /\ q.slots[de] = s
    BY <1>1, <1>2, <1>3 DEF Rewritten
  <1>5. ReadSlot(r, de, s) = q  BY DEF f, ReadSlot
  <1> QED  BY <1>4, <1>5

\* The slots that were not written stay sound.
LEMMA OthersSound ==
  ASSUME NEW r, MessageOK(r), NEW de \in DEs, NEW q, Rewritten(r, q, de),
         \A d \in DEs \ {de} : d \in q.bm <=> d \in r.bm, SlotOK(q, de)
  PROVE  MessageOK(q)
  <1>1. \A d \in DEs \ {de} : SlotOK(q, d)  BY SMT DEF MessageOK, SlotOK, Rewritten
  <1> QED  BY <1>1 DEF MessageOK, Rewritten

\* A slot that is set is sound whatever was there.
LEMMA SetSound ==
  ASSUME NEW r, MessageOK(r), NEW de \in DEs, NEW v \in Vals \cup {0}, NEW k \in Kids \cup {NoKid},
         k \in Kids <=> de = "composite"
  PROVE  LET q == SetSlot(r, de, v, k) IN
         MessageOK(q) /\ Rewritten(r, q, de) /\ q.owned /\ ~q.slots[de].fromSrc /\ q.slots[de].kid = k
  <1> DEFINE s == [present |-> TRUE, decoded |-> TRUE, dirty |-> TRUE, fromSrc |-> FALSE,
                   val |-> v, kid |-> k]
             q == WithSlot(r, de, s, r.bm \cup {de})
  <1>1. s \in Slots /\ r \in Messages /\ r.bm \cup {de} \in SUBSET DEs  BY SMT DEF Slots, MessageOK, Messages
  <1>2. SetSlot(r, de, v, k) = q  BY DEF SetSlot, WithSlot
  <1>3. s.present /\ s.decoded /\ s.dirty /\ ~s.fromSrc /\ s.kid = k  BY SMT
  <1> HIDE DEF s
  <1>4. Rewritten(r, q, de) /\ q.owned /\ q.bm = r.bm \cup {de} /\ q.slots[de] = s
    BY SMT, <1>1, SlotWritten
  <1> HIDE DEF q
  <1>5. SlotOK(q, de)  BY SMT, <1>3, <1>4, MessageAssumption DEF SlotOK
  <1>6. MessageOK(q)  BY <1>4, <1>5, OthersSound
  <1> QED  BY <1>2, <1>3, <1>4, <1>6

\* So is one that is emptied.
LEMMA UnsetSound ==
  ASSUME NEW r, MessageOK(r), NEW de \in DEs
  PROVE  LET q == [r EXCEPT !.slots[de] = Empty, !.owned = TRUE, !.bm = r.bm \ {de}] IN
         MessageOK(q) /\ Rewritten(r, q, de) /\ q.owned /\ ~q.slots[de].fromSrc /\ q.slots[de].kid = NoKid
  <1> DEFINE q == WithSlot(r, de, Empty, r.bm \ {de})
  <1>1. Empty \in Slots /\ r \in Messages /\ r.bm \ {de} \in SUBSET DEs
    BY SMT DEF Slots, MessageOK, Messages, Empty
  <1>2. ~Empty.present /\ ~Empty.decoded /\ ~Empty.fromSrc /\ Empty.kid = NoKid  BY SMT DEF Empty
  <1>3. Rewritten(r, q, de) /\ q.owned /\ q.bm = r.bm \ {de} /\ q.slots[de] = Empty
    BY SMT, <1>1, SlotWritten
  <1> HIDE DEF q
  <1>4. SlotOK(q, de)  BY SMT, <1>2, <1>3 DEF SlotOK
  <1>5. MessageOK(q)  BY <1>3, <1>4, OthersSound
  <1>6. MessageOK(q) /\ Rewritten(r, q, de) /\ q.owned /\ ~q.slots[de].fromSrc /\ q.slots[de].kid = NoKid
    BY <1>2, <1>3, <1>5
  <1> QED  BY <1>6 DEF q, WithSlot

\* A set or emptied field is a touched one: what the invariant asks of the message
\* that was written, Written provides.
LEMMA WrittenStep ==
  ASSUME MessageInv, NEW m \in Msgs, NEW r, MessageOK(r), NEW ks, NEW new \in SUBSET Kids,
         OpShares(m, r, ks, new), NEW de \in DEs, NEW k \in Kids \cup {NoKid}, Written(m, de, k),
         ks \in [Kids -> Vals \cup {0}], \A x \in Kids \ {k} : ks[x] = kid[x],
         de = "scalar" => k = NoKid, ChildFrom(m, r, new),
         Rewritten(msg[m], r, de), r.owned, ~r.slots[de].fromSrc, ~msg[m].sealed,
         k \in FreeKids \cup {NoKid} \/ (k = Child(m) /\ k = r.slots["composite"].kid)
  PROVE  MessageInv' /\ NoLeak
  <1>0. MessageTyped /\ ChildrenFollow /\ Untouched  BY DEF MessageInv
  <1>1. /\ touched \in [Msgs -> SUBSET DEs] /\ touched' = [touched EXCEPT ![m] = @ \cup {de}]
        /\ fooled' = fooled \ {m} /\ fooled \subseteq Msgs /\ behind \subseteq Msgs
    BY <1>0 DEF MessageTyped, Written
  <1>2. touched' \in [Msgs -> SUBSET DEs] /\ \A n \in Msgs \ {m} : touched'[n] = touched[n]  BY SMT, <1>1
  <1>3. touched'[m] = touched[m] \cup {de}  BY <1>1
  <1>4. behind' \subseteq Msgs /\ behind \subseteq behind' \cup {m}  BY <1>1 DEF Written, Unaware
  <1>5. k = NoKid \/ Unaware(m, k) \subseteq behind'  BY DEF Written
  <1>6. de = "scalar" => behind' = behind  BY DEF Written
  <1>7. Follows(m, r, ks)
    <2>1. CASE de = "composite"  BY <2>1 DEF Follows
    <2>2. CASE de = "scalar"
      <3>1. r.slots["composite"] = msg[m].slots["composite"] /\ r.src = msg[m].src
        BY <2>2 DEF DEs, Rewritten
      <3>2. SUFFICES ASSUME m \notin behind', r.slots["composite"].fromSrc, r.slots["composite"].decoded
                     PROVE  ks[r.slots["composite"].kid] = r.src["composite"].val
        BY DEF Follows
      <3>3. m \notin behind  BY <1>6, <2>2, <3>2
      <3>4. r.slots["composite"].kid \in Kids  BY SMT, <3>2 DEF MessageOK, SlotOK, DEs
      <3>5. ks[r.slots["composite"].kid] = kid[r.slots["composite"].kid]
        BY SMT, <2>2, <3>4, MessageAssumption
      <3>6. kid[msg[m].slots["composite"].kid] = msg[m].src["composite"].val
        BY <1>0, <3>1, <3>2, <3>3 DEF ChildrenFollow
      <3> QED  BY <3>1, <3>5, <3>6
    <2> QED  BY <2>1, <2>2 DEF DEs
  <1>8. ASSUME r.src # NoWire, NEW d \in DEs \ touched'[m]
        PROVE  AsWire(r, d)
    <2>1. d # de /\ d \notin touched[m]  BY <1>3, <1>8
    <2>2. r.slots[d] = msg[m].slots[d] /\ r.src = msg[m].src  BY <1>8, <2>1 DEF Rewritten
    <2>3. AsWire(msg[m], d)  BY <1>0, <1>8, <2>1, <2>2 DEF Untouched
    <2> QED  BY <2>2, <2>3 DEF AsWire
  <1>9. Meets(m, r, ks)  BY <1>7, <1>8 DEF Meets
  <1>10. HistoriesGrow(m)  BY <1>1, <1>2, <1>4 DEF HistoriesGrow
  <1>11. WritesOnly(m, k, ks)  BY <1>5 DEF WritesOnly
  <1>12. Kept(m, r, k)  BY DEF Kept
  <1> QED  BY <1>9, <1>10, <1>11, <1>12, OpStep

-----------------------------------------------------------------------------
(* The operations, one by one.                                               *)

\* The histories that do not change, grow.
LEMMA HistoriesSame ==
  ASSUME MessageTyped, NEW m \in Msgs, UNCHANGED <<touched, behind, fooled>>
  PROVE  HistoriesGrow(m)
  BY DEF MessageTyped, HistoriesGrow

\* An operation that writes to no child.
LEMMA ChildrenSame ==
  ASSUME MessageTyped, NEW m \in Msgs
  PROVE  WritesOnly(m, NoKid, kid)
  BY DEF MessageTyped, WritesOnly

\* A child that is taken is one of the children.
LEMMA FreeKidFree ==
  ASSUME FreeKids # {}
  PROVE  FreeKid \in FreeKids /\ FreeKid \in Kids /\ FreeKid # NoKid
  BY MessageAssumption DEF FreeKid, FreeKids

LEMMA FreshMessage ==
  ASSUME SomeFresh
  PROVE  Fresh \in Msgs /\ ~msg[Fresh].made
  BY DEF Fresh, SomeFresh

\* What the invariant says of one message.
LEMMA OneMessage ==
  ASSUME MessageInv, NEW m \in Msgs
  PROVE  /\ MessageTyped /\ MessageOK(msg[m]) /\ msg[m] \in Messages
         /\ Child(m) \in Kids \cup {NoKid}
         /\ Child(m) # NoKid => msg[m].slots["composite"].decoded /\ Child(m) \in Kids
  <1>1. MessageTyped /\ MessageOK(msg[m]) /\ msg[m] \in Messages
    BY DEF MessageInv, MessageTyped, MessageOK
  <1>2. SlotOK(msg[m], "composite")  BY <1>1 DEF MessageOK, DEs
  <1> QED  BY <1>1, <1>2 DEF SlotOK, Child

\* A message that nothing was set in.
LEMMA EmptySound ==
  ASSUME NEW a \in BOOLEAN, NEW b \in BOOLEAN, NEW r,
         r = [made |-> a, src |-> NoWire, owned |-> b, sealed |-> FALSE,
              bm |-> {}, slots |-> [de \in DEs |-> Empty]]
  PROVE  MessageOK(r) /\ r.src = NoWire /\ \A de \in DEs : r.slots[de] = Empty
  <1>1. Empty \in Slots /\ ~Empty.present /\ ~Empty.decoded /\ ~Empty.fromSrc /\ Empty.kid = NoKid
    BY SMT DEF Slots, Empty
  <1>2. NoWire \in [DEs -> Bodies] /\ \A de \in DEs : NoWire[de] = Absent
    BY SMT DEF NoWire, Bodies, Absent
  <1>3. r \in Messages  BY SMT, <1>1, <1>2 DEF Messages
  <1>4. r.src = NoWire /\ r.bm = {} /\ \A de \in DEs : r.slots[de] = Empty  OBVIOUS
  <1>5. \A de \in DEs : SlotOK(r, de)  BY SMT, <1>1, <1>4 DEF SlotOK
  <1> QED  BY <1>2, <1>3, <1>4, <1>5 DEF MessageOK

\* It holds at the start.
LEMMA MessageInitial == MessageInit => MessageInv
  <1> SUFFICES ASSUME MessageInit PROVE MessageInv  OBVIOUS
  <1>1. MessageOK(Unmade) /\ Unmade.src = NoWire /\ \A de \in DEs : Unmade.slots[de] = Empty
    BY EmptySound DEF Unmade
  <1>2. Unmade \in Messages /\ \A m \in Msgs : msg[m] = Unmade  BY <1>1 DEF MessageOK, MessageInit
  <1>3. MessageTyped  BY SMT, <1>1, <1>2 DEF MessageInit, MessageTyped
  <1>4. ~Empty.fromSrc /\ Empty.kid = NoKid  BY DEF Empty
  <1>5. ChildrenFollow  BY <1>1, <1>2, <1>4 DEF ChildrenFollow, DEs
  <1>6. FastPath /\ Untouched  BY <1>1, <1>2 DEF FastPath, Untouched
  <1>7. ChildrenApart  BY <1>1, <1>2, <1>4 DEF ChildrenApart, Child, DEs
  <1> QED  BY <1>3, <1>5, <1>6, <1>7 DEF MessageInv

LEMMA NewStep ==
  ASSUME MessageInv, New
  PROVE  MessageInv' /\ NoLeak
  <1> DEFINE m == Fresh
             r == [Unmade EXCEPT !.made = TRUE, !.owned = TRUE]
  <1>1. m \in Msgs /\ ~msg[m].made /\ MessageTyped  BY FreshMessage DEF New, MessageInv
  <1>2. MessageOK(Unmade) /\ Unmade.src = NoWire /\ \A de \in DEs : Unmade.slots[de] = Empty
    BY EmptySound DEF Unmade
  <1>3. MessageOK(r) /\ r.src = NoWire /\ \A de \in DEs : r.slots[de] = Empty
    <2>1. Unmade \in Messages  BY <1>2 DEF MessageOK
    <2>2. r \in Messages  BY <2>1 DEF Messages
    <2>3. r.src = Unmade.src /\ r.bm = Unmade.bm /\ r.slots = Unmade.slots  BY SMT, <2>1 DEF Messages
    <2> HIDE DEF r
    <2>4. \A de \in DEs : SlotOK(r, de)  BY SMT, <1>2, <2>3 DEF MessageOK, SlotOK
    <2> QED  BY <1>2, <2>2, <2>3, <2>4 DEF MessageOK
  <1>4. OpShares(m, r, kid, {})  BY DEF New, Op
  <1>5. HistoriesGrow(m) /\ WritesOnly(m, NoKid, kid)  BY <1>1, HistoriesSame, ChildrenSame DEF New
  <1> HIDE DEF m, r
  <1>6. ~Empty.fromSrc /\ Empty.kid = NoKid  BY DEF Empty
  <1>7. Meets(m, r, kid) /\ ChildFrom(m, r, {})  BY <1>3, <1>6 DEF Meets, Follows, ChildFrom, DEs
  <1>8. Kept(m, r, NoKid)  BY <1>1 DEF Kept
  <1> QED  BY <1>1, <1>3, <1>4, <1>5, <1>7, <1>8, OpStep

LEMMA UnmarshalStep ==
  ASSUME MessageInv, NEW wire \in Wires, NEW immutable \in BOOLEAN, Unmarshal(wire, immutable)
  PROVE  MessageInv' /\ NoLeak
  <1> DEFINE m == Fresh
             has == {de \in DEs : wire[de] # Absent}
             t == [Empty EXCEPT !.present = TRUE, !.fromSrc = TRUE]
             f == [de \in DEs |-> IF de \in has THEN t ELSE Empty]
             r == [made |-> TRUE, src |-> wire, owned |-> FALSE, sealed |-> immutable, bm |-> has,
                   slots |-> f]
  <1>1. m \in Msgs /\ ~msg[m].made /\ MessageTyped  BY FreshMessage DEF Unmarshal, MessageInv
  <1>2. /\ wire \in [DEs -> Bodies]
        /\ \A de \in DEs : wire[de].form = "absent" => wire[de] = Absent
    BY SMT, MessageAssumption
  <1>3. OpShares(m, r, kid, {})  BY DEF Unmarshal, Op
  <1>4. HistoriesGrow(m) /\ WritesOnly(m, NoKid, kid)  BY <1>1, HistoriesSame, ChildrenSame DEF Unmarshal
  <1>5. /\ Empty \in Slots /\ Empty.kid = NoKid
        /\ ~Empty.present /\ ~Empty.decoded /\ ~Empty.fromSrc /\ ~Empty.dirty
    BY SMT DEF Slots, Empty
  <1>6. t \in Slots /\ t.present /\ ~t.decoded /\ t.fromSrc /\ ~t.dirty /\ t.kid = NoKid
    <2>1. t \in Slots  BY <1>5 DEF Slots
    <2>2. t.present /\ t.fromSrc /\ t.decoded = Empty.decoded /\ t.dirty = Empty.dirty /\ t.kid = Empty.kid
      BY SMT, <1>5 DEF Slots
    <2> QED  BY <1>5, <2>1, <2>2
  <1> HIDE DEF t
  <1>7. f \in [DEs -> Slots] /\ \A de \in DEs : f[de] = IF de \in has THEN t ELSE Empty  BY SMT, <1>5, <1>6
  <1>8. \A de \in DEs : de \in has <=> wire[de] # Absent  OBVIOUS
  <1>9. has \in SUBSET DEs  OBVIOUS
  <1> HIDE DEF has, f, m
  <1>10. r \in Messages  BY SMT, <1>2, <1>7, <1>9 DEF Messages
  <1>11. r.src = wire /\ r.bm = has /\ r.slots = f /\ ~r.owned  OBVIOUS
  <1> HIDE DEF r
  <1>12. Absent.form = "absent"  BY DEF Absent
  <1>13. \A de \in DEs : SlotOK(r, de)
    <2> SUFFICES ASSUME NEW de \in DEs PROVE SlotOK(r, de)  OBVIOUS
    <2>1. CASE de \in has  BY SMT, <1>2, <1>6, <1>7, <1>8, <1>11, <2>1 DEF SlotOK
    <2>2. CASE de \notin has  BY SMT, <1>5, <1>7, <1>11, <2>2 DEF SlotOK
    <2> QED  BY <2>1, <2>2
  <1>14. MessageOK(r)  BY <1>2, <1>10, <1>11, <1>13 DEF MessageOK
  <1>15. \A de \in DEs : AsWire(r, de)  BY <1>5, <1>6, <1>7, <1>8, <1>11 DEF AsWire
  <1>16. \A de \in DEs : r.slots[de].kid = NoKid /\ ~r.slots[de].decoded  BY <1>5, <1>6, <1>7, <1>11
  <1>17. Meets(m, r, kid) /\ ChildFrom(m, r, {})
    BY <1>15, <1>16 DEF Meets, Follows, ChildFrom, Verbatim, DEs
  <1>18. Kept(m, r, NoKid)  BY <1>1 DEF Kept
  <1> QED  BY <1>1, <1>3, <1>4, <1>14, <1>17, <1>18, OpStep

LEMMA SetStep ==
  ASSUME MessageInv, NEW m \in Msgs, NEW v \in Vals, Set(m, v)
  PROVE  MessageInv' /\ NoLeak
  <1> DEFINE r == SetSlot(msg[m], "scalar", v, NoKid)
  <1>1. MessageTyped /\ MessageOK(msg[m])  BY OneMessage
  <1>2. OpShares(m, r, kid, {}) /\ Written(m, "scalar", NoKid) /\ ~msg[m].sealed  BY DEF Set, Op
  <1>3. /\ MessageOK(r) /\ Rewritten(msg[m], r, "scalar") /\ r.owned /\ ~r.slots["scalar"].fromSrc
    BY SMT, <1>1, SetSound, MessageAssumption DEF DEs
  <1> HIDE DEF r
  <1>4. r.slots["composite"].kid = Child(m)  BY <1>3 DEF Rewritten, Child, DEs
  <1>5. ChildFrom(m, r, {})  BY <1>4 DEF ChildFrom
  <1>6. kid \in [Kids -> Vals \cup {0}]  BY <1>1 DEF MessageTyped
  <1> QED  BY <1>2, <1>3, <1>5, <1>6, WrittenStep DEF DEs

LEMMA SetPStep ==
  ASSUME MessageInv, NEW m \in Msgs, NEW v \in Vals, SetP(m, v)
  PROVE  MessageInv' /\ NoLeak
  <1> DEFINE k == IF Child(m) # NoKid THEN Child(m) ELSE FreeKid
             r == SetSlot(msg[m], "composite", 0, k)
             ks == [kid EXCEPT ![k] = v]
  <1>1. MessageTyped /\ MessageOK(msg[m])  BY OneMessage
  <1>2. OpShares(m, r, ks, {}) /\ Written(m, "composite", k) /\ ~msg[m].sealed  BY DEF SetP, Op, Child
  <1>3. k \in Kids /\ k \in {Child(m)} \cup FreeKids
    <2>1. CASE Child(m) # NoKid  BY <2>1, OneMessage
    <2>2. CASE Child(m) = NoKid
      <3>1. FreeKids # {}  BY <2>2 DEF SetP, Child
      <3> QED  BY <2>2, <3>1, FreeKidFree
    <2> QED  BY <2>1, <2>2
  <1> HIDE DEF k
  <1>4. kid \in [Kids -> Vals \cup {0}]  BY <1>1 DEF MessageTyped
  <1>5. ks \in [Kids -> Vals \cup {0}] /\ \A x \in Kids \ {k} : ks[x] = kid[x]  BY SMT, <1>3, <1>4
  <1>6. /\ MessageOK(r) /\ Rewritten(msg[m], r, "composite") /\ r.owned /\ ~r.slots["composite"].fromSrc
        /\ r.slots["composite"].kid = k
    <2>1. "composite" \in DEs /\ 0 \in Vals \cup {0}  BY DEF DEs
    <2> QED  BY SMT, <1>1, <1>3, <2>1, SetSound
  <1> HIDE DEF r, ks
  <1>7. ChildFrom(m, r, {})  BY <1>3, <1>6 DEF ChildFrom
  <1> QED  BY <1>2, <1>3, <1>5, <1>6, <1>7, WrittenStep DEF DEs

LEMMA SetValueStep ==
  ASSUME MessageInv, NEW m \in Msgs, NEW n \in Msgs, SetValue(m, n)
  PROVE  MessageInv' /\ NoLeak
  <1> DEFINE r == SetSlot(msg[m], "composite", 0, Child(n))
  <1>1. MessageTyped /\ MessageOK(msg[m])  BY OneMessage
  <1>2. /\ OpShares(m, r, kid, {Child(n)}) /\ Written(m, "composite", NoKid)
        /\ Child(n) # NoKid /\ ~msg[m].sealed
    BY DEF SetValue, Child
  <1>3. Child(n) \in Kids  BY <1>2, OneMessage
  <1>4. /\ MessageOK(r) /\ Rewritten(msg[m], r, "composite") /\ r.owned /\ ~r.slots["composite"].fromSrc
        /\ r.slots["composite"].kid = Child(n)
    <2>1. "composite" \in DEs /\ 0 \in Vals \cup {0}  BY DEF DEs
    <2> QED  BY SMT, <1>1, <1>3, <2>1, SetSound
  <1> HIDE DEF r
  <1>5. ChildFrom(m, r, {Child(n)})  BY <1>4 DEF ChildFrom
  <1>6. kid \in [Kids -> Vals \cup {0}] /\ {Child(n)} \in SUBSET Kids  BY <1>1, <1>3 DEF MessageTyped
  <1> QED  BY <1>2, <1>4, <1>5, <1>6, WrittenStep DEF DEs

LEMMA UnsetStep ==
  ASSUME MessageInv, NEW m \in Msgs, NEW de \in DEs, Unset(m, de)
  PROVE  MessageInv' /\ NoLeak
  <1> DEFINE r == [msg[m] EXCEPT !.slots[de] = Empty, !.owned = TRUE, !.bm = msg[m].bm \ {de}]
  <1>1. MessageTyped /\ MessageOK(msg[m])  BY OneMessage
  <1>2. OpShares(m, r, kid, {}) /\ Written(m, de, NoKid) /\ ~msg[m].sealed  BY DEF Unset, Op
  <1>3. /\ MessageOK(r) /\ Rewritten(msg[m], r, de) /\ r.owned /\ ~r.slots[de].fromSrc
        /\ r.slots[de].kid = NoKid
    BY <1>1, UnsetSound
  <1> HIDE DEF r
  <1>4. r.slots["composite"].kid \in {Child(m), NoKid}  BY <1>3 DEF Rewritten, Child, DEs
  <1>5. ChildFrom(m, r, {})  BY <1>4 DEF ChildFrom
  <1>6. kid \in [Kids -> Vals \cup {0}]  BY <1>1 DEF MessageTyped
  <1> QED  BY <1>2, <1>3, <1>5, <1>6, WrittenStep

\* A message that stays as it is keeps what the invariant says of it, as long as its
\* own child is not written or it is accounted for.
LEMMA SameSpans ==
  ASSUME MessageInv, NEW m \in Msgs, NEW r \in Messages, r.src = msg[m].src, (r.owned <=> msg[m].owned),
         \A de \in DEs : /\ r.slots[de].fromSrc <=> msg[m].slots[de].fromSrc
                         /\ r.slots[de].present <=> msg[m].slots[de].present,
         NEW ks, Follows(m, r, ks), UNCHANGED <<touched, fooled>>
  PROVE  Meets(m, r, ks)
  <1>1. FastPath /\ Untouched  BY DEF MessageInv
  <1>2. \A de \in DEs : AsWire(r, de) <=> AsWire(msg[m], de)  BY DEF AsWire
  <1>3. m \notin fooled' /\ r.src # NoWire /\ ~r.owned => Verbatim(r)  BY <1>1, <1>2 DEF FastPath, Verbatim
  <1>4. r.src # NoWire => \A de \in DEs \ touched'[m] : AsWire(r, de)
    BY <1>1, <1>2 DEF Untouched
  <1> QED  BY <1>3, <1>4 DEF Meets

LEMMA SealStep ==
  ASSUME MessageInv, NEW m \in Msgs, Seal(m)
  PROVE  MessageInv' /\ NoLeak
  <1> DEFINE r == [msg[m] EXCEPT !.sealed = TRUE]
  <1>1. MessageTyped /\ MessageOK(msg[m]) /\ msg[m] \in Messages  BY OneMessage
  <1>2. OpShares(m, r, kid, {}) /\ UNCHANGED <<touched, behind, fooled>> /\ ~msg[m].sealed  BY DEF Seal, Op
  <1>3. r \in Messages  BY <1>1 DEF Messages
  <1>4. r.src = msg[m].src /\ r.owned = msg[m].owned /\ r.bm = msg[m].bm /\ r.slots = msg[m].slots
    BY SMTT(30), <1>1 DEF Messages
  <1> HIDE DEF r
  <1>5. MessageOK(r)  BY SMT, <1>1, <1>3, <1>4 DEF MessageOK, SlotOK
  <1>6. Follows(m, r, kid)
    <2>1. ChildrenFollow  BY DEF MessageInv
    <2> QED  BY <1>2, <1>4, <2>1 DEF Follows, ChildrenFollow
  <1>7. Meets(m, r, kid)  BY <1>2, <1>3, <1>4, <1>6, SameSpans
  <1>8. ChildFrom(m, r, {})  BY <1>4 DEF ChildFrom, Child
  <1>9. HistoriesGrow(m) /\ WritesOnly(m, NoKid, kid)  BY <1>1, <1>2, HistoriesSame, ChildrenSame
  <1>10. Kept(m, r, NoKid)  BY <1>2 DEF Kept
  <1> QED  BY <1>2, <1>5, <1>7, <1>8, <1>9, <1>10, OpStep

LEMMA ChildSetPStep ==
  ASSUME MessageInv, NEW m \in Msgs, NEW v \in Vals, ChildSetP(m, v)
  PROVE  MessageInv' /\ NoLeak
  <1> DEFINE k == Child(m)
             ks == [kid EXCEPT ![k] = v]
  <1>1. MessageTyped /\ MessageOK(msg[m]) /\ msg[m] \in Messages  BY OneMessage
  <1>2. /\ OpShares(m, msg[m], ks, {}) /\ k # NoKid
        /\ behind' = behind \cup Unaware(NoKid, k) /\ UNCHANGED <<touched, fooled>>
    BY DEF ChildSetP, Op, Child
  <1>3. k \in Kids  BY <1>2, OneMessage
  <1>4. kid \in [Kids -> Vals \cup {0}]  BY <1>1 DEF MessageTyped
  <1>5. ks \in [Kids -> Vals \cup {0}] /\ \A x \in Kids \ {k} : ks[x] = kid[x]  BY SMT, <1>3, <1>4
  <1> HIDE DEF ks
  <1>6. Unaware(m, k) \subseteq Unaware(NoKid, k)  BY MessageAssumption DEF Unaware
  <1>7. msg[m].slots["composite"].fromSrc => m \in behind'
    BY <1>2, MessageAssumption DEF Unaware, Child
  <1>8. WritesOnly(m, k, ks)  BY <1>2, <1>5, <1>6 DEF WritesOnly
  <1>9. Follows(m, msg[m], ks)  BY <1>7 DEF Follows
  <1>10. Meets(m, msg[m], ks)  BY <1>1, <1>2, <1>9, SameSpans
  <1>11. ChildFrom(m, msg[m], {})  BY DEF ChildFrom, Child
  <1>12. HistoriesGrow(m)  BY <1>1, <1>2 DEF HistoriesGrow, MessageTyped, Unaware
  <1>13. Kept(m, msg[m], k)
    <2>1. msg'[m] = msg[m]  BY <1>1, <1>2, OpWrites
    <2>2. \A de \in DEs \ {"composite"} : View(msg', kid', m, de) = View(msg, kid, m, de)
      BY SMT, <1>1, <2>1, ViewKept
    <2> QED  BY <2>2 DEF Kept, Child
  <1> QED  BY <1>1, <1>2, <1>8, <1>10, <1>11, <1>12, <1>13, OpStep

\* q is r with its field de decoded, or found not to decode.
DecodedTo(r, q, de) ==
  /\ Rewritten(r, q, de) /\ (q.owned <=> r.owned) /\ q.slots[de].present /\ q.slots[de].fromSrc
  /\ q.slots[de].decoded <=> Decodes(r, de)
  /\ Decodes(r, de) /\ de = "scalar" => q.slots[de].val = r.src[de].val
  /\ Decodes(r, de) /\ de = "composite" => q.slots[de].kid = FreeKid
  /\ q.slots[de].kid \in {r.slots[de].kid} \cup FreeKids

\* Decoding a field takes the value from the wire.
LEMMA DecodeSound ==
  ASSUME NEW r, MessageOK(r), NEW de \in DEs, r.slots[de].present, ~r.slots[de].decoded,
         NewKid(r, de) => FreeKids # {}
  PROVE  LET q == ReadSlot(r, de, Decoded(r, de)) IN
         MessageOK(q) /\ DecodedTo(r, q, de) /\ r.slots[de].fromSrc
  <1> DEFINE s == r.slots[de]
             t == Decoded(r, de)
             q == ReadSlot(r, de, t)
  <1>1. r \in Messages /\ SlotOK(r, de) /\ s \in Slots /\ r.src[de] \in Bodies
    BY SMT DEF MessageOK, Messages
  <1>2. s.fromSrc /\ ~s.dirty /\ s.kid = NoKid /\ de \in r.bm /\ r.src[de].form # "absent"
    BY SMT, <1>1 DEF SlotOK
  <1>3. r.src[de].val \in Vals \cup {0}  BY SMT, <1>1 DEF Bodies
  <1>4. CASE ~Decodes(r, de)
    <2>1. t = s  BY <1>4 DEF Decoded
    <2> HIDE DEF t, q
    <2>2. Rewritten(r, q, de) /\ q.owned = r.owned /\ q.bm = r.bm /\ q.slots[de] = s
      BY SMT, <1>1, <2>1, SlotRead DEF q
    <2>3. SlotOK(q, de)  BY SMT, <1>1, <2>2 DEF SlotOK, Rewritten
    <2>4. MessageOK(q)  BY <2>2, <2>3, OthersSound
    <2>5. DecodedTo(r, q, de)  BY <1>2, <1>4, <2>2 DEF DecodedTo
    <2> QED  BY <1>2, <2>4, <2>5 DEF q, t
  <1>5. CASE Decodes(r, de)
    <2> DEFINE v == IF de = "scalar" THEN r.src[de].val ELSE s.val
               k == IF de = "composite" THEN FreeKid ELSE s.kid
    <2>1. r.src[de].form # "bad"  BY <1>2, <1>5 DEF Decodes
    <2>2. t = [s EXCEPT !.decoded = TRUE, !.val = v, !.kid = k]
      BY <1>2, <1>5 DEF Decoded
    <2>3. v \in Vals \cup {0}  BY SMT, <1>1, <1>3 DEF Slots
    <2>4. /\ k \in Kids \cup {NoKid} /\ k \in {s.kid} \cup FreeKids
          /\ de = "composite" => k \in Kids /\ k = FreeKid
          /\ de # "composite" => k = NoKid
      BY <1>2, FreeKidFree DEF NewKid
    <2>5. de = "scalar" => v = r.src[de].val  OBVIOUS
    <2> HIDE DEF v, k, q, t
    <2>6. t \in Slots  BY <1>1, <2>2, <2>3, <2>4 DEF Slots
    <2>7. /\ t.present = s.present /\ t.dirty = s.dirty /\ t.fromSrc = s.fromSrc
          /\ t.decoded /\ t.val = v /\ t.kid = k
      <3> HIDE DEF s
      <3> QED  BY SMT, <1>1, <2>2 DEF Slots
    <2>8. t.present /\ ~t.dirty /\ t.fromSrc  BY <1>2, <2>7
    <2>9. Rewritten(r, q, de) /\ q.owned = r.owned /\ q.bm = r.bm /\ q.slots[de] = t
      BY SMT, <1>1, <2>6, SlotRead DEF q
    <2>10. q.src = r.src  BY <2>9 DEF Rewritten
    <2>11. SlotOK(q, de)
      <3> HIDE DEF s
      <3> QED  BY SMT, <1>2, <2>1, <2>4, <2>5, <2>7, <2>8, <2>9, <2>10 DEF SlotOK
    <2>12. MessageOK(q)  BY <2>9, <2>11, OthersSound
    <2>13. DecodedTo(r, q, de)  BY <1>5, <2>4, <2>5, <2>7, <2>8, <2>9 DEF DecodedTo
    <2> QED  BY <1>2, <2>12, <2>13 DEF q, t
  <1> QED  BY <1>4, <1>5

LEMMA GetStep ==
  ASSUME MessageInv, NEW m \in Msgs, NEW de \in DEs, Get(m, de)
  PROVE  MessageInv' /\ NoLeak
  <1> DEFINE r == msg[m]
             q == ReadSlot(r, de, Decoded(r, de))
             ks == KidsAfter(r, de)
             k == IF NewKid(r, de) /\ Decodes(r, de) THEN FreeKid ELSE NoKid
  <1>1. MessageTyped /\ MessageOK(r) /\ r \in Messages /\ ChildrenFollow  BY OneMessage DEF MessageInv
  <1>2. OpShares(m, q, ks, {}) /\ UNCHANGED <<touched, behind, fooled>>  BY DEF Get, Op, ReadSlot
  <1>3. r.slots[de].present /\ ~r.slots[de].decoded /\ (NewKid(r, de) => FreeKids # {})  BY DEF Get
  <1>4. MessageOK(q) /\ DecodedTo(r, q, de) /\ r.slots[de].fromSrc  BY <1>1, <1>3, DecodeSound
  <1>5. kid \in [Kids -> Vals \cup {0}] /\ r.src[de].val \in Vals \cup {0}
    BY SMT, <1>1 DEF MessageTyped, Messages, Bodies
  <1>6. /\ ks \in [Kids -> Vals \cup {0}] /\ \A x \in Kids \ {k} : ks[x] = kid[x]
        /\ k \in FreeKids \cup {NoKid}
        /\ de = "composite" /\ Decodes(r, de) => ks[FreeKid] = r.src[de].val
        /\ de = "scalar" => ks = kid
    <2>1. CASE NewKid(r, de) /\ Decodes(r, de)
      <3>1. FreeKid \in FreeKids /\ FreeKid \in Kids  BY <1>3, <2>1, FreeKidFree
      <3>2. ks = [kid EXCEPT ![FreeKid] = r.src[de].val] /\ k = FreeKid /\ de = "composite"
        BY <2>1 DEF KidsAfter, NewKid
      <3> HIDE DEF ks, k
      <3>3. ks \in [Kids -> Vals \cup {0}] /\ ks[FreeKid] = r.src[de].val /\ \A x \in Kids \ {k} : ks[x] = kid[x]
        BY SMT, <1>5, <3>1, <3>2
      <3> QED  BY <3>1, <3>2, <3>3
    <2>2. CASE ~(NewKid(r, de) /\ Decodes(r, de))
      <3>1. ks = kid /\ k = NoKid  BY <2>2 DEF KidsAfter
      <3>2. de = "composite" => ~Decodes(r, de)  BY <1>3, <1>4, <2>2 DEF NewKid
      <3> QED  BY <1>5, <3>1, <3>2
    <2> QED  BY <2>1, <2>2
  <1> HIDE DEF q, ks, k
  <1>7. q \in Messages /\ q.src = r.src /\ \A d \in DEs \ {de} : q.slots[d] = r.slots[d]
    BY <1>4 DEF DecodedTo, Rewritten
  <1>8. \A d \in DEs : /\ q.slots[d].fromSrc <=> r.slots[d].fromSrc
                       /\ q.slots[d].present <=> r.slots[d].present
    BY <1>3, <1>4, <1>7 DEF DecodedTo
  <1>9. Follows(m, q, ks)
    <2>1. CASE de = "composite"  BY SMT, <1>4, <1>6, <1>7, <2>1 DEF Follows, DecodedTo
    <2>2. CASE de = "scalar"
      <3>1. q.slots["composite"] = r.slots["composite"]  BY <1>7, <2>2 DEF DEs
      <3> QED  BY SMT, <1>1, <1>2, <1>6, <1>7, <2>2, <3>1 DEF Follows, ChildrenFollow
    <2> QED  BY SMT, <2>1, <2>2 DEF DEs
  <1>10. Meets(m, q, ks)  BY <1>2, <1>4, <1>7, <1>8, <1>9, SameSpans DEF DecodedTo
  <1>11. ChildFrom(m, q, {})
    <2>1. q.slots["composite"].kid \in {Child(m)} \cup FreeKids  BY <1>4, <1>7 DEF Child, DEs, DecodedTo
    <2> QED  BY <2>1 DEF ChildFrom
  <1>12. WritesOnly(m, k, ks)  BY <1>6 DEF WritesOnly
  <1>13. HistoriesGrow(m)  BY <1>1, <1>2, HistoriesSame
  <1>14. ASSUME NEW d \in DEs PROVE View(msg', kid', m, d) = View(msg, kid, m, d)
    <2>1. msg'[m] = q /\ kid' = ks  BY <1>1, <1>2, <1>4, OpWrites
    <2>2. CASE d = de
      <3>1. CASE Decodes(r, de)
        <4>1. View(msg, kid, m, de) = <<"is", r.src[de].val>>  BY SMT, <1>3, <1>4, <3>1 DEF View
        <4>2. Decodes(q, de) /\ q.slots[de].present /\ q.slots[de].decoded
          BY <1>4, <3>1 DEF DecodedTo, Decodes
        <4>3. View(msg', kid', m, de) =
                <<"is", IF de = "composite" THEN ks[q.slots[de].kid] ELSE q.slots[de].val>>
          BY SMT, <2>1, <4>2 DEF View
        <4>4. de = "scalar" => q.slots[de].val = r.src[de].val  BY <1>4, <3>1 DEF DecodedTo
        <4>5. de = "composite" => ks[q.slots[de].kid] = r.src[de].val  BY <1>4, <1>6, <3>1 DEF DecodedTo
        <4> QED  BY SMT, <2>2, <4>1, <4>3, <4>4, <4>5 DEF DEs
      <3>2. CASE ~Decodes(r, de)
        <4>1. View(msg, kid, m, de) = <<"bad">>  BY SMT, <1>3, <3>2 DEF View
        <4>2. r.src[de].form = "bad" /\ q.src = r.src  BY <1>7, <3>2 DEF Decodes
        <4>3. ~Decodes(q, de) /\ q.slots[de].present  BY <1>4, <3>2, <4>2 DEF DecodedTo, Decodes
        <4>4. View(msg', kid', m, de) = <<"bad">>  BY SMTT(30), <2>1, <4>3 DEF View
        <4> QED  BY <2>2, <4>1, <4>4
      <3> QED  BY <3>1, <3>2
    <2>3. CASE d # de
      <3>1. q.slots[d] = r.slots[d] /\ q.src = r.src  BY <1>7, <2>3
      <3>2. SlotOK(r, d)  BY <1>1 DEF MessageOK
      <3>3. d = "composite" => ks = kid  BY <1>6, <2>3 DEF DEs
      <3> QED  BY SMT, <2>1, <3>1, <3>3 DEF View, Decodes
    <2> QED  BY <2>2, <2>3
  <1>15. Kept(m, q, k)  BY <1>6, <1>14 DEF Kept
  <1> QED  BY <1>2, <1>4, <1>10, <1>11, <1>12, <1>13, <1>15, OpStep

CloneOf(r, c) == [r EXCEPT !.owned = FALSE, !.sealed = FALSE, !.slots["composite"].kid = c]

\* q is r but for its child, which is c, and for being neither owned nor sealed.
ClonedTo(r, q, c) ==
  /\ q.src = r.src /\ ~q.owned
  /\ \A de \in DEs : /\ q.slots[de].present <=> r.slots[de].present
                     /\ q.slots[de].fromSrc <=> r.slots[de].fromSrc
                     /\ q.slots[de].decoded <=> r.slots[de].decoded
  /\ q.slots["composite"].kid = c

\* A clone is as sound as its original.
LEMMA CloneSound ==
  ASSUME NEW r, MessageOK(r), NEW c \in Kids \cup {NoKid},
         c = NoKid <=> r.slots["composite"].kid = NoKid
  PROVE  MessageOK(CloneOf(r, c)) /\ ClonedTo(r, CloneOf(r, c), c)
  <1> DEFINE s == r.slots["composite"]
             t == [s EXCEPT !.kid = c]
             f == [r.slots EXCEPT !["composite"] = t]
             q == [r EXCEPT !.owned = FALSE, !.sealed = FALSE, !.slots = f]
  <1>1. r \in Messages /\ s \in Slots  BY SMT DEF MessageOK, Messages, DEs
  <1>2. t \in Slots  BY <1>1 DEF Slots
  <1>3. /\ t.present = s.present /\ t.decoded = s.decoded /\ t.dirty = s.dirty
        /\ t.fromSrc = s.fromSrc /\ t.val = s.val /\ t.kid = c
    <2> HIDE DEF s
    <2> QED  BY SMT, <1>1 DEF Slots
  <1>4. c = NoKid => t = s  BY SMT, <1>1 DEF Slots
  <1> HIDE DEF t
  <1>5. f \in [DEs -> Slots] /\ f["composite"] = t /\ \A d \in DEs \ {"composite"} : f[d] = r.slots[d]
    BY <1>1, <1>2, SlotAssigned DEF DEs
  <1> HIDE DEF f
  <1>6. q \in Messages  BY <1>1, <1>5 DEF Messages
  <1>7. q.src = r.src /\ q.bm = r.bm /\ q.slots = f /\ ~q.owned  BY SMT, <1>1 DEF Messages
  <1>8. CloneOf(r, c) = q  BY DEF CloneOf, f, t
  <1> HIDE DEF q
  <1>9. \A d \in DEs \ {"composite"} : SlotOK(q, d)
    BY SMT, <1>5, <1>7 DEF MessageOK, SlotOK
  <1>10. SlotOK(q, "composite")
    <2>1. SlotOK(r, "composite")  BY DEF MessageOK, DEs
    <2>2. CASE c = NoKid
      <3>1. q.slots["composite"] = r.slots["composite"]  BY <1>4, <1>5, <1>7, <2>2
      <3> QED  BY SMT, <1>7, <2>1, <3>1 DEF SlotOK
    <2>3. CASE c # NoKid
      <3>1. s.decoded /\ s.kid # NoKid /\ c \in Kids  BY <2>1, <2>3 DEF SlotOK
      <3>2. s # Empty  BY SMT, <3>1 DEF Empty
      <3>3. s.present  BY <2>1, <3>2 DEF SlotOK
      <3>4. /\ "composite" \in r.bm
            /\ s.fromSrc => ~s.dirty /\ r.src["composite"].form \notin {"absent", "bad"}
            /\ ~s.fromSrc => s.dirty
        BY <2>1, <3>1, <3>3 DEF SlotOK
      <3> HIDE DEF s
      <3>5. t.present /\ t.decoded /\ t.kid \in Kids /\ t.dirty = s.dirty /\ t.fromSrc = s.fromSrc
        BY <1>3, <3>1, <3>3
      <3> QED  BY <1>5, <1>7, <3>4, <3>5 DEF SlotOK
    <2> QED  BY <2>2, <2>3
  <1>11. MessageOK(q)  BY <1>6, <1>7, <1>9, <1>10 DEF MessageOK
  <1>12. ClonedTo(r, q, c)  BY <1>3, <1>5, <1>7 DEF ClonedTo
  <1> QED  BY <1>8, <1>11, <1>12

LEMMA CloneStep ==
  ASSUME MessageInv, NEW m \in Msgs, Clone(m)
  PROVE  MessageInv' /\ NoLeak
  <1> DEFINE r == msg[m]
             k == Child(m)
             c == IF k = NoKid THEN NoKid ELSE FreeKid
             q == CloneOf(r, c)
             ks == IF k = NoKid THEN kid ELSE [kid EXCEPT ![FreeKid] = kid[k]]
  <1>0. ChildrenFollow /\ FastPath /\ Untouched  BY DEF MessageInv
  <1>1. Fresh \in Msgs /\ ~msg[Fresh].made  BY FreshMessage DEF Clone
  <1>2. MessageTyped /\ MessageOK(r) /\ r \in Messages /\ (k # NoKid => k \in Kids)  BY OneMessage
  <1>3. OpShares(Fresh, q, ks, {})  BY DEF Clone, Op, Child, CloneOf
  <1>4. /\ c \in FreeKids \cup {NoKid} /\ c \in Kids \cup {NoKid} /\ (c = NoKid <=> k = NoKid)
        /\ k # NoKid => c = FreeKid
    <2>1. k # NoKid => FreeKids # {}  BY DEF Clone, Child
    <2> QED  BY <2>1, FreeKidFree
  <1>5. kid \in [Kids -> Vals \cup {0}]  BY <1>2 DEF MessageTyped
  <1>6. /\ ks \in [Kids -> Vals \cup {0}] /\ \A x \in Kids \ {c} : ks[x] = kid[x]
        /\ k # NoKid => ks[c] = kid[k]
    <2>1. CASE k = NoKid  BY <1>5, <2>1
    <2>2. CASE k # NoKid
      <3>1. ks = [kid EXCEPT ![c] = kid[k]] /\ c \in Kids /\ kid[k] \in Vals \cup {0}
        BY <1>2, <1>4, <1>5, <2>2
      <3> HIDE DEF ks, c
      <3> QED  BY SMT, <1>5, <3>1
    <2> QED  BY <2>1, <2>2
  <1> HIDE DEF c
  <1>7. MessageOK(q) /\ ClonedTo(r, q, c)  BY <1>2, <1>4, CloneSound DEF Child
  <1> HIDE DEF q, ks
  <1>8. /\ touched' = [touched EXCEPT ![Fresh] = touched[m]]
        /\ behind' = (IF m \in behind THEN behind \cup {Fresh} ELSE behind)
        /\ fooled' = IF r.src # NoWire /\ (r.owned \/ m \in fooled)
                     THEN fooled \cup {Fresh} ELSE fooled
    BY DEF Clone
  <1>9. touched \in [Msgs -> SUBSET DEs] /\ behind \subseteq Msgs /\ fooled \subseteq Msgs
    BY <1>2 DEF MessageTyped
  <1>10. /\ touched' \in [Msgs -> SUBSET DEs] /\ \A n \in Msgs \ {Fresh} : touched'[n] = touched[n]
         /\ touched'[Fresh] = touched[m]
    BY SMT, <1>1, <1>8, <1>9
  <1>11. HistoriesGrow(Fresh)  BY <1>1, <1>8, <1>9, <1>10 DEF HistoriesGrow
  <1>12. WritesOnly(Fresh, c, ks)  BY <1>4, <1>6 DEF WritesOnly
  <1>13. Follows(Fresh, q, ks)
    <2> SUFFICES ASSUME Fresh \notin behind', q.slots["composite"].fromSrc, q.slots["composite"].decoded
                 PROVE  ks[q.slots["composite"].kid] = q.src["composite"].val
      BY DEF Follows
    <2>1. m \notin behind  BY <1>8
    <2>2. r.slots["composite"].fromSrc /\ r.slots["composite"].decoded  BY <1>7 DEF ClonedTo, DEs
    <2>3. kid[k] = r.src["composite"].val  BY <1>0, <2>1, <2>2 DEF ChildrenFollow, Child
    <2>4. SlotOK(r, "composite")  BY <1>2 DEF MessageOK, DEs
    <2>5. k # NoKid  BY <2>2, <2>4, MessageAssumption DEF SlotOK, Child
    <2> QED  BY <1>6, <1>7, <2>3, <2>5 DEF ClonedTo
  <1>14. Fresh \notin fooled' /\ q.src # NoWire /\ ~q.owned => Verbatim(q)
    <2> SUFFICES ASSUME Fresh \notin fooled', q.src # NoWire PROVE Verbatim(q)  OBVIOUS
    <2>1. q.src = r.src  BY <1>7 DEF ClonedTo
    <2>2. ~r.owned /\ m \notin fooled  BY <1>8, <2>1
    <2>3. Verbatim(r)  BY <1>0, <2>1, <2>2 DEF FastPath
    <2> QED  BY <1>7, <2>3 DEF ClonedTo, Verbatim, AsWire
  <1>15. q.src # NoWire => \A de \in DEs \ touched'[Fresh] : AsWire(q, de)
    BY <1>0, <1>7, <1>10 DEF Untouched, ClonedTo, AsWire
  <1>16. Meets(Fresh, q, ks)  BY <1>13, <1>14, <1>15 DEF Meets
  <1>17. ChildFrom(Fresh, q, {})  BY <1>4, <1>7 DEF ChildFrom, ClonedTo
  <1>18. Kept(Fresh, q, c)  BY <1>1, <1>4 DEF Kept
  <1> QED  BY <1>1, <1>3, <1>7, <1>11, <1>12, <1>16, <1>17, <1>18, OpStep

-----------------------------------------------------------------------------
(* The theorems.                                                             *)

LEMMA MessageNextStep ==
  ASSUME MessageInv, MessageNext
  PROVE  MessageInv' /\ NoLeak
  BY NewStep, UnmarshalStep, CloneStep, SealStep, SetStep, SetPStep, ChildSetPStep, SetValueStep,
     GetStep, UnsetStep DEF MessageNext

LEMMA MessageInvariant == MessageSpec => []MessageInv
  <1>1. MessageInv /\ [MessageNext]_messageVars => MessageInv'
    <2> SUFFICES ASSUME MessageInv, [MessageNext]_messageVars PROVE MessageInv'  OBVIOUS
    <2>1. CASE MessageNext  BY SMTT(30), <2>1, MessageNextStep
    <2>2. CASE UNCHANGED messageVars
      BY SMT, <2>2 DEF messageVars, MessageInv, MessageTyped, ChildrenFollow, FastPath, Untouched,
         ChildrenApart, Child
    <2> QED  BY <2>1, <2>2
  <1> QED  BY MessageInitial, <1>1, PTL DEF MessageSpec

\* What is written of a field is what a reader sees, if the message is neither behind
\* nor fooled.
LEMMA MarshalReads ==
  ASSUME MessageInv, NEW m \in Msgs, NEW de \in DEs, m \notin behind \cup fooled
  PROVE  Reads(Marshal(m)[de]) = View(msg, kid, m, de)
  <1> DEFINE r == msg[m]
             s == msg[m].slots[de]
  <1>0. ChildrenFollow /\ FastPath /\ MessageTyped /\ MessageOK(r) /\ SlotOK(r, de)
    BY OneMessage DEF MessageInv, MessageOK
  <1>1. Absent.form = "absent" /\ \A v : canon(v).form = "canon" /\ canon(v).val = v
    BY DEF Absent, canon
  <1>2. Reads(Absent) = <<"none">> /\ \A v : Reads(canon(v)) = <<"is", v>>
    BY SMT, <1>1 DEF Reads
  <1>3. CASE s.fromSrc
    <2>1. s.present /\ ~s.dirty /\ r.src[de].form # "absent"  BY SMT, <1>0, <1>3 DEF SlotOK
    <2>2. Marshal(m)[de] = r.src[de]
      <3>1. CASE r.src # NoWire /\ ~r.owned  BY <3>1 DEF Marshal
      <3>2. CASE ~(r.src # NoWire /\ ~r.owned)  BY <1>3, <2>1, <3>2 DEF Marshal, appendField
      <3> QED  BY <3>1, <3>2
    <2>3. CASE r.src[de].form = "bad"
      <3>1. ~s.decoded  BY SMT, <1>0, <1>3, <2>3 DEF SlotOK
      <3>2. ~Decodes(r, de)  BY <1>3, <2>3, <3>1 DEF Decodes
      <3>3. View(msg, kid, m, de) = <<"bad">>  BY SMT, <2>1, <3>2 DEF View
      <3>4. Reads(r.src[de]) = <<"bad">>  BY SMT, <2>3 DEF Reads
      <3> QED  BY <2>2, <3>3, <3>4
    <2>4. CASE r.src[de].form # "bad"
      <3>1. Decodes(r, de)  BY <2>4 DEF Decodes
      <3>2. Reads(r.src[de]) = <<"is", r.src[de].val>>  BY SMT, <2>1, <2>4 DEF Reads
      <3>3. CASE ~s.decoded  BY SMTT(30), <1>3, <2>1, <2>2, <3>1, <3>2, <3>3 DEF View
      <3>4. CASE s.decoded
        <4>1. View(msg, kid, m, de) = <<"is", IF de = "composite" THEN kid[s.kid] ELSE s.val>>
          BY SMTT(30), <2>1, <3>1, <3>4 DEF View
        <4>2. de = "scalar" => s.val = r.src[de].val  BY SMT, <1>0, <1>3, <3>4 DEF SlotOK
        <4>3. de = "composite" => kid[s.kid] = r.src[de].val  BY <1>0, <1>3, <3>4 DEF ChildrenFollow
        <4> QED  BY SMTT(30), <2>2, <3>2, <4>1, <4>2, <4>3 DEF DEs
      <3> QED  BY <3>3, <3>4
    <2> QED  BY <2>3, <2>4
  <1>4. CASE ~s.fromSrc /\ r.src # NoWire /\ ~r.owned
    <2>1. Verbatim(r)  BY <1>0, <1>4 DEF FastPath
    <2>2. r.src[de] = Absent  BY <1>4, <2>1 DEF Verbatim, AsWire
    <2>3. ~s.present  BY <1>4, <2>1 DEF Verbatim, AsWire
    <2>4. Marshal(m)[de] = Absent  BY <1>4, <2>2 DEF Marshal
    <2>5. View(msg, kid, m, de) = <<"none">>  BY SMT, <2>3 DEF View
    <2> QED  BY <1>2, <2>4, <2>5
  <1>5. CASE ~s.fromSrc /\ ~(r.src # NoWire /\ ~r.owned)
    <2>1. Marshal(m)[de] = IF s.present THEN appendField(m, de) ELSE Absent  BY <1>5 DEF Marshal
    <2>2. CASE ~s.present
      <3>1. View(msg, kid, m, de) = <<"none">>  BY SMT, <2>2 DEF View
      <3> QED  BY <1>2, <2>1, <2>2, <3>1
    <2>3. CASE s.present
      <3>1. Decodes(r, de)  BY <1>5 DEF Decodes
      <3>2. View(msg, kid, m, de) = <<"is", IF de = "composite" THEN kid[s.kid] ELSE s.val>>
        BY SMT, <1>5, <2>3, <3>1 DEF View
      <3>3. appendField(m, de) = canon(IF de = "composite" THEN kid[s.kid] ELSE s.val)
        BY <1>5 DEF appendField
      <3> QED  BY <1>2, <2>1, <2>3, <3>2, <3>3
    <2> QED  BY <2>2, <2>3
  <1> QED  BY <1>3, <1>4, <1>5

\* A field that was not touched is marshalled to its bytes.
LEMMA MarshalVerbatim ==
  ASSUME MessageInv, NEW m \in Msgs, NEW de \in DEs, msg[m].src # NoWire, de \notin touched[m]
  PROVE  Marshal(m)[de] = msg[m].src[de]
  <1>1. SlotOK(msg[m], de) /\ AsWire(msg[m], de)  BY OneMessage DEF MessageInv, MessageOK, Untouched
  <1>2. CASE ~msg[m].owned  BY <1>2 DEF Marshal
  <1>3. CASE msg[m].owned
    <2>1. Marshal(m)[de] = IF msg[m].slots[de].present THEN appendField(m, de) ELSE Absent
      BY <1>3 DEF Marshal
    <2>2. CASE msg[m].slots[de].fromSrc
      <3>1. msg[m].slots[de].present /\ ~msg[m].slots[de].dirty  BY <1>1, <2>2 DEF SlotOK
      <3> QED  BY <2>1, <2>2, <3>1 DEF appendField
    <2>3. CASE ~msg[m].slots[de].fromSrc  BY <1>1, <2>1, <2>3 DEF AsWire
    <2> QED  BY <2>2, <2>3
  <1> QED  BY <1>2, <1>3

\* Whatever is decoded, set, unset, cloned and sealed, Marshal writes what readers of
\* the message see, and an untouched field as it came.
THEOREM MarshalStaysTrue == MessageSpec => []MarshalTells
  <1>1. MessageInv => MarshalTells
    <2> SUFFICES ASSUME MessageInv, NEW m \in Made, NEW de \in DEs
                 PROVE  /\ m \notin behind \cup fooled => Reads(Marshal(m)[de]) = View(msg, kid, m, de)
                        /\ msg[m].src # NoWire /\ de \notin touched[m] => Marshal(m)[de] = msg[m].src[de]
                        /\ de \in msg[m].bm <=> msg[m].slots[de].present
      BY DEF MarshalTells
    <2>1. m \in Msgs  BY DEF Made
    <2>2. SlotOK(msg[m], de)  BY <2>1, OneMessage DEF MessageOK
    <2>3. de \in msg[m].bm <=> msg[m].slots[de].present  BY <2>2 DEF SlotOK
    <2> QED  BY <2>1, <2>3, MarshalReads, MarshalVerbatim
  <1> QED  BY <1>1, MessageInvariant, PTL

\* No operation on a message is seen by the readers of another, and none of a sealed
\* one, but through a child that a caller shared or wrote to itself.
THEOREM MessagesApart == MessageSpec => NoLeakage
  <1>1. MessageInv /\ [MessageNext]_messageVars => [NoLeak]_messageVars  BY MessageNextStep
  <1>2. MessageSpec => [][NoLeak]_messageVars  BY <1>1, MessageInvariant, PTL DEF MessageSpec
  <1> QED  BY <1>2 DEF NoLeakage, NoLeak
==============================================================================
