---------------------------- MODULE DurableQueue ----------------------------
(***************************************************************************)
(* What space.Store promises, without log, replay or compaction: one       *)
(* durable FIFO per key.  A step of the world, a crash included, may       *)
(* append payloads that were pushed and drop payloads from the head whose  *)
(* take was begun.  It never reorders, never drops from the middle or the  *)
(* tail, and never brings back a payload that was delivered.               *)
(***************************************************************************)
EXTENDS Naturals, Sequences

CONSTANTS Keys, Msgs

VARIABLES queue, pushed, taken, delivered

vars == <<queue, pushed, taken, delivered>>

Elements(s) == {s[i] : i \in DOMAIN s}

Init ==
  /\ queue = [k \in Keys |-> <<>>]
  /\ pushed = {} /\ taken = {} /\ delivered = {}

\* Queue q becomes r: n payloads left at the head, the others kept their
\* order, and payloads never delivered joined at the tail.
Advances(q, r) ==
  \E n \in 0 .. Len(q) :
    LET kept == SubSeq(q, n + 1, Len(q)) IN
    /\ Len(kept) <= Len(r) /\ SubSeq(r, 1, Len(kept)) = kept
    /\ Elements(SubSeq(q, 1, n)) \subseteq taken'
    /\ Elements(SubSeq(r, Len(kept) + 1, Len(r))) \subseteq pushed' \ delivered'

Next ==
  /\ pushed \subseteq pushed' /\ taken \subseteq taken'
  /\ delivered \subseteq delivered' /\ delivered' \subseteq taken'
  /\ \A k \in Keys : Advances(queue[k], queue'[k])

Spec == Init /\ [][Next]_vars
==============================================================================
