-------------------------------- MODULE Pool --------------------------------
(* The connection pool of link/pool.go: a fixed number of slots, handed out    *)
(* round robin, whose broken links are replaced by background goroutines with  *)
(* backoff, and a Close that waits for those goroutines. Callers keep a link   *)
(* they got for as long as they like and Discard it when it fails.             *)
EXTENDS Naturals, FiniteSets

CONSTANTS
  Size,         \* number of slots
  Links,        \* link objects; one is used again once nothing refers to it
  NoLink,       \* nil
  Users,        \* callers of Get and Discard
  Reconnectors, \* goroutines that reconnect can start
  PoolClosers   \* callers of Close

ASSUME PoolAssumption == Size \in Nat \ {0} /\ NoLink \notin Links

VARIABLES
  slots,     \* p.slots
  next,      \* p.next
  done,      \* p.done is closed
  wg,        \* the counter of p.wg
  open,      \* links whose connection is open at this end
  user,      \* where a caller is
  held,      \* the link it works with
  emptied,   \* the slot that its Discard emptied
  rec,       \* where a reconnect goroutine is
  slotOf,    \* the slot it is to fill
  got,       \* the link it dialled
  closer     \* where a caller of Close is

poolVars == <<slots, next, done, wg, open, user, held, emptied, rec, slotOf, got, closer>>
users == <<user, held, emptied>>
goroutines == <<rec, slotOf, got>>

Idx == 0 .. Size - 1

\* No variable of the program refers to the link.
Unused(l) == /\ l \notin open
             /\ \A i \in Idx : slots[i] # l
             /\ \A u \in Users : held[u] # l

\* Links, and idle goroutines, are alike: it does not matter which one is taken.
Numberings(S) == {f \in [Idx -> S] : \A i, j \in Idx : f[i] = f[j] => i = j}
Numbered(S) == CHOOSE f \in Numberings(S) : TRUE

\* There are enough of both for every slot.
ASSUME EnoughAssumption == Numberings(Links) # {} /\ Numberings(Reconnectors) # {}

\* NewPool: each slot is dialled once, and handed to reconnect when that fails.
PoolInit ==
  \E up \in SUBSET Idx :
    LET l == Numbered(Links)
        r == Numbered(Reconnectors)
    IN  /\ slots = [i \in Idx |-> IF i \in up THEN l[i] ELSE NoLink]
        /\ open = {l[i] : i \in up}
        /\ wg = Size - Cardinality(up)
        /\ rec = [g \in Reconnectors |-> IF \E i \in Idx \ up : r[i] = g THEN "check" ELSE "idle"]
        /\ slotOf = [g \in Reconnectors |->
                       IF \E i \in Idx \ up : r[i] = g THEN CHOOSE i \in Idx : r[i] = g ELSE 0]
        /\ next = 0 /\ done = FALSE
        /\ user = [u \in Users |-> "idle"]
        /\ held = [u \in Users |-> NoLink]
        /\ emptied = [u \in Users |-> 0]
        /\ got = [g \in Reconnectors |-> NoLink]
        /\ closer = [c \in PoolClosers |-> "idle"]
-----------------------------------------------------------------------------
\* Get, up to its look at p.done.
GetCall(u) ==
  /\ user[u] = "idle" /\ held[u] = NoLink /\ ~done
  /\ user' = [user EXCEPT ![u] = "get"]
  /\ UNCHANGED <<slots, next, done, wg, open, held, emptied, goroutines, closer>>

\* Get under p.mu: the first healthy slot from next on, or ErrNoHealthy.
GetPick(u) ==
  /\ user[u] = "get"
  /\ user' = [user EXCEPT ![u] = "idle"]
  /\ \/ \E i \in Idx :
          LET idx == (next + i) % Size
          IN  /\ slots[idx] # NoLink
              /\ \A j \in 0 .. i - 1 : slots[(next + j) % Size] = NoLink
              /\ next' = (idx + 1) % Size
              /\ held' = [held EXCEPT ![u] = slots[idx]]
     \/ /\ \A i \in Idx : slots[i] = NoLink
        /\ UNCHANGED <<next, held>>
  /\ UNCHANGED <<slots, done, wg, open, emptied, goroutines, closer>>

\* A caller is done with a link that works.
Release(u) ==
  /\ user[u] = "idle" /\ held[u] # NoLink
  /\ held' = [held EXCEPT ![u] = NoLink]
  /\ UNCHANGED <<slots, next, done, wg, open, user, emptied, goroutines, closer>>

\* Discard: l.Close() comes before p.mu is taken.
DiscardClose(u) ==
  /\ user[u] = "idle" /\ held[u] # NoLink
  /\ open' = open \ {held[u]}
  /\ user' = [user EXCEPT ![u] = "discard"]
  /\ UNCHANGED <<slots, next, done, wg, held, emptied, goroutines, closer>>

\* Discard under p.mu. A link that is in no slot any more is left at that.
DiscardSlot(u) ==
  /\ user[u] = "discard"
  /\ \/ \E i \in Idx : /\ slots[i] = held[u]
                       /\ slots' = [slots EXCEPT ![i] = NoLink]
                       /\ emptied' = [emptied EXCEPT ![u] = i]
                       /\ user' = [user EXCEPT ![u] = "schedule"]
     \/ /\ \A i \in Idx : slots[i] # held[u]
        /\ user' = [user EXCEPT ![u] = "idle"]
        /\ UNCHANGED <<slots, emptied>>
  /\ held' = [held EXCEPT ![u] = NoLink]
  /\ UNCHANGED <<next, done, wg, open, goroutines, closer>>

\* reconnect, called by Discard when it has given p.mu back: wg.Add and go.
reconnect(u) ==
  /\ user[u] = "schedule"
  /\ user' = [user EXCEPT ![u] = "idle"]
  /\ emptied' = [emptied EXCEPT ![u] = 0]
  /\ wg' = wg + 1
  /\ \E g \in Reconnectors : rec[g] = "idle"
  /\ LET r == CHOOSE g \in Reconnectors : rec[g] = "idle"
     IN  /\ rec' = [rec EXCEPT ![r] = "check"]
         /\ slotOf' = [slotOf EXCEPT ![r] = emptied[u]]
  /\ UNCHANGED <<slots, next, done, open, held, got, closer>>
-----------------------------------------------------------------------------
\* The top of the goroutine's loop.
RecCheck(r) ==
  /\ rec[r] = "check"
  /\ rec' = [rec EXCEPT ![r] = IF done THEN "idle" ELSE "dial"]
  /\ wg' = IF done THEN wg - 1 ELSE wg
  /\ UNCHANGED <<slots, next, done, open, users, slotOf, got, closer>>

\* Mutant: one failed dial and the goroutine gives up.
DialFailsOnce(r) ==
  /\ rec[r] = "dial"
  /\ rec' = [rec EXCEPT ![r] = "idle"]
  /\ wg' = wg - 1
  /\ UNCHANGED <<slots, next, done, open, users, slotOf, got, closer>>

DialFails(r) ==
  /\ rec[r] = "dial"
  /\ rec' = [rec EXCEPT ![r] = "backoff"]
  /\ UNCHANGED <<slots, next, done, wg, open, users, slotOf, got, closer>>

DialSucceeds(r) ==
  /\ rec[r] = "dial"
  /\ \E l \in Links : Unused(l)
  /\ LET l == CHOOSE k \in Links : Unused(k)
     IN  open' = open \cup {l} /\ got' = [got EXCEPT ![r] = l]
  /\ rec' = [rec EXCEPT ![r] = "install"]
  /\ UNCHANGED <<slots, next, done, wg, users, slotOf, closer>>

\* The timer fires, or p.done does.
Backoff(r) ==
  /\ rec[r] = "backoff"
  /\ \/ rec' = [rec EXCEPT ![r] = "check"] /\ UNCHANGED wg
     \/ done /\ rec' = [rec EXCEPT ![r] = "idle"] /\ wg' = wg - 1
  /\ UNCHANGED <<slots, next, done, open, users, slotOf, got, closer>>

\* Mutant: p.done is not looked at again after the dial.
InstallUnchecked(r) ==
  /\ rec[r] = "install"
  /\ slots' = [slots EXCEPT ![slotOf[r]] = got[r]]
  /\ rec' = [rec EXCEPT ![r] = "idle"]
  /\ wg' = wg - 1
  /\ got' = [got EXCEPT ![r] = NoLink]
  /\ UNCHANGED <<next, done, open, users, slotOf, closer>>

\* Under p.mu: the link goes into its slot, unless the pool was closed meanwhile.
Install(r) ==
  /\ rec[r] = "install"
  /\ IF done
     THEN open' = open \ {got[r]} /\ UNCHANGED slots
     ELSE slots' = [slots EXCEPT ![slotOf[r]] = got[r]] /\ UNCHANGED open
  /\ rec' = [rec EXCEPT ![r] = "idle"]
  /\ wg' = wg - 1
  /\ got' = [got EXCEPT ![r] = NoLink]
  /\ UNCHANGED <<next, done, users, slotOf, closer>>
-----------------------------------------------------------------------------
CloseDone(c) ==
  /\ closer[c] = "idle"
  /\ done' = TRUE
  /\ closer' = [closer EXCEPT ![c] = "sweep"]
  /\ UNCHANGED <<slots, next, wg, open, users, goroutines>>

CloseSlots(c) ==
  /\ closer[c] = "sweep"
  /\ open' = open \ {slots[i] : i \in Idx}
  /\ slots' = [i \in Idx |-> NoLink]
  /\ closer' = [closer EXCEPT ![c] = "wait"]
  /\ UNCHANGED <<next, done, wg, users, goroutines>>

CloseWait(c) ==
  /\ closer[c] = "wait" /\ wg = 0
  /\ closer' = [closer EXCEPT ![c] = "returned"]
  /\ UNCHANGED <<slots, next, done, wg, open, users, goroutines>>

PoolWork(r) == RecCheck(r) \/ DialFails(r) \/ DialSucceeds(r) \/ Backoff(r) \/ Install(r)
PoolClose(c) == CloseSlots(c) \/ CloseWait(c)

PoolNext ==
  \/ \E u \in Users : \/ GetCall(u) \/ GetPick(u) \/ Release(u)
                      \/ DiscardClose(u) \/ DiscardSlot(u) \/ reconnect(u)
  \/ \E r \in Reconnectors : PoolWork(r)
  \/ \E c \in PoolClosers : CloseDone(c) \/ PoolClose(c)

PoolSpec == PoolInit /\ [][PoolNext]_poolVars
-----------------------------------------------------------------------------
(* Properties. *)

\* One goroutine at most works for a slot, and the slot is empty meanwhile, the
\* Discard that has yet to start one included: two callers that Discard the same
\* link, the second after the slot was filled again, never overwrite (and so
\* leak) a link that is in use.
OnePerSlot ==
  \A i \in Idx :
    LET working == {r \in Reconnectors : rec[r] # "idle" /\ slotOf[r] = i}
        coming == {u \in Users : user[u] = "schedule" /\ emptied[u] = i}
    IN  /\ Cardinality(working) + Cardinality(coming) <= 1
        /\ working \cup coming # {} => slots[i] = NoLink

\* A slot that is empty while the pool is open has a goroutine working for it.
NoSlotForgotten ==
  \A i \in Idx : slots[i] = NoLink /\ ~done =>
    \/ \E r \in Reconnectors : rec[r] # "idle" /\ slotOf[r] = i
    \/ \E u \in Users : user[u] = "schedule" /\ emptied[u] = i

\* Once a Close has returned every link the pool dialled is closed, although a
\* Discard may start a goroutine after Close's Wait: it stops before it dials.
ClosedForGood == (\E c \in PoolClosers : closer[c] = "returned") => open = {}

\* A slot that loses its link gets another one while the pool is open, when
\* dialling does not fail for ever.
SlotsRefill == \A i \in Idx : (slots[i] = NoLink) ~> (slots[i] # NoLink \/ done)

\* Close returns.
PoolCloses == \A c \in PoolClosers : (closer[c] = "sweep") ~> (closer[c] = "returned")

\* The slots and the links in them are kept in step by Get, Discard, the goroutines
\* that reconnect, and Close.
PoolSound == OnePerSlot /\ NoSlotForgotten /\ ClosedForGood

\* The pool keeps filling its slots until it is closed, and then Close returns.
PoolServes == SlotsRefill /\ PoolCloses
=============================================================================
