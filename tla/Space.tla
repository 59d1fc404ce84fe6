-------------------------------- MODULE Space --------------------------------
(* The in-process tuple space of space/local.go: queues of entries by key, on  *)
(* which In and Rd wait. A waiter takes a copy of the notify channel under the *)
(* lock and selects on it afterwards; Out and Close close that channel and put *)
(* a new one in its place. Every method holds the lock for all it does, so one *)
(* step is one critical section.                                               *)
EXTENDS Naturals, Sequences, FiniteSets

CONSTANTS
  Keys,     \* keys of the space
  Entries,  \* values that are put, each at most once
  Waiters   \* callers of In and Rd

VARIABLES
  data,     \* l.data
  shut,     \* l.closed
  waiter,   \* a call: "idle", "check", "asleep", "woken", "got", "cancelled" or "closed"
  call,     \* its key and whether it takes the entry
  sent,     \* by key, every entry that Out enqueued, in order
  taken     \* by key, every entry that In or Inp returned, in order

spaceVars == <<data, shut, waiter, call, sent, taken>>

Used == UNION {{sent[k][i] : i \in 1 .. Len(sent[k])} : k \in Keys}
\* The entry that is put next; they are alike.
NextEntry == CHOOSE e \in Entries : e \notin Used

NoCall == [key |-> CHOOSE k \in Keys : TRUE, take |-> FALSE]

\* NewLocal.
SpaceInit ==
  /\ data = [k \in Keys |-> <<>>]
  /\ shut = FALSE
  /\ waiter = [w \in Waiters |-> "idle"]
  /\ call = [w \in Waiters |-> NoCall]
  /\ sent = [k \in Keys |-> <<>>]
  /\ taken = [k \in Keys |-> <<>>]

\* signal: closing the channel wakes whoever holds it.
signal == waiter' = [w \in Waiters |-> IF waiter[w] = "asleep" THEN "woken" ELSE waiter[w]]

\* Mutant: only one waiter is woken, as with a channel that is sent to.
OutWakesOne(k, e) ==
  /\ e \notin Used /\ e = NextEntry
  /\ ~shut
  /\ data' = [data EXCEPT ![k] = Append(@, e)]
  /\ sent' = [sent EXCEPT ![k] = Append(@, e)]
  /\ IF \E w \in Waiters : waiter[w] = "asleep"
     THEN \E w \in Waiters : /\ waiter[w] = "asleep"
                             /\ waiter' = [waiter EXCEPT ![w] = "woken"]
     ELSE UNCHANGED waiter
  /\ UNCHANGED <<shut, call, taken>>

\* Out; on a closed space it does nothing.
Out(k, e) ==
  /\ e \notin Used /\ e = NextEntry
  /\ ~shut
  /\ data' = [data EXCEPT ![k] = Append(@, e)]
  /\ sent' = [sent EXCEPT ![k] = Append(@, e)]
  /\ signal
  /\ UNCHANGED <<shut, call, taken>>

\* In and Rd are called.
Call(w, k, take) ==
  /\ waiter[w] = "idle"
  /\ waiter' = [waiter EXCEPT ![w] = "check"]
  /\ call' = [call EXCEPT ![w] = [key |-> k, take |-> take]]
  /\ UNCHANGED <<data, shut, sent, taken>>

\* pop, and its caller's return.
pop(k) ==
  /\ data' = [data EXCEPT ![k] = Tail(@)]
  /\ taken' = [taken EXCEPT ![k] = Append(@, Head(data[k]))]

\* A call returns; its arguments are of no more use.
Returns(w, how) ==
  /\ waiter' = [waiter EXCEPT ![w] = how]
  /\ call' = [call EXCEPT ![w] = NoCall]

\* wait under the lock: closed, an entry, or a copy of the channel.
Check(w) ==
  LET k == call[w].key
  IN  /\ waiter[w] = "check"
      /\ \/ shut /\ Returns(w, "closed") /\ UNCHANGED <<data, taken>>
         \/ /\ ~shut /\ data[k] # <<>> /\ Returns(w, "got")
            /\ IF call[w].take THEN pop(k) ELSE UNCHANGED <<data, taken>>
         \/ /\ ~shut /\ data[k] = <<>>
            /\ waiter' = [waiter EXCEPT ![w] = "asleep"]
            /\ UNCHANGED <<call, data, taken>>
      /\ UNCHANGED <<shut, sent>>

\* The select: the channel was closed ...
Wake(w) ==
  /\ waiter[w] = "woken"
  /\ waiter' = [waiter EXCEPT ![w] = "check"]
  /\ UNCHANGED <<data, shut, call, sent, taken>>

\* ... or the context is cancelled.
Cancel(w) ==
  /\ waiter[w] \in {"asleep", "woken"}
  /\ Returns(w, "cancelled")
  /\ UNCHANGED <<data, shut, sent, taken>>

\* Inp, which a closed space still serves. (Rdp and Len change nothing.)
Inp(k) ==
  /\ data[k] # <<>>
  /\ pop(k)
  /\ UNCHANGED <<shut, waiter, call, sent>>

SpaceClose ==
  /\ ~shut
  /\ shut' = TRUE
  /\ signal
  /\ UNCHANGED <<data, call, sent, taken>>

Waiting(w) == Check(w) \/ Wake(w)

SpaceNext ==
  \/ \E k \in Keys : Inp(k) \/ \E e \in Entries : Out(k, e)
  \/ \E w \in Waiters : \/ Waiting(w) \/ Cancel(w)
                       \/ \E k \in Keys, take \in BOOLEAN : Call(w, k, take)
  \/ SpaceClose

SpaceSpec == SpaceInit /\ [][SpaceNext]_spaceVars
-----------------------------------------------------------------------------
(* Properties. *)

\* No wakeup is lost: a caller sleeps on a channel that has not been closed only
\* while its key has no entry and the space is open, whatever came between its
\* look at the queue and its select.
NoSleeperForgotten == \A w \in Waiters : waiter[w] = "asleep" => data[call[w].key] = <<>> /\ ~shut

\* Each entry that was put is returned by at most one In or Inp, in the order of
\* the Outs of its key, and none disappears.
InOrderOnce == \A k \in Keys : sent[k] = taken[k] \o data[k]

\* Every caller that waits when the space is closed returns.
CloseUnblocks == \A w \in Waiters :
  (shut /\ waiter[w] \in {"check", "asleep", "woken"}) ~> (waiter[w] \in {"closed", "cancelled"})

\* A caller of Rd, whom nobody can outrun to an entry that stays, returns once
\* there is one: as long as the key has entries it is not asleep for ever.
ReadersServed == \A w \in Waiters :
  (waiter[w] \in {"check", "asleep", "woken"} /\ ~call[w].take)
    ~> (waiter[w] \in {"got", "closed", "cancelled"} \/ data[call[w].key] = <<>>)

\* Whoever waits on the space is served: in order, once per entry, without sleeping
\* through an Out or a Close.
WaitersServed == [](NoSleeperForgotten /\ InOrderOnce) /\ CloseUnblocks /\ ReadersServed
=============================================================================
