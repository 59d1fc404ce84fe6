-------------------------------- MODULE Mux --------------------------------
(***************************************************************************)
(* mux/mux.go over link/link.go: concurrent request/response exchanges on  *)
(* one full-duplex link.  Callers register a key in pending, send, and     *)
(* select; one reader goroutine hands each inbound frame to the request    *)
(* registered under its key, or to the unsolicited handler.                *)
(*                                                                         *)
(* Each element of Reqs is one call of Request, so it also names its       *)
(* response channel and the peer's answer to it.                           *)
(***************************************************************************)
EXTENDS Naturals, Sequences

CONSTANTS
  Reqs,      \* calls of Request
  Keys,      \* correlation keys
  NoKey,     \* the keyer failed
  None,      \* no request, no frame
  KeyOf,     \* the key of each request, or NoKey
  PeerKeys,  \* the keys of peer-initiated frames (NoKey: matches nothing)
  Closers,   \* goroutines that call Close
  Serial,    \* callers use a key again only once the last call with it returned
  MaxPeer    \* bound: peer-initiated frames

\* An inbound frame: its key, and the request it answers if it does.
Frame == [key : Keys \cup {NoKey}, ans : Reqs \cup {None}]

ASSUME MuxAssumption ==
  /\ NoKey \notin Keys /\ None \notin Reqs /\ None \notin Frame
  /\ KeyOf \in [Reqs -> Keys \cup {NoKey}]
  /\ PeerKeys \subseteq Keys \cup {NoKey}
  /\ Serial \in BOOLEAN /\ MaxPeer \in Nat

VARIABLES
  pc,        \* per request: "new", "send", "wait" (the select), "leave", "done"
  outcome,   \* per request: how its select, or the step before it, ended
  got,       \* per request: the frame it returns
  pending,   \* m.pending: the request registered under each key
  ch,        \* per request: the frame in its buffered channel
  reader,    \* readLoop: "receive", "lookup", "deliver", "unsolicited", "stopped"
  msg,       \* the frame the reader holds
  target,    \* the request whose channel the reader took out of pending
  closed,    \* m.done is closed
  cause,     \* m.readErr: "none", "closed" (ErrClosed), "read"
  link,      \* "open", "broken" (the peer or the network failed), "closed"
  closer,    \* per Close call: "idle", "link", "wait", "done"
  sent,      \* requests on the wire the peer has not answered
  inbound,   \* frames on their way to the reader, in order
  peer,      \* number of peer-initiated frames so far
  strays     \* history: frames handed to the unsolicited handler

calls == <<pc, outcome, got>>
loop == <<reader, msg, target>>
stopping == <<closed, cause>>
wire == <<sent, inbound, peer>>
vars == <<calls, pending, ch, loop, stopping, link, closer, wire, strays>>

Outcomes == {"pending", "key", "duplicate", "send", "response", "timeout", "stopped"}

Init ==
  /\ pc = [r \in Reqs |-> "new"] /\ outcome = [r \in Reqs |-> "pending"]
  /\ got = [r \in Reqs |-> None]
  /\ pending = [k \in Keys |-> None]
  /\ ch = [r \in Reqs |-> None]
  /\ reader = "receive" /\ msg = None /\ target = None
  /\ closed = FALSE /\ cause = "none"
  /\ link = "open"
  /\ closer = [c \in Closers |-> "idle"]
  /\ sent = {} /\ inbound = <<>> /\ peer = 0
  /\ strays = {}

-----------------------------------------------------------------------------
(* Request.                                                                *)

\* In flight: between its registration and the end of its deferred delete.
InFlight(r) == pc[r] \in {"send", "wait", "leave"}

Returns(r, p, o) ==
  /\ pc' = [pc EXCEPT ![r] = p]
  /\ outcome' = [outcome EXCEPT ![r] = o]
  /\ UNCHANGED got

\* Mutant: the request sends without registering.
RegisterForgets(r) ==
  /\ pc[r] = "new"
  /\ Returns(r, "send", "pending")
  /\ UNCHANGED <<pending, ch, loop, stopping, link, closer, wire, strays>>

\* The keyer fails, the key is taken, or the request registers.
Register(r) ==
  /\ pc[r] = "new"
  /\ Serial => \A s \in Reqs : KeyOf[s] = KeyOf[r] => ~InFlight(s)
  /\ \/ /\ KeyOf[r] = NoKey
        /\ Returns(r, "done", "key")
        /\ UNCHANGED pending
     \/ /\ KeyOf[r] # NoKey /\ pending[KeyOf[r]] # None
        /\ Returns(r, "done", "duplicate")
        /\ UNCHANGED pending
     \/ /\ KeyOf[r] # NoKey /\ pending[KeyOf[r]] = None
        /\ pending' = [pending EXCEPT ![KeyOf[r]] = r]
        /\ Returns(r, "send", "pending")
  /\ UNCHANGED <<ch, loop, stopping, link, closer, wire, strays>>

\* link.Send fails on a closed or broken link, or in a filter; a frame written
\* to a broken link may also just be lost.
Send(r) ==
  /\ pc[r] = "send"
  /\ \/ link = "open" /\ sent' = sent \cup {r} /\ Returns(r, "wait", "pending")
     \/ link = "broken" /\ UNCHANGED sent /\ Returns(r, "wait", "pending")
     \/ UNCHANGED sent /\ Returns(r, "leave", "send")
  /\ UNCHANGED <<pending, ch, loop, stopping, link, closer, inbound, peer, strays>>

\* The select: of the cases that are ready it takes any.
SelectResponse(r) ==
  /\ pc[r] = "wait" /\ ch[r] # None
  /\ pc' = [pc EXCEPT ![r] = "leave"]
  /\ outcome' = [outcome EXCEPT ![r] = "response"]
  /\ got' = [got EXCEPT ![r] = ch[r]]
  /\ ch' = [ch EXCEPT ![r] = None]
  /\ UNCHANGED <<pending, loop, stopping, link, closer, wire, strays>>

\* ctx ends or the timer fires, at any time.
SelectTimeout(r) ==
  /\ pc[r] = "wait"
  /\ Returns(r, "leave", "timeout")
  /\ UNCHANGED <<pending, ch, loop, stopping, link, closer, wire, strays>>

\* Mutant: a clean Close does not end the select.
SelectStoppedByError(r) ==
  /\ pc[r] = "wait" /\ closed /\ cause = "read"
  /\ Returns(r, "leave", "stopped")
  /\ UNCHANGED <<pending, ch, loop, stopping, link, closer, wire, strays>>

SelectStopped(r) ==
  /\ pc[r] = "wait" /\ closed
  /\ Returns(r, "leave", "stopped")
  /\ UNCHANGED <<pending, ch, loop, stopping, link, closer, wire, strays>>

\* The deferred delete: whoever is registered under the key goes.
Leave(r) ==
  /\ pc[r] = "leave"
  /\ pending' = [pending EXCEPT ![KeyOf[r]] = None]
  /\ pc' = [pc EXCEPT ![r] = "done"]
  /\ UNCHANGED <<outcome, got, ch, loop, stopping, link, closer, wire, strays>>

-----------------------------------------------------------------------------
(* readLoop.                                                               *)

stop(why) ==
  IF closed THEN UNCHANGED stopping
  ELSE closed' = TRUE /\ cause' = why

\* Receive returns a frame: what arrived before a failure may still be read.
Receive ==
  /\ reader = "receive" /\ link # "closed" /\ inbound # <<>>
  /\ msg' = Head(inbound) /\ inbound' = Tail(inbound)
  /\ reader' = IF Head(inbound).key = NoKey THEN "unsolicited" ELSE "lookup"
  /\ UNCHANGED <<calls, pending, ch, target, stopping, link, closer, sent, peer, strays>>

\* Receive fails, since the connection did or since the framer or a filter
\* rejects what arrived: the loop stops the mux and returns.
ReceiveFailed ==
  /\ reader = "receive" /\ (link # "open" \/ inbound # <<>>)
  /\ stop("read")
  /\ reader' = "stopped"
  /\ UNCHANGED <<calls, pending, ch, msg, target, link, closer, wire, strays>>

\* Mutant: the reader looks under any key.
LookupAnyKey ==
  /\ reader = "lookup"
  /\ \E k \in Keys :
       /\ target' = pending[k]
       /\ pending' = [pending EXCEPT ![k] = None]
       /\ reader' = IF pending[k] = None THEN "unsolicited" ELSE "deliver"
  /\ UNCHANGED <<calls, ch, msg, stopping, link, closer, wire, strays>>

\* The reader takes the channel registered under the key out of pending.
Lookup ==
  /\ reader = "lookup"
  /\ target' = pending[msg.key]
  /\ pending' = [pending EXCEPT ![msg.key] = None]
  /\ reader' = IF pending[msg.key] = None THEN "unsolicited" ELSE "deliver"
  /\ UNCHANGED <<calls, ch, msg, stopping, link, closer, wire, strays>>

\* ch <- msg would block on a full channel.
Deliver ==
  /\ reader = "deliver" /\ ch[target] = None
  /\ ch' = [ch EXCEPT ![target] = msg]
  /\ reader' = "receive" /\ msg' = None /\ target' = None
  /\ UNCHANGED <<calls, pending, stopping, link, closer, wire, strays>>

\* deliverUnsolicited; a reply goes out through m.Send and is never answered.
Unsolicited ==
  /\ reader = "unsolicited"
  /\ strays' = strays \cup {msg}
  /\ reader' = "receive" /\ msg' = None /\ target' = None
  /\ UNCHANGED <<calls, pending, ch, stopping, link, closer, wire>>

-----------------------------------------------------------------------------
(* Close.                                                                  *)

CloseStop(c) ==
  /\ closer[c] = "idle"
  /\ stop("closed")
  /\ closer' = [closer EXCEPT ![c] = "link"]
  /\ UNCHANGED <<calls, pending, ch, loop, link, wire, strays>>

CloseLink(c) ==
  /\ closer[c] = "link"
  /\ link' = "closed"
  /\ closer' = [closer EXCEPT ![c] = "wait"]
  /\ UNCHANGED <<calls, pending, ch, loop, stopping, wire, strays>>

\* wg.Wait returns once the reader has.
CloseWait(c) ==
  /\ closer[c] = "wait" /\ reader = "stopped"
  /\ closer' = [closer EXCEPT ![c] = "done"]
  /\ UNCHANGED <<calls, pending, ch, loop, stopping, link, wire, strays>>

-----------------------------------------------------------------------------
(* The peer and the network.  The peer answers what it got, in any order,  *)
(* at most once.                                                           *)

PeerAnswers(r) ==
  /\ link = "open" /\ r \in sent
  /\ sent' = sent \ {r}
  /\ inbound' = Append(inbound, [key |-> KeyOf[r], ans |-> r])
  /\ UNCHANGED <<calls, pending, ch, loop, stopping, link, closer, peer, strays>>

PeerInitiates(k) ==
  /\ link = "open" /\ peer < MaxPeer
  /\ peer' = peer + 1
  /\ inbound' = Append(inbound, [key |-> k, ans |-> None])
  /\ UNCHANGED <<calls, pending, ch, loop, stopping, link, closer, sent, strays>>

LinkBreaks ==
  /\ link = "open"
  /\ link' = "broken"
  /\ UNCHANGED <<calls, pending, ch, loop, stopping, closer, wire, strays>>

-----------------------------------------------------------------------------
Request(r) ==
  \/ Register(r) \/ Send(r)
  \/ SelectResponse(r) \/ SelectTimeout(r) \/ SelectStopped(r)
  \/ Leave(r)

readLoop == Receive \/ ReceiveFailed \/ Lookup \/ Deliver \/ Unsolicited

Close(c) == CloseStop(c) \/ CloseLink(c) \/ CloseWait(c)

Environment ==
  \/ \E r \in Reqs : PeerAnswers(r)
  \/ \E k \in PeerKeys : PeerInitiates(k)
  \/ LinkBreaks

\* Everything that was started has ended.
Quiet ==
  /\ \A r \in Reqs : pc[r] = "done"
  /\ reader = "stopped" /\ \A c \in Closers : closer[c] = "done"
  /\ UNCHANGED vars

Next ==
  \/ \E r \in Reqs : Request(r)
  \/ readLoop
  \/ \E c \in Closers : Close(c)
  \/ Environment
  \/ Quiet

Spec == Init /\ [][Next]_vars

\* Goroutines that can run do run, and the unsolicited handler returns.  No
\* request need time out, no peer need answer.
Fairness ==
  /\ \A r \in Reqs :
       WF_vars(Send(r)) /\ WF_vars(SelectResponse(r) \/ SelectStopped(r)) /\ WF_vars(Leave(r))
  /\ WF_vars(readLoop)
  /\ \A c \in Closers : WF_vars(CloseLink(c)) /\ WF_vars(CloseWait(c))

FairSpec == Spec /\ Fairness

-----------------------------------------------------------------------------
(* Properties.                                                             *)

\* Type correctness, and which frame and request the reader holds when.
TypeOK ==
  /\ pc \in [Reqs -> {"new", "send", "wait", "leave", "done"}]
  /\ outcome \in [Reqs -> Outcomes] /\ got \in [Reqs -> Frame \cup {None}]
  /\ pending \in [Keys -> Reqs \cup {None}]
  /\ ch \in [Reqs -> Frame \cup {None}]
  /\ reader \in {"receive", "lookup", "deliver", "unsolicited", "stopped"}
  /\ msg \in Frame \cup {None} /\ target \in Reqs \cup {None}
  /\ reader \in {"lookup", "deliver", "unsolicited"} => msg \in Frame
  /\ reader \in {"lookup", "deliver"} => msg.key \in Keys
  /\ reader = "deliver" => target \in Reqs
  /\ closed \in BOOLEAN /\ cause \in {"none", "closed", "read"}
  /\ link \in {"open", "broken", "closed"}
  /\ closer \in [Closers -> {"idle", "link", "wait", "done"}]
  /\ sent \subseteq Reqs /\ inbound \in Seq(Frame) /\ peer \in Nat
  /\ strays \subseteq Frame
  /\ \A r \in Reqs : InFlight(r) => KeyOf[r] \in Keys

\* A waiting request stays registered until the reader has its answer: no other
\* caller's deferred delete and no lookup of another key takes it away.
StaysRegistered ==
  \A r \in Reqs : pc[r] \in {"send", "wait"} =>
    pending[KeyOf[r]] = r \/ ch[r] # None \/ (reader = "deliver" /\ target = r)

\* Request returns the answer to its own frame.  The exceptions are what keying
\* by a caller-supplied key allows: a peer-initiated frame with the same key, and
\* the answer to an earlier request that returned without it.
OwnAnswer ==
  \A r \in Reqs : outcome[r] = "response" =>
    LET f == got[r] IN
    /\ f.key = KeyOf[r]
    /\ f.ans = None => KeyOf[r] \in PeerKeys
    /\ f.ans \in Reqs \ {r} => pc[f.ans] = "done" /\ got[f.ans] # f

\* The unsolicited handler sees "frames that match no in-flight request": an
\* answer goes there only when its request has left or holds another frame.
StrayAnswersLate ==
  \A f \in strays : f.ans \in Reqs => pc[f.ans] \in {"leave", "done"} \/ ch[f.ans] # None

\* "buffered(1); receiver may have already left - never blocks".
NeverBlocks == reader = "deliver" => ch[target] = None

\* Nothing leaks: what is registered is in flight, under its own key.
NoLeak == \A k \in Keys : pending[k] # None => InFlight(pending[k]) /\ KeyOf[pending[k]] = k

\* "Close stops the read loop, closes the link, and unblocks pending requests."
CloseReturns == \A c \in Closers : closer[c] = "link" ~> closer[c] = "done"
StopUnblocks == \A r \in Reqs : (closed /\ InFlight(r)) ~> pc[r] = "done"

\* No other request with r's key is in flight.
Alone(r) == \A s \in Reqs \ {r} : KeyOf[s] = KeyOf[r] => ~InFlight(s)

\* A registered request whose answer arrived returns, without the help of a
\* timeout, if no other request with its key is about to delete its registration.
AnsweredReturns ==
  \A r \in Reqs :
    ( /\ pc[r] = "wait" /\ pending[KeyOf[r]] = r /\ Alone(r)
      /\ \E i \in DOMAIN inbound : inbound[i].ans = r ) ~> pc[r] = "done"

\* No caller is left behind, not even where several use one key: the reader never
\* blocks on a channel, no registration outlives its call, Close returns and lets
\* every Request go, and a Request that was answered returns.
CallsReturn == [](NeverBlocks /\ NoLeak) /\ CloseReturns /\ StopUnblocks /\ AnsweredReturns

-----------------------------------------------------------------------------
(* The inductive invariants behind NeverBlocks and NoLeak, and, when keys  *)
(* are used serially, behind StaysRegistered and StrayAnswersLate.         *)

\* No frame was handed to r's channel, or it was taken out again.
Unanswered(r) == ch[r] = None /\ ~(reader = "deliver" /\ target = r)

RegisteredInv ==
  /\ NoLeak /\ NeverBlocks
  /\ \A k \in Keys : pending[k] # None => Unanswered(pending[k])
  /\ \A r \in Reqs : pc[r] = "new" => Unanswered(r)

\* r wrote its frame.
Wrote(r) == pc[r] \in {"wait", "leave", "done"} /\ KeyOf[r] \in Keys

Late(r) == pc[r] \in {"leave", "done"} \/ ch[r] # None

\* A frame that answers a request carries its key.
Answers(f) == f.ans \in Reqs => Wrote(f.ans) /\ f.key = KeyOf[f.ans]

SerialInv ==
  /\ \A r, s \in Reqs : InFlight(r) /\ InFlight(s) /\ KeyOf[r] = KeyOf[s] => r = s
  /\ StaysRegistered
  /\ \A r \in sent : Wrote(r)
  /\ \A i \in 1 .. Len(inbound) : Answers(inbound[i])
  /\ reader \in {"lookup", "unsolicited"} => Answers(msg)
  /\ reader = "unsolicited" /\ msg.ans \in Reqs => Late(msg.ans)
  /\ StrayAnswersLate

\* The places a frame is in, one after the other, with the request it answers.
Coming(s) == \E i \in 1 .. Len(inbound) : inbound[i].ans = s
Held(s) == reader \in {"lookup", "deliver", "unsolicited"} /\ msg.ans = s
InChannel(q, s) == ch[q] # None /\ ch[q].ans = s
Taken(q, s) == got[q] # None /\ got[q].ans = s

\* The peer answers once, and nothing copies a frame: an answer is in one place.
OncePlaced ==
  /\ \A i, j \in 1 .. Len(inbound) : inbound[i].ans \in Reqs /\ inbound[i].ans = inbound[j].ans => i = j
  /\ \A s \in Reqs :
       /\ s \in sent => ~Coming(s)
       /\ Held(s) => Wrote(s) /\ s \notin sent /\ ~Coming(s)
       /\ \A q \in Reqs :
            /\ InChannel(q, s) => Wrote(s) /\ s \notin sent /\ ~Coming(s) /\ ~Held(s)
            /\ Taken(q, s) => Wrote(s) /\ s \notin sent /\ ~Coming(s) /\ ~Held(s)
            /\ \A p \in Reqs : /\ Taken(q, s) => ~InChannel(p, s)
                               /\ InChannel(q, s) /\ InChannel(p, s) => p = q
                               /\ Taken(q, s) /\ Taken(p, s) => p = q

\* A frame that answers nothing has one of the peer's keys.
Initiated(f) == f.ans = None => f.key \in PeerKeys

\* A frame on its way to r has r's key, and if it answers another request, that
\* one has returned.
Fits(f, r) == f.key = KeyOf[r] /\ Initiated(f) /\ (f.ans \in Reqs \ {r} => pc[f.ans] = "done")

AnswerInv ==
  /\ OncePlaced
  /\ \A i \in 1 .. Len(inbound) : Initiated(inbound[i])
  /\ reader = "lookup" => Initiated(msg)
  /\ reader = "deliver" => Fits(msg, target)
  /\ \A r \in Reqs : /\ ch[r] # None => Fits(ch[r], r)
                     /\ got[r] # None => Fits(got[r], r)
                     /\ outcome[r] = "response" => got[r] # None

MuxInv == RegisteredInv /\ (Serial => SerialInv /\ AnswerInv)
==============================================================================
