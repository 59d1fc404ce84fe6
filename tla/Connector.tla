------------------------------ MODULE Connector ------------------------------
(* The outbound connector of connector/connector.go: a supervisor goroutine    *)
(* dials, signs on, publishes the new mux in c.mux, watches it with a          *)
(* keepalive, and takes it down and starts over when the link dies. Request    *)
(* loads the published mux, which the supervisor may replace at any time. A    *)
(* mux (Mux.tla) is open, dead (its link broke) or closed; a Request that      *)
(* waits on one that is not open fails. A host starts a connector once.        *)
EXTENDS Naturals, FiniteSets

CONSTANTS
  Muxes,           \* mux objects; one is used again once nothing refers to it
  NoMux,           \* nil
  Requests,        \* callers of Request, one call each
  Stoppers,        \* callers of Stop
  KeepaliveBounded \* KeepaliveTimeout or Timeout bounds a keepalive

ASSUME ConnectorAssumption == NoMux \notin Muxes /\ KeepaliveBounded \in BOOLEAN

VARIABLES
  sup,       \* where the supervisor is
  cur,       \* the mux it works on
  ptr,       \* c.mux
  cancelled, \* c.closed, and its context is cancelled
  mux,       \* "open", "dead" or "closed"
  silent,    \* muxes whose peer is half-open: connected, never answering
  inflight,  \* serve waits for the result of a keepalive
  echo,      \* a mux's keepalive goroutines that run
  result,    \* what a keepalive left in the channel of serve: "none", "ok" or "err"
  req,       \* where a Request is
  reqMux,    \* the mux it loaded
  stop       \* where a Stop is

connectorVars == <<sup, cur, ptr, cancelled, mux, silent, inflight, echo, result, req, reqMux, stop>>
keepalive == <<inflight, echo, result>>
requests == <<req, reqMux>>

\* No variable of the program, and no goroutine, refers to the mux.
Reusable(m) == /\ mux[m] = "closed"
           /\ m # cur /\ m # ptr
           /\ echo[m] = 0
           /\ \A r \in Requests : reqMux[r] # m

\* New.
ConnectorInit ==
  /\ sup = "off" /\ cur = NoMux /\ ptr = NoMux /\ cancelled = FALSE
  /\ mux = [m \in Muxes |-> "closed"]
  /\ silent = {}
  /\ inflight = FALSE
  /\ echo = [m \in Muxes |-> 0]
  /\ result = "none"
  /\ req = [r \in Requests |-> "idle"]
  /\ reqMux = [r \in Requests |-> NoMux]
  /\ stop = [x \in Stoppers |-> "idle"]

\* Start; after a Stop it returns ErrClosed and changes nothing.
Start ==
  /\ sup = "off" /\ ~cancelled
  /\ sup' = "top"
  /\ UNCHANGED <<cur, ptr, cancelled, mux, silent, keepalive, requests, stop>>
-----------------------------------------------------------------------------
(* supervise *)

SupTop ==
  /\ sup = "top"
  /\ sup' = IF cancelled THEN "returned" ELSE "dial"
  /\ UNCHANGED <<cur, ptr, cancelled, mux, silent, keepalive, requests, stop>>

\* connect: DialContext fails (it does when the context is cancelled); the
\* supervisor returns or backs off.
DialFailed ==
  /\ sup = "dial"
  /\ sup' = IF cancelled THEN "returned" ELSE "sleep"
  /\ UNCHANGED <<cur, ptr, cancelled, mux, silent, keepalive, requests, stop>>

\* connect: a link and a mux on it. A half-open peer may still sign us on.
Dialed ==
  /\ sup = "dial" /\ ~cancelled
  /\ \E m \in Muxes : Reusable(m)
  /\ LET m == CHOOSE n \in Muxes : Reusable(n)
     IN  /\ cur' = m
         /\ mux' = [mux EXCEPT ![m] = "open"]
         /\ silent' \in {silent, silent \cup {m}}
  /\ sup' = "signon"
  /\ UNCHANGED <<ptr, cancelled, keepalive, requests, stop>>

\* connect: OnConnect fails, and what was built is torn down.
SignOnFails ==
  /\ sup = "signon"
  /\ mux' = [mux EXCEPT ![cur] = "closed"]
  /\ silent' = silent \ {cur}
  /\ cur' = NoMux
  /\ sup' = IF cancelled THEN "returned" ELSE "sleep"
  /\ UNCHANGED <<ptr, cancelled, keepalive, requests, stop>>

\* The mux is published, and serve begins.
Publish ==
  /\ sup = "signon"
  /\ ptr' = cur
  /\ sup' = "serve" /\ inflight' = FALSE /\ result' = "none"
  /\ UNCHANGED <<cur, cancelled, mux, silent, echo, requests, stop>>

\* Mutant: a keepalive is sent although one is outstanding.
TickStacks ==
  /\ sup = "serve" /\ echo[cur] < 2
  /\ inflight' = TRUE
  /\ echo' = [echo EXCEPT ![cur] = @ + 1]
  /\ UNCHANGED <<sup, cur, ptr, cancelled, mux, silent, result, requests, stop>>

\* serve: the ticker fires; while a keepalive is outstanding the tick is skipped.
Tick ==
  /\ sup = "serve" /\ ~inflight
  /\ inflight' = TRUE
  /\ echo' = [echo EXCEPT ![cur] = @ + 1]
  /\ UNCHANGED <<sup, cur, ptr, cancelled, mux, silent, result, requests, stop>>

\* A keepalive comes back: the peer answered, or it failed because the mux is
\* gone, the context was cancelled or its time is up. Nobody reads the channel
\* when the serve that made it has returned.
Comes(m, res) ==
  /\ echo' = [echo EXCEPT ![m] = @ - 1]
  /\ result' = IF sup = "serve" /\ cur = m THEN res ELSE result
  /\ UNCHANGED <<sup, cur, ptr, cancelled, mux, silent, inflight, requests, stop>>

EchoAnswered(m) ==
  /\ echo[m] > 0 /\ mux[m] = "open" /\ m \notin silent
  /\ Comes(m, "ok")

EchoFails(m) ==
  /\ echo[m] > 0 /\ (mux[m] # "open" \/ cancelled \/ KeepaliveBounded)
  /\ Comes(m, "err")

\* Mutant: a failed keepalive is only logged.
ResultIgnored ==
  /\ sup = "serve" /\ inflight /\ result # "none"
  /\ inflight' = FALSE
  /\ result' = "none"
  /\ UNCHANGED <<sup, cur, ptr, cancelled, mux, silent, echo, requests, stop>>

\* serve reads the result, and returns to force a reconnect when it is an error.
Result ==
  /\ sup = "serve" /\ inflight /\ result # "none"
  /\ inflight' = FALSE
  /\ result' = "none"
  /\ sup' = IF result = "err" THEN "unpublish" ELSE "serve"
  /\ UNCHANGED <<cur, ptr, cancelled, mux, silent, echo, requests, stop>>

\* serve returns at ctx.Done() or m.Done().
ServeReturns ==
  /\ sup = "serve" /\ (cancelled \/ mux[cur] = "dead")
  /\ sup' = "unpublish"
  /\ UNCHANGED <<cur, ptr, cancelled, mux, silent, keepalive, requests, stop>>

\* c.mux.CompareAndSwap(m, nil).
Unpublish ==
  /\ sup = "unpublish"
  /\ ptr' = IF ptr = cur THEN NoMux ELSE ptr
  /\ sup' = "close"
  /\ UNCHANGED <<cur, cancelled, mux, silent, keepalive, requests, stop>>

\* m.Close(), then the supervisor returns or backs off.
CloseMux ==
  /\ sup = "close"
  /\ mux' = [mux EXCEPT ![cur] = "closed"]
  /\ silent' = silent \ {cur}
  /\ cur' = NoMux
  /\ sup' = IF cancelled THEN "returned" ELSE "sleep"
  /\ UNCHANGED <<ptr, cancelled, keepalive, requests, stop>>

\* sleep, cut short when the context is cancelled.
Slept ==
  /\ sup = "sleep"
  /\ sup' \in {"top"} \cup (IF cancelled THEN {"returned"} ELSE {})
  /\ UNCHANGED <<cur, ptr, cancelled, mux, silent, keepalive, requests, stop>>

\* A link breaks: the read loop stops the mux.
LinkDies(m) ==
  /\ mux[m] = "open"
  /\ mux' = [mux EXCEPT ![m] = "dead"]
  /\ UNCHANGED <<sup, cur, ptr, cancelled, silent, keepalive, requests, stop>>
-----------------------------------------------------------------------------
\* Request: ErrNotConnected, or a call of the mux that is published now.
Load(r) ==
  /\ req[r] = "idle"
  /\ req' = [req EXCEPT ![r] = IF ptr = NoMux THEN "failed" ELSE "waiting"]
  /\ reqMux' = [reqMux EXCEPT ![r] = ptr]
  /\ UNCHANGED <<sup, cur, ptr, cancelled, mux, silent, keepalive, stop>>

RequestAnswered(r) ==
  /\ req[r] = "waiting" /\ mux[reqMux[r]] = "open" /\ reqMux[r] \notin silent
  /\ req' = [req EXCEPT ![r] = "answered"]
  /\ reqMux' = [reqMux EXCEPT ![r] = NoMux]
  /\ UNCHANGED <<sup, cur, ptr, cancelled, mux, silent, keepalive, stop>>

RequestFails(r) ==
  /\ req[r] = "waiting" /\ mux[reqMux[r]] # "open"
  /\ req' = [req EXCEPT ![r] = "failed"]
  /\ reqMux' = [reqMux EXCEPT ![r] = NoMux]
  /\ UNCHANGED <<sup, cur, ptr, cancelled, mux, silent, keepalive, stop>>

\* Stop: c.closed and cancel, then wg.Wait.
StopCancel(x) ==
  /\ stop[x] = "idle"
  /\ cancelled' = TRUE
  /\ stop' = [stop EXCEPT ![x] = "wait"]
  /\ UNCHANGED <<sup, cur, ptr, mux, silent, keepalive, requests>>

StopWait(x) ==
  /\ stop[x] = "wait" /\ sup \in {"off", "returned"}
  /\ stop' = [stop EXCEPT ![x] = "returned"]
  /\ UNCHANGED <<sup, cur, ptr, cancelled, mux, silent, keepalive, requests>>

\* A step of supervise outside the select of serve.
Supervise == \/ SupTop \/ Dialed \/ DialFailed \/ Publish \/ SignOnFails
             \/ Unpublish \/ CloseMux \/ Slept

ConnectorNext ==
  \/ Start \/ Supervise
  \/ Tick \/ Result \/ ServeReturns
  \/ \E m \in Muxes : EchoAnswered(m) \/ EchoFails(m) \/ LinkDies(m)
  \/ \E r \in Requests : Load(r) \/ RequestAnswered(r) \/ RequestFails(r)
  \/ \E x \in Stoppers : StopCancel(x) \/ StopWait(x)

ConnectorSpec == ConnectorInit /\ [][ConnectorNext]_connectorVars
-----------------------------------------------------------------------------
(* Properties. *)

\* A published mux is the one the supervisor is serving or about to take down:
\* Connected never reports a mux that nobody watches, and a reconnect never
\* leaves an older one in c.mux.
Watched == ptr # NoMux => ptr = cur /\ sup \in {"serve", "unpublish"}

\* No connection is left behind: only the mux that the supervisor holds is open,
\* or dead and not yet closed. After Stop has returned there is none.
NoneLeft == \A m \in Muxes : mux[m] \in {"open", "dead"} => m = cur /\ sup \notin {"off", "returned"}

\* At most one keepalive of a mux is ever in flight, across skipped ticks, results
\* that come late and a link that dies under one.
OneKeepalive == \A m \in Muxes : echo[m] <= 1

\* A mux whose link died, or whose peer is half-open and never answers, does not
\* stay published, when a timeout bounds the keepalive.
DeadNoticed == \A m \in Muxes : (ptr = m /\ (mux[m] = "dead" \/ m \in silent)) ~> (ptr # m)

\* A Request that waits on a mux whose peer never answers returns in the end:
\* the keepalive fails, and the supervisor closes the mux under the Request.
Released == \A r \in Requests : (req[r] = "waiting") ~> (req[r] \in {"answered", "failed"})

\* While not stopped the connector is connected again and again, when dialling
\* and signing on do not fail for ever.
Reconnects == (sup \notin {"off", "returned"}) ~> (ptr # NoMux \/ cancelled)

\* Stop returns.
StopReturns == \A x \in Stoppers : (stop[x] = "wait") ~> (stop[x] = "returned")

\* What the supervisor publishes, serves, keeps alive and closes is one and the same
\* connection.
ConnectorSound == Watched /\ NoneLeft /\ OneKeepalive

\* A dead or silent peer is noticed, whoever waits for it is released, another
\* connection takes its place, and Stop ends it all.
ConnectorServes == DeadNoticed /\ Released /\ Reconnects /\ StopReturns
=============================================================================
