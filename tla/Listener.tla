------------------------------ MODULE Listener ------------------------------
(* The accept loop of listener/listener.go: Serve tracks each accepted link    *)
(* and runs a handler for it in a goroutine, Close closes the socket and the   *)
(* tracked links and waits for the handlers. What a handler does is left to    *)
(* the module that extends this one.                                           *)
EXTENDS Naturals, FiniteSets

CONSTANTS
  Conns,          \* connections that peers open; they are alike
  NoConn,         \* no connection
  ListenerClosers \* callers of Close

ASSUME ListenerAssumption == NoConn \notin Conns

VARIABLES
  serve,      \* where the goroutine of Serve is
  accepted,   \* the connection it works on
  listening,  \* the socket of s.ln is open
  closed,     \* s.closed
  conns,      \* s.conns
  handlers,   \* the counter of s.wg
  link,       \* this end of a connection: "none", "open" or "closed"
  peer,       \* the peer's end: "none", "up" or "gone"
  handler,    \* where the goroutine of a connection is
  stopper     \* where a caller of Close is

listenerVars == <<serve, accepted, listening, closed, conns, handlers,
                  link, peer, handler, stopper>>

\* Listen, and Serve about to be called.
ListenerInit ==
  /\ serve = "off" /\ accepted = NoConn
  /\ listening = FALSE /\ closed = FALSE
  /\ conns = {} /\ handlers = 0
  /\ link = [c \in Conns |-> "none"]
  /\ peer = [c \in Conns |-> "none"]
  /\ handler = [c \in Conns |-> "none"]
  /\ stopper = [x \in ListenerClosers |-> "idle"]

\* Listen succeeds, and the goroutine that calls Serve starts.
Listen ==
  /\ serve = "off"
  /\ listening' = TRUE
  /\ serve' = "accept"
  /\ UNCHANGED <<accepted, closed, conns, handlers, link, peer, handler, stopper>>

Accept ==
  /\ serve = "accept" /\ listening
  /\ \E c \in Conns : link[c] = "none"
  /\ LET c == CHOOSE n \in Conns : link[n] = "none"
     IN  /\ accepted' = c
         /\ link' = [link EXCEPT ![c] = "open"]
         /\ peer' = [peer EXCEPT ![c] = "up"]
  /\ serve' = "track"
  /\ UNCHANGED <<listening, closed, conns, handlers, handler, stopper>>

\* Accept fails, because the socket was closed or for a reason of its own:
\* Serve returns nil or the error.
AcceptFails ==
  /\ serve = "accept"
  /\ serve' = IF closed THEN "returned" ELSE "failed"
  /\ UNCHANGED <<accepted, listening, closed, conns, handlers, link, peer, handler, stopper>>

\* Mutant: track does not look at s.closed.
trackAlways ==
  /\ serve = "track"
  /\ conns' = conns \cup {accepted}
  /\ serve' = "spawn"
  /\ UNCHANGED <<accepted, listening, closed, handlers, link, peer, handler, stopper>>

\* track, under s.mu; a link that came too late is closed and Serve returns.
track ==
  /\ serve = "track"
  /\ IF closed
     THEN /\ link' = [link EXCEPT ![accepted] = "closed"]
          /\ serve' = "returned" /\ accepted' = NoConn
          /\ UNCHANGED conns
     ELSE /\ conns' = conns \cup {accepted}
          /\ serve' = "spawn"
          /\ UNCHANGED <<accepted, link>>
  /\ UNCHANGED <<listening, closed, handlers, peer, handler, stopper>>

\* wg.Add and go, outside the lock.
Spawn ==
  /\ serve = "spawn"
  /\ handlers' = handlers + 1
  /\ handler' = [handler EXCEPT ![accepted] = "run"]
  /\ serve' = "accept" /\ accepted' = NoConn
  /\ UNCHANGED <<listening, closed, conns, link, peer, stopper>>

\* The handler returned: l.Close, untrack and wg.Done, in this order.
HandlerClose(c) ==
  /\ handler[c] = "close"
  /\ link' = [link EXCEPT ![c] = "closed"]
  /\ handler' = [handler EXCEPT ![c] = "untrack"]
  /\ UNCHANGED <<serve, accepted, listening, closed, conns, handlers, peer, stopper>>

untrack(c) ==
  /\ handler[c] = "untrack"
  /\ conns' = conns \ {c}
  /\ handler' = [handler EXCEPT ![c] = "done"]
  /\ UNCHANGED <<serve, accepted, listening, closed, handlers, link, peer, stopper>>

HandlerDone(c) ==
  /\ handler[c] = "done"
  /\ handlers' = handlers - 1
  /\ handler' = [handler EXCEPT ![c] = "ended"]
  /\ UNCHANGED <<serve, accepted, listening, closed, conns, link, peer, stopper>>

\* The peer hangs up. (Once this end is closed it makes no difference.)
Hangup(c) ==
  /\ peer[c] = "up" /\ link[c] = "open"
  /\ peer' = [peer EXCEPT ![c] = "gone"]
  /\ UNCHANGED <<serve, accepted, listening, closed, conns, handlers, link, handler, stopper>>
-----------------------------------------------------------------------------
\* Close: a second caller only waits. (The callers are alike.)
CloseSwap(x) ==
  /\ stopper[x] = "idle" /\ serve # "off"
  /\ x = CHOOSE y \in ListenerClosers : stopper[y] = "idle"
  /\ closed' = TRUE
  /\ stopper' = [stopper EXCEPT ![x] = IF closed THEN "wait" ELSE "socket"]
  /\ UNCHANGED <<serve, accepted, listening, conns, handlers, link, peer, handler>>

CloseSocket(x) ==
  /\ stopper[x] = "socket"
  /\ listening' = FALSE
  /\ stopper' = [stopper EXCEPT ![x] = "conns"]
  /\ UNCHANGED <<serve, accepted, closed, conns, handlers, link, peer, handler>>

\* Mutant: Close leaves the tracked links to their peers.
CloseConnsNot(x) ==
  /\ stopper[x] = "conns"
  /\ stopper' = [stopper EXCEPT ![x] = "wait"]
  /\ UNCHANGED <<serve, accepted, listening, closed, conns, handlers, link, peer, handler>>

CloseConns(x) ==
  /\ stopper[x] = "conns"
  /\ link' = [c \in Conns |-> IF c \in conns THEN "closed" ELSE link[c]]
  /\ stopper' = [stopper EXCEPT ![x] = "wait"]
  /\ UNCHANGED <<serve, accepted, listening, closed, conns, handlers, peer, handler>>

CloseWaits(x) ==
  /\ stopper[x] = "wait" /\ handlers = 0
  /\ stopper' = [stopper EXCEPT ![x] = "returned"]
  /\ UNCHANGED <<serve, accepted, listening, closed, conns, handlers, link, peer, handler>>

ServeStep == Accept \/ AcceptFails \/ track \/ Spawn
HandlerEnd(c) == HandlerClose(c) \/ untrack(c) \/ HandlerDone(c)
CloseStep(x) == CloseSocket(x) \/ CloseConns(x) \/ CloseWaits(x)

ListenerNext ==
  \/ Listen \/ ServeStep
  \/ \E c \in Conns : HandlerEnd(c) \/ Hangup(c)
  \/ \E x \in ListenerClosers : CloseSwap(x) \/ CloseStep(x)
-----------------------------------------------------------------------------
(* Properties. *)

\* The first caller of Close has swept the tracked links.
Swept == closed /\ \A x \in ListenerClosers : stopper[x] \notin {"socket", "conns"}

\* When Close has swept the links, no link is open but the one that Serve is
\* just refusing. Close may return before a handler starts whose link it closed
\* between track and wg.Add; that handler never has an open link.
SweptClean == Swept => \A c \in Conns : link[c] = "open" => serve = "track" /\ accepted = c

\* A link is tracked from before its handler starts until it is closed, so that
\* Close reaches every connection that is being served.
Tracked ==
  \A c \in Conns : /\ handler[c] \in {"run", "close"} => c \in conns
                   /\ c \in conns => handler[c] \in {"run", "close", "untrack"} \/ accepted = c

\* Close returns, and Serve does.
ListenerCloses ==
  /\ \A x \in ListenerClosers : (stopper[x] \in {"socket", "wait"}) ~> (stopper[x] = "returned")
  /\ closed ~> (serve \in {"returned", "failed"})
=============================================================================
