------------------------------- MODULE Gateway -------------------------------
(* The inbound gateway of gateway/gateway.go on the listener: a connection's   *)
(* handler reads frames and answers each in a goroutine of its own, by a       *)
(* request to an upstream that Route selects. Stop waits for the handlers of   *)
(* connections, not for these goroutines. A frame's trace (trace/trace.go) is  *)
(* handed on when its goroutine ends. Start's Listen, Stop and serveConn are   *)
(* the listener's Listen, Close and handler.                                   *)
EXTENDS Listener, Sequences

CONSTANTS
  Frames,    \* inbound frames
  OnError    \* an OnError hook is configured

VARIABLES
  frame,     \* where the goroutine of a frame is
  on,        \* the connection it came from
  failure    \* whether its trace has an entry of a failure

gatewayVars == <<frame, on, failure>>

GatewayInit ==
  /\ ListenerInit
  /\ frame = [f \in Frames |-> "none"]
  /\ on = [f \in Frames |-> NoConn]
  /\ failure = [f \in Frames |-> FALSE]

\* serveConn: a frame is read and handled concurrently ...
Receive(c, f) ==
  /\ handler[c] = "run" /\ link[c] = "open" /\ peer[c] = "up"
  /\ frame[f] = "none"
  /\ frame' = [frame EXCEPT ![f] = "decode"]
  /\ on' = [on EXCEPT ![f] = c]
  /\ UNCHANGED <<listenerVars, failure>>

\* ... and the handler returns when Receive fails.
ReceiveFails(c) ==
  /\ handler[c] = "run" /\ (link[c] = "closed" \/ peer[c] = "gone")
  /\ handler' = [handler EXCEPT ![c] = "close"]
  /\ UNCHANGED <<serve, accepted, listening, closed, conns, handlers, link, peer, stopper, gatewayVars>>

\* handle goes on to p, and notes a failure in the trace or does not. Once it has
\* ended, the connection is of no more use.
Handle(f, p, fails) ==
  /\ frame' = [frame EXCEPT ![f] = p]
  /\ failure' = [failure EXCEPT ![f] = @ \/ fails]
  /\ on' = IF p \in {"replied", "dropped"} THEN [on EXCEPT ![f] = NoConn] ELSE on
  /\ UNCHANGED listenerVars

\* handle, and process up to the upstream: the frame does not decode, there is no
\* route, BeforeRequest or Marshal fails, or dest.Request is called.
Forward(f) ==
  /\ frame[f] = "decode"
  /\ Handle(f, "dropped", TRUE) \/ Handle(f, "error", TRUE) \/ Handle(f, "upstream", FALSE)

\* dest.Request fails, or the answer does not decode or pass BeforeResponse, or
\* it is on its way back.
Upstream(f) ==
  /\ frame[f] = "upstream"
  /\ Handle(f, "error", TRUE) \/ Handle(f, "encode", FALSE)

\* errorReply: the hook's reply, or none.
errorReply(f) ==
  /\ frame[f] = "error"
  /\ (OnError /\ Handle(f, "encode", FALSE)) \/ Handle(f, "dropped", FALSE)

\* Marshal, and l.Send on the connection the frame came from.
Reply(f) ==
  /\ frame[f] = "encode"
  /\ (link[on[f]] = "open" /\ Handle(f, "replied", FALSE)) \/ Handle(f, "dropped", TRUE)

HandleStep(f) == Forward(f) \/ Upstream(f) \/ errorReply(f) \/ Reply(f)

GatewayNext ==
  \/ ListenerNext /\ UNCHANGED gatewayVars
  \/ \E c \in Conns : ReceiveFails(c) \/ \E f \in Frames : Receive(c, f)
  \/ \E f \in Frames : HandleStep(f)

GatewaySpec == GatewayInit /\ [][GatewayNext]_<<listenerVars, gatewayVars>>
-----------------------------------------------------------------------------
(* Properties. *)

\* The Stop that closed the links has returned. (One that came second may return
\* earlier, when the links have yet to be closed.)
Stopped == Swept /\ \E x \in ListenerClosers : stopper[x] = "returned"

\* A goroutine that handles a frame outlives Stop, which does not wait for it,
\* but it cannot answer: nothing is sent once Stop has returned.
QuietAfterStop == [][Stopped => \A f \in Frames : frame[f] # "replied" => frame'[f] # "replied"]_<<listenerVars, gatewayVars>>

\* The trace that is handed on tells of a frame that was not answered: a failure is
\* in it, whichever step dropped the frame.
TraceTells == \A f \in Frames : frame[f] = "dropped" => failure[f]

\* Every frame that is read is answered or dropped: a Timeout bounds the request
\* to the upstream.
FramesEnd == \A f \in Frames : (frame[f] = "decode") ~> (frame[f] \in {"replied", "dropped"})

\* Stopping the gateway leaves nothing running or open for ever, and a frame that was
\* read is accounted for: Close sweeps every connection and returns, Serve does, and
\* each frame is answered or dropped with a failure in its trace.
GatewayEnds == [](SweptClean /\ Tracked /\ TraceTells) /\ ListenerCloses /\ FramesEnd
=============================================================================
