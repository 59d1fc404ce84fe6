------------------------------ MODULE MuxProofs ------------------------------
(***************************************************************************)
(* Proofs about Mux, for any requests, keys, peers and closers: types, the *)
(* reader never blocks, nothing leaks; and when callers use a key again    *)
(* only once the last call with it returned, a waiting request stays       *)
(* registered, its answer never goes to the unsolicited handler, and what  *)
(* Request returns is the answer to its own frame, where there is one.     *)
(***************************************************************************)
EXTENDS Mux, SequenceTheorems, TLAPS

USE Zenon, MuxAssumption

\* Type correctness of the mux and of what its reader holds.
THEOREM TypeCorrect == Spec => []TypeOK
<1>1. Init => TypeOK
  <2> SUFFICES ASSUME Init PROVE TypeOK
    OBVIOUS
  <2>1. inbound \in Seq(Frame) /\ strays \subseteq Frame BY EmptySeq DEF Init
  <2>2. closed \in BOOLEAN BY ZenonT(30) DEF Init
  <2>3. \A r \in Reqs : ~InFlight(r) BY DEF Init, InFlight
  <2> QED BY <2>1, <2>2, <2>3 DEF Init, TypeOK, Outcomes
<1>2. TypeOK /\ [Next]_vars => TypeOK'
  <2> SUFFICES ASSUME TypeOK, [Next]_vars PROVE TypeOK'
    OBVIOUS
  <2> USE DEF TypeOK, calls, loop, stopping, wire, Outcomes, InFlight
  <2>1. CASE UNCHANGED vars BY <2>1 DEF vars
  <2>2. ASSUME NEW r \in Reqs, Request(r) PROVE TypeOK'
    <3> USE DEF Returns
    <3>1. CASE Register(r) BY SMT, <3>1 DEF Register
    <3>2. CASE Send(r) BY SMT, <3>2 DEF Send
    <3>3. CASE SelectResponse(r) BY <3>3 DEF SelectResponse
    <3>4. CASE SelectTimeout(r) BY <3>4 DEF SelectTimeout
    <3>5. CASE SelectStopped(r) BY <3>5 DEF SelectStopped
    <3>6. CASE Leave(r) BY <3>6 DEF Leave
    <3> QED BY <2>2, <3>1, <3>2, <3>3, <3>4, <3>5, <3>6 DEF Request
  <2>3. CASE readLoop
    <3>1. CASE Receive
      <4>1. Head(inbound) \in Frame /\ Tail(inbound) \in Seq(Frame)
        BY <3>1, HeadTailProperties DEF Receive
      <4> QED BY <3>1, <4>1 DEF Receive, Frame
    <3>2. CASE ReceiveFailed
      <4>1. closed' \in BOOLEAN /\ cause' \in {"none", "closed", "read"}
        BY ZenonT(30), <3>2 DEF ReceiveFailed, stop
      <4> QED BY <3>2, <4>1 DEF ReceiveFailed
    <3>3. CASE Lookup BY <3>3 DEF Lookup
    <3>4. CASE Deliver BY <3>4 DEF Deliver
    <3>5. CASE Unsolicited BY <3>5 DEF Unsolicited
    <3> QED BY <2>3, <3>1, <3>2, <3>3, <3>4, <3>5 DEF readLoop
  <2>4. ASSUME NEW c \in Closers, Close(c) PROVE TypeOK'
    <3>1. CASE CloseStop(c)
      <4>1. closed' \in BOOLEAN /\ cause' \in {"none", "closed", "read"}
        BY ZenonT(30), <3>1 DEF CloseStop, stop
      <4> QED BY <3>1, <4>1 DEF CloseStop
    <3>2. CASE CloseLink(c) BY <3>2 DEF CloseLink
    <3>3. CASE CloseWait(c) BY <3>3 DEF CloseWait
    <3> QED BY <2>4, <3>1, <3>2, <3>3 DEF Close
  <2>5. CASE Environment
    <3>1. ASSUME NEW r \in Reqs, PeerAnswers(r) PROVE TypeOK'
      <4>1. [key |-> KeyOf[r], ans |-> r] \in Frame BY DEF Frame
      <4>2. inbound' \in Seq(Frame) BY <3>1, <4>1, AppendProperties DEF PeerAnswers
      <4> QED BY <3>1, <4>2 DEF PeerAnswers
    <3>2. ASSUME NEW k \in PeerKeys, PeerInitiates(k) PROVE TypeOK'
      <4>1. [key |-> k, ans |-> None] \in Frame BY DEF Frame
      <4>2. inbound' \in Seq(Frame) BY <3>2, <4>1, AppendProperties DEF PeerInitiates
      <4> QED BY SMT, <3>2, <4>2 DEF PeerInitiates
    <3>3. CASE LinkBreaks BY <3>3 DEF LinkBreaks
    <3> QED BY <2>5, <3>1, <3>2, <3>3 DEF Environment
  <2>6. CASE Quiet BY <2>6 DEF Quiet, vars
  <2> QED BY <2>1, <2>2, <2>3, <2>4, <2>5, <2>6 DEF Next
<1> QED BY <1>1, <1>2, PTL DEF Spec

-----------------------------------------------------------------------------
(* The reader never blocks, and nothing leaks.                             *)

LEMMA RegisteredStep ==
  ASSUME TypeOK, RegisteredInv, [Next]_vars PROVE RegisteredInv'
<1> USE DEF RegisteredInv, NoLeak, NeverBlocks, Unanswered, InFlight, TypeOK,
            calls, loop, stopping, wire
<1>1. CASE UNCHANGED vars BY <1>1 DEF vars
<1>2. ASSUME NEW r \in Reqs, Request(r) PROVE RegisteredInv'
  <2> USE DEF Returns
  <2>1. CASE Register(r) BY SMT, <2>1 DEF Register
  <2>2. CASE Send(r) BY SMT, <2>2 DEF Send
  <2>3. CASE SelectResponse(r) BY SMT, <2>3 DEF SelectResponse
  <2>4. CASE SelectTimeout(r) BY SMT, <2>4 DEF SelectTimeout
  <2>5. CASE SelectStopped(r) BY SMT, <2>5 DEF SelectStopped
  <2>6. CASE Leave(r) BY SMT, <2>6 DEF Leave
  <2> QED BY <1>2, <2>1, <2>2, <2>3, <2>4, <2>5, <2>6 DEF Request
<1>3. CASE readLoop
  <2>1. CASE Receive BY <2>1 DEF Receive
  <2>2. CASE ReceiveFailed BY <2>2 DEF ReceiveFailed
  <2>3. CASE Lookup BY SMT, <2>3 DEF Lookup
  <2>4. CASE Deliver BY SMT, <2>4 DEF Deliver
  <2>5. CASE Unsolicited BY <2>5 DEF Unsolicited
  <2> QED BY <1>3, <2>1, <2>2, <2>3, <2>4, <2>5 DEF readLoop
<1>4. ASSUME NEW c \in Closers, Close(c) PROVE RegisteredInv'
  BY SMT, <1>4 DEF Close, CloseStop, CloseLink, CloseWait
<1>5. CASE Environment
  <2>1. UNCHANGED <<pc, pending, ch, reader, target>>
    BY ZenonT(30), <1>5 DEF Environment, PeerAnswers, PeerInitiates, LinkBreaks
  <2> QED BY <2>1
<1>6. CASE Quiet BY <1>6 DEF Quiet, vars
<1> QED BY <1>1, <1>2, <1>3, <1>4, <1>5, <1>6 DEF Next

\* The send on the response channel in readLoop never blocks, and whatever is
\* registered in pending belongs to a Request that has not returned.
THEOREM ReaderNeverBlocks == Spec => [](NeverBlocks /\ NoLeak)
<1>1. Init => RegisteredInv
  BY DEF Init, RegisteredInv, NoLeak, NeverBlocks, Unanswered
<1>2. RegisteredInv => NeverBlocks /\ NoLeak BY DEF RegisteredInv
<1> QED BY <1>1, <1>2, RegisteredStep, TypeCorrect, PTL DEF Spec

-----------------------------------------------------------------------------
(* Serial use of keys.                                                     *)

\* A request that has left stays gone, one that wrote its frame stays sent, and
\* a full channel is emptied only by the request that leaves with the frame.
LEMMA Onward ==
  ASSUME TypeOK, [Next]_vars, NEW r \in Reqs
  PROVE  /\ Wrote(r) => Wrote(r)'
         /\ Late(r) => Late(r)'
         /\ InFlight(r)' => InFlight(r) \/ (pc[r] = "new" /\ Register(r))
<1> USE DEF Wrote, Late, InFlight, TypeOK, calls, loop
<1>1. CASE UNCHANGED vars BY <1>1 DEF vars
<1>2. ASSUME NEW s \in Reqs, Request(s)
      PROVE  /\ Wrote(r) => Wrote(r)'
             /\ Late(r) => Late(r)'
             /\ InFlight(r)' => InFlight(r) \/ (pc[r] = "new" /\ Register(r))
  <2> USE DEF Returns
  <2>1. CASE Register(s)
    <3>1. CASE r = s BY <2>1, <3>1 DEF Register
    <3>2. CASE r # s BY SMT, <2>1, <3>2 DEF Register
    <3> QED BY <3>1, <3>2
  <2>2. CASE Send(s) BY <2>2 DEF Send
  <2>3. CASE SelectResponse(s) BY <2>3 DEF SelectResponse
  <2>4. CASE SelectTimeout(s) BY <2>4 DEF SelectTimeout
  <2>5. CASE SelectStopped(s) BY <2>5 DEF SelectStopped
  <2>6. CASE Leave(s) BY <2>6 DEF Leave
  <2> QED BY <1>2, <2>1, <2>2, <2>3, <2>4, <2>5, <2>6 DEF Request
<1>3. CASE readLoop
  <2>1. CASE Deliver BY <2>1 DEF Deliver
  <2>2. CASE Receive \/ ReceiveFailed \/ Lookup \/ Unsolicited
    <3>1. UNCHANGED <<pc, ch>>
      BY <2>2 DEF Receive, ReceiveFailed, Lookup, Unsolicited
    <3> QED BY <3>1
  <2> QED BY <1>3, <2>1, <2>2 DEF readLoop
<1>4. CASE (\E c \in Closers : Close(c)) \/ Environment
  <2>1. UNCHANGED <<pc, ch>>
    BY ZenonT(30), <1>4 DEF Close, CloseStop, CloseLink, CloseWait, Environment, PeerAnswers,
                PeerInitiates, LinkBreaks
  <2> QED BY <2>1
<1>5. CASE Quiet BY <1>5 DEF Quiet, vars
<1> QED BY <1>1, <1>2, <1>3, <1>4, <1>5 DEF Next

LEMMA SerialRegistered ==
  ASSUME TypeOK, RegisteredInv, Serial, SerialInv, [Next]_vars
  PROVE  /\ (\A r, s \in Reqs : InFlight(r) /\ InFlight(s) /\ KeyOf[r] = KeyOf[s] => r = s)'
         /\ StaysRegistered'
<1>1. ASSUME NEW r \in Reqs, NEW s \in Reqs, InFlight(r)', InFlight(s)', KeyOf[r] = KeyOf[s]
      PROVE  r = s
  <2>1. CASE InFlight(r) /\ InFlight(s) BY <1>1, <2>1 DEF SerialInv
  <2>2. ASSUME NEW x \in Reqs, NEW y \in Reqs, InFlight(y)', KeyOf[x] = KeyOf[y],
               pc[x] = "new", Register(x)
        PROVE  x = y
    <3>1. CASE pc[y] = "new" /\ Register(y)
      BY SMT, <2>2, <3>1 DEF Register, Returns, InFlight, TypeOK
    <3>2. CASE InFlight(y) BY <2>2, <3>2 DEF Register
    <3> QED BY <2>2, <3>1, <3>2, Onward
  <2> QED BY <1>1, <2>1, <2>2, Onward
<1>2. StaysRegistered'
  <2> USE DEF StaysRegistered, TypeOK, calls, loop
  <2>0. StaysRegistered BY DEF SerialInv
  <2>1. CASE UNCHANGED vars BY <2>0, <2>1 DEF vars
  <2>2. ASSUME NEW s \in Reqs, Request(s) PROVE StaysRegistered'
    <3> USE DEF Returns
    <3>1. CASE Register(s)
      <4> SUFFICES ASSUME NEW r \in Reqs, pc'[r] \in {"send", "wait"}
                   PROVE  pending'[KeyOf[r]] = r \/ ch[r] # None \/ (reader = "deliver" /\ target = r)
        BY <3>1 DEF Register
      <4>1. CASE r = s BY <3>1, <4>1 DEF Register
      <4>2. CASE r # s
        <5>1. pc[r] \in {"send", "wait"} BY SMT, <3>1, <4>2 DEF Register
        <5>2. KeyOf[r] # KeyOf[s] BY <3>1, <4>2, <5>1 DEF Register, InFlight
        <5>3. pending'[KeyOf[r]] = pending[KeyOf[r]]
          BY <3>1, <5>1, <5>2 DEF Register, InFlight
        <5> QED BY <2>0, <5>1, <5>3
      <4> QED BY <4>1, <4>2
    <3>2. CASE Send(s) BY SMT, <2>0, <3>2 DEF Send
    <3>3. CASE SelectResponse(s) BY <2>0, <3>3 DEF SelectResponse
    <3>4. CASE SelectTimeout(s) BY <2>0, <3>4 DEF SelectTimeout
    <3>5. CASE SelectStopped(s) BY <2>0, <3>5 DEF SelectStopped
    <3>6. CASE Leave(s)
      <4>1. \A r \in Reqs : pc[r] \in {"send", "wait"} => KeyOf[r] # KeyOf[s]
        BY <3>6 DEF SerialInv, InFlight, Leave
      <4> QED BY <2>0, <3>6, <4>1 DEF Leave, InFlight
    <3> QED BY <2>2, <3>1, <3>2, <3>3, <3>4, <3>5, <3>6 DEF Request
  <2>3. CASE readLoop
    <3>1. CASE Receive BY <2>0, <3>1 DEF Receive
    <3>2. CASE ReceiveFailed BY <2>0, <3>2 DEF ReceiveFailed
    <3>3. CASE Lookup BY <2>0, <3>3 DEF Lookup, InFlight
    <3>4. CASE Deliver
      <4>1. msg # None BY <3>4 DEF Deliver
      <4> QED BY <2>0, <3>4, <4>1 DEF Deliver
    <3>5. CASE Unsolicited BY <2>0, <3>5 DEF Unsolicited
    <3> QED BY <2>3, <3>1, <3>2, <3>3, <3>4, <3>5 DEF readLoop
  <2>4. CASE (\E c \in Closers : Close(c)) \/ Environment
    <3>1. UNCHANGED <<pc, pending, ch, reader, target>>
      BY ZenonT(30), <2>4 DEF Close, CloseStop, CloseLink, CloseWait, Environment, PeerAnswers,
                  PeerInitiates, LinkBreaks
    <3> QED BY SMTT(30), <2>0, <3>1
  <2>5. CASE Quiet BY <2>0, <2>5 DEF Quiet, vars
  <2> QED BY <2>1, <2>2, <2>3, <2>4, <2>5 DEF Next
<1> QED BY <1>1, <1>2

LEMMA SerialWire ==
  ASSUME TypeOK, SerialInv, [Next]_vars
  PROVE  /\ (\A r \in sent : Wrote(r))'
         /\ (\A i \in 1 .. Len(inbound) : Answers(inbound[i]))'
         /\ (reader \in {"lookup", "unsolicited"} => Answers(msg))'
<1> DEFINE Ok(f) == f.ans \in Reqs => /\ pc'[f.ans] \in {"wait", "leave", "done"}
                                      /\ KeyOf[f.ans] \in Keys /\ f.key = KeyOf[f.ans]
<1>a. ASSUME NEW f \in Frame, Answers(f) PROVE Ok(f)
  BY <1>a, Onward DEF Answers, Wrote
<1>0. /\ sent \subseteq Reqs /\ \A r \in sent : pc'[r] \in {"wait", "leave", "done"} /\ KeyOf[r] \in Keys
      /\ inbound \in Seq(Frame) /\ \A i \in 1 .. Len(inbound) : Ok(inbound[i])
      /\ reader \in {"lookup", "unsolicited"} => Ok(msg)
  <2>1. inbound \in Seq(Frame) /\ \A i \in 1 .. Len(inbound) : inbound[i] \in Frame
    BY ElementOfSeq DEF TypeOK
  <2>2. \A i \in 1 .. Len(inbound) : Ok(inbound[i]) BY <1>a, <2>1 DEF SerialInv
  <2>3. reader \in {"lookup", "unsolicited"} => Ok(msg)
    BY <1>a DEF SerialInv, TypeOK
  <2>4. sent \subseteq Reqs BY DEF TypeOK
  <2>5. \A r \in sent : pc'[r] \in {"wait", "leave", "done"} /\ KeyOf[r] \in Keys
    BY <2>4, Onward DEF SerialInv, Wrote
  <2> QED BY <2>1, <2>2, <2>3, <2>4, <2>5
<1>b. ASSUME \A i \in 1 .. Len(inbound') : Ok(inbound'[i]),
             reader' \in {"lookup", "unsolicited"} => Ok(msg')
      PROVE  /\ (\A i \in 1 .. Len(inbound) : Answers(inbound[i]))'
             /\ (reader \in {"lookup", "unsolicited"} => Answers(msg))'
  BY <1>b DEF Answers, Wrote
<1> HIDE DEF Ok
<1>1. (\A r \in sent : Wrote(r))'
  <2> SUFFICES ASSUME NEW r \in sent', r \notin sent PROVE Wrote(r)'
    BY <1>0 DEF Wrote
  <2>1. r \in Reqs /\ Send(r) /\ pc'[r] = "wait"
    <3>1. PICK s \in Reqs : Send(s)
      BY ZenonT(30) DEF Next, vars, Request, Register, SelectResponse, SelectTimeout, SelectStopped, Leave,
             readLoop, Receive, ReceiveFailed, Lookup, Deliver, Unsolicited, Close, CloseStop,
             CloseLink, CloseWait, Environment, PeerAnswers, PeerInitiates, LinkBreaks, Quiet, wire
    <3> QED BY SMTT(30), <3>1 DEF Send, Returns, TypeOK
  <2>2. KeyOf[r] \in Keys BY ZenonT(30), <2>1 DEF TypeOK, InFlight, Send
  <2> QED BY <2>1, <2>2 DEF Wrote
<1>2. CASE UNCHANGED <<inbound, msg, reader>> BY <1>0, <1>1, <1>2, <1>b
<1>3. CASE Receive
  <2>1. inbound # <<>> /\ msg' = inbound[1] /\ inbound' = Tail(inbound) /\ 1 \in 1 .. Len(inbound)
    BY SMT, <1>0, <1>3 DEF Receive
  <2>2. \A i \in 1 .. Len(inbound') : inbound'[i] = inbound[i + 1] /\ i + 1 \in 1 .. Len(inbound)
    BY SMT, <1>0, <2>1
  <2>3. \A i \in 1 .. Len(inbound') : Ok(inbound'[i]) BY <1>0, <2>2
  <2>4. Ok(msg') BY <1>0, <2>1
  <2> QED BY <1>1, <1>b, <2>3, <2>4
<1>4. ASSUME NEW f \in Frame, inbound' = Append(inbound, f), Ok(f), UNCHANGED <<msg, reader>>
      PROVE  /\ (\A i \in 1 .. Len(inbound) : Answers(inbound[i]))'
             /\ (reader \in {"lookup", "unsolicited"} => Answers(msg))'
  <2>1. \A i \in 1 .. Len(inbound') : inbound'[i] = f \/ (i \in 1 .. Len(inbound) /\ inbound'[i] = inbound[i])
    BY SMT, <1>0, <1>4
  <2>2. \A i \in 1 .. Len(inbound') : Ok(inbound'[i]) BY <1>0, <1>4, <2>1
  <2>3. reader' \in {"lookup", "unsolicited"} => Ok(msg') BY <1>0, <1>4
  <2> QED BY <2>2, <2>3, <1>b
<1>5. ASSUME NEW r \in Reqs, PeerAnswers(r)
      PROVE  \E f \in Frame : inbound' = Append(inbound, f) /\ Ok(f) /\ UNCHANGED <<msg, reader>>
  <2> DEFINE f == [key |-> KeyOf[r], ans |-> r]
  <2>1. pc'[r] \in {"wait", "leave", "done"} /\ KeyOf[r] \in Keys BY <1>0, <1>5 DEF PeerAnswers
  <2>2. f \in Frame /\ Ok(f) BY <2>1 DEF Frame, Ok
  <2>3. inbound' = Append(inbound, f) /\ UNCHANGED <<msg, reader>> BY <1>5 DEF PeerAnswers, loop
  <2> QED BY <2>2, <2>3
<1>6. ASSUME NEW k \in PeerKeys, PeerInitiates(k)
      PROVE  \E f \in Frame : inbound' = Append(inbound, f) /\ Ok(f) /\ UNCHANGED <<msg, reader>>
  <2> DEFINE f == [key |-> k, ans |-> None]
  <2>2. f \in Frame /\ Ok(f) BY DEF Frame, Ok
  <2>3. inbound' = Append(inbound, f) /\ UNCHANGED <<msg, reader>> BY <1>6 DEF PeerInitiates, loop
  <2> QED BY <2>2, <2>3
<1>7. CASE Lookup
  <2>1. UNCHANGED <<msg, inbound>> /\ reader = "lookup" BY <1>7 DEF Lookup, wire
  <2> QED BY <1>0, <1>1, <1>b, <2>1
<1>8. CASE Deliver \/ Unsolicited \/ ReceiveFailed
  <2>1. UNCHANGED inbound /\ reader' \in {"receive", "stopped"}
    BY <1>8 DEF Deliver, Unsolicited, ReceiveFailed, wire
  <2> QED BY <1>0, <1>1, <1>b, <2>1
<1>9. CASE UNCHANGED vars \/ (\E r \in Reqs : Request(r)) \/ (\E c \in Closers : Close(c))
             \/ LinkBreaks \/ Quiet
  <2>1. UNCHANGED <<inbound, msg, reader>>
    BY <1>9 DEF vars, wire, loop, Request, Register, Send, SelectResponse, SelectTimeout, SelectStopped,
                Leave, Close, CloseStop, CloseLink, CloseWait, LinkBreaks, Quiet
  <2> QED BY SMTT(30), <1>2, <2>1
<1>10. CASE \E r \in Reqs : PeerAnswers(r) BY <1>1, <1>4, <1>5, <1>10
<1>11. CASE \E k \in PeerKeys : PeerInitiates(k) BY <1>1, <1>4, <1>6, <1>11
<1> QED BY <1>3, <1>7, <1>8, <1>9, <1>10, <1>11 DEF Next, readLoop, Environment

LEMMA SerialLate ==
  ASSUME TypeOK, RegisteredInv, SerialInv, [Next]_vars
  PROVE  /\ (reader = "unsolicited" /\ msg.ans \in Reqs => Late(msg.ans))'
         /\ StrayAnswersLate'
<1>1. CASE Lookup
  <2>1. UNCHANGED <<pc, ch, msg, strays>> BY <1>1 DEF Lookup, calls
  <2>2. ASSUME reader' = "unsolicited", msg.ans \in Reqs PROVE Late(msg.ans)
    <3>1. pending[msg.key] = None /\ msg.key = KeyOf[msg.ans] /\ Wrote(msg.ans)
      BY <1>1, <2>2 DEF Lookup, SerialInv, Answers
    <3> QED BY SMTT(30), <1>1, <2>2, <3>1 DEF Lookup, SerialInv, StaysRegistered, Wrote, Late
  <2> QED BY <2>1, <2>2 DEF Late, SerialInv, StrayAnswersLate
<1>2. CASE Unsolicited
  <2>1. UNCHANGED <<pc, ch>> /\ reader' = "receive" /\ strays' = strays \cup {msg} /\ reader = "unsolicited"
    BY <1>2 DEF Unsolicited, calls
  <2> QED BY <2>1 DEF SerialInv, StrayAnswersLate, Late
<1>3. CASE Receive
  <2>1. UNCHANGED <<pc, ch, strays>> BY <1>3 DEF Receive, calls
  <2>2. 1 \in 1 .. Len(inbound) /\ msg' = inbound[1] /\ msg' \in Frame BY SMTT(30), <1>3 DEF Receive, TypeOK
  <2>3. reader' = "unsolicited" => msg'.ans \notin Reqs
    BY SMT, <1>3, <2>2 DEF Receive, SerialInv, Answers, Wrote
  <2> QED BY <2>1, <2>3 DEF SerialInv, StrayAnswersLate, Late
<1>4. CASE /\ UNCHANGED strays
           /\ reader' # "unsolicited" \/ UNCHANGED <<reader, msg>>
  <2>1. \A r \in Reqs : Late(r) => pc'[r] \in {"leave", "done"} \/ ch'[r] # None BY Onward DEF Late
  <2>2. StrayAnswersLate' BY SMTT(30), <1>4, <2>1 DEF SerialInv, StrayAnswersLate, Late
  <2>3. ASSUME reader' = "unsolicited", msg'.ans \in Reqs
        PROVE  pc'[msg'.ans] \in {"leave", "done"} \/ ch'[msg'.ans] # None
    BY <1>4, <2>1, <2>3 DEF SerialInv
  <2> QED BY <2>2, <2>3 DEF Late
<1>5. CASE (\E r \in Reqs : Request(r)) \/ (\E c \in Closers : Close(c)) \/ Environment \/ Quiet
  <2>1. UNCHANGED <<strays, reader, msg>>
    BY ZenonT(30), <1>5 DEF vars, loop, Request, Register, Send, SelectResponse, SelectTimeout, SelectStopped, Leave,
                Close, CloseStop, CloseLink, CloseWait, Environment, PeerAnswers, PeerInitiates,
                LinkBreaks, Quiet
  <2> QED BY SMTT(30), <1>4, <2>1
<1>7. CASE ReceiveFailed \/ Deliver BY <1>4, <1>7 DEF ReceiveFailed, Deliver
<1>6. UNCHANGED vars => UNCHANGED <<strays, reader, msg>> BY DEF vars, loop
<1> QED BY <1>1, <1>2, <1>3, <1>4, <1>5, <1>6, <1>7 DEF Next, readLoop

\* When callers use keys serially, a waiting Request stays registered under its
\* key until the reader holds its answer, and the unsolicited handler gets an
\* answer only when its Request has left or holds another frame.
THEOREM SerialCorrect == ASSUME Serial PROVE Spec => [](StaysRegistered /\ StrayAnswersLate)
<1>1. Init => RegisteredInv /\ SerialInv
  BY SMTT(30) DEF Init, RegisteredInv, NoLeak, NeverBlocks, Unanswered, SerialInv, InFlight, StaysRegistered,
         StrayAnswersLate
<1>2. TypeOK /\ RegisteredInv /\ SerialInv /\ [Next]_vars => SerialInv'
  BY ZenonT(30), SerialRegistered, SerialWire, SerialLate DEF SerialInv
<1>3. SerialInv => StaysRegistered /\ StrayAnswersLate BY DEF SerialInv
<1> QED BY <1>1, <1>2, <1>3, RegisteredStep, TypeCorrect, PTL DEF Spec

-----------------------------------------------------------------------------
(* Whose answer a request returns.                                         *)

\* An answer that is nowhere new stays in its one place.
LEMMA PlacesKept ==
  ASSUME OncePlaced, UNCHANGED <<sent, inbound, ch, got>>,
         \A s \in Reqs : (Wrote(s) => Wrote(s)') /\ (Held(s)' => Held(s))
  PROVE  OncePlaced'
<1>1. \A s \in Reqs : Coming(s)' <=> Coming(s) BY DEF Coming
<1>2. \A q, s \in Reqs : (InChannel(q, s)' <=> InChannel(q, s)) /\ (Taken(q, s)' <=> Taken(q, s))
  BY DEF InChannel, Taken
<1>3. (\A i, j \in 1 .. Len(inbound) : inbound[i].ans \in Reqs /\ inbound[i].ans = inbound[j].ans => i = j)'
  BY DEF OncePlaced
<1> QED BY <1>1, <1>2, <1>3 DEF OncePlaced

\* Request's own steps: a frame is written to the wire once, and the select takes
\* it out of the channel.
LEMMA PlacedRequest ==
  ASSUME TypeOK, SerialInv, OncePlaced, NEW r \in Reqs, Request(r), \A s \in Reqs : Wrote(s) => Wrote(s)'
  PROVE  OncePlaced'
<1> USE DEF TypeOK
<1>1. CASE UNCHANGED <<sent, inbound, ch, got, reader, msg>>
  BY <1>1, PlacesKept DEF Held
<1>2. CASE Send(r) /\ sent' = sent \cup {r}
  <2>1. UNCHANGED <<inbound, ch, got, reader, msg>> /\ ~Wrote(r)
    BY <1>2 DEF Send, Returns, loop, Wrote
  <2>2. ~Coming(r)
    <3>1. \A i \in 1 .. Len(inbound) : inbound[i].ans # r BY SMT, <2>1 DEF SerialInv, Answers
    <3> QED BY <3>1 DEF Coming
  <2>3. \A s \in Reqs : (Coming(s)' <=> Coming(s)) /\ (Held(s)' <=> Held(s)) BY <2>1 DEF Coming, Held
  <2>4. \A q, s \in Reqs : (InChannel(q, s)' <=> InChannel(q, s)) /\ (Taken(q, s)' <=> Taken(q, s))
    BY <2>1 DEF InChannel, Taken
  <2>5. (\A i, j \in 1 .. Len(inbound) : inbound[i].ans \in Reqs /\ inbound[i].ans = inbound[j].ans => i = j)'
    BY <2>1 DEF OncePlaced
  <2>6. \A s \in Reqs : s \in sent' <=> s \in sent \/ s = r BY ZenonT(30), <1>2
  <2> QED BY SMT, <2>1, <2>2, <2>3, <2>4, <2>5, <2>6 DEF OncePlaced
<1>3. CASE SelectResponse(r)
  <2>1. UNCHANGED <<inbound, sent, reader, msg>> BY <1>3 DEF SelectResponse, loop, wire
  <2>2. \A s \in Reqs : (Coming(s)' <=> Coming(s)) /\ (Held(s)' <=> Held(s)) BY <2>1 DEF Coming, Held
  <2>3. \A q, s \in Reqs : InChannel(q, s)' <=> q # r /\ InChannel(q, s)
    BY <1>3 DEF InChannel, SelectResponse
  <2>4. \A q, s \in Reqs : Taken(q, s)' <=> IF q = r THEN InChannel(r, s) ELSE Taken(q, s)
    BY <1>3 DEF InChannel, Taken, SelectResponse
  <2>5. (\A i, j \in 1 .. Len(inbound) : inbound[i].ans \in Reqs /\ inbound[i].ans = inbound[j].ans => i = j)'
    BY <2>1 DEF OncePlaced
  <2> QED BY SMT, <2>1, <2>2, <2>3, <2>4, <2>5 DEF OncePlaced
<1>4. CASE Register(r) \/ SelectTimeout(r) \/ SelectStopped(r) \/ Leave(r)
  BY <1>1, <1>4 DEF Register, SelectTimeout, SelectStopped, Leave, Returns, wire, loop
<1>5. CASE Send(r) /\ sent' = sent
  BY <1>1, <1>5 DEF Send, Returns, loop
<1> QED BY <1>2, <1>3, <1>4, <1>5 DEF Request, Send

\* The reader's steps: a frame leaves the wire, and goes into one channel or none.
LEMMA PlacedReader ==
  ASSUME TypeOK, SerialInv, OncePlaced, readLoop, \A s \in Reqs : Wrote(s) => Wrote(s)'
  PROVE  OncePlaced'
<1> USE DEF TypeOK
<1>1. CASE Receive
  <2>1. /\ inbound # <<>> /\ inbound \in Seq(Frame) /\ msg' = inbound[1] /\ inbound' = Tail(inbound)
        /\ 1 \in 1 .. Len(inbound) /\ UNCHANGED <<sent, ch, got>> /\ reader = "receive"
        /\ reader' \in {"unsolicited", "lookup"}
    <3>1. inbound # <<>> /\ inbound \in Seq(Frame) /\ msg' = Head(inbound) /\ inbound' = Tail(inbound)
      BY <1>1 DEF Receive
    <3>2. msg' = inbound[1] /\ 1 \in 1 .. Len(inbound) BY SMT, <3>1
    <3>3. UNCHANGED <<sent, ch, got>> /\ reader = "receive" /\ reader' \in {"unsolicited", "lookup"}
      BY <1>1 DEF Receive, calls
    <3> QED BY <3>1, <3>2, <3>3
  <2>2. \A i \in 1 .. Len(inbound') : inbound'[i] = inbound[i + 1] /\ i + 1 \in 1 .. Len(inbound) /\ i \in Nat
    BY SMT, <2>1
  <2>3. (\A i, j \in 1 .. Len(inbound) : inbound[i].ans \in Reqs /\ inbound[i].ans = inbound[j].ans => i = j)'
    <3> SUFFICES ASSUME NEW i \in 1 .. Len(inbound'), NEW j \in 1 .. Len(inbound'),
                        inbound'[i].ans \in Reqs, inbound'[i].ans = inbound'[j].ans
                 PROVE  i = j
      OBVIOUS
    <3>1. i + 1 = j + 1 BY <2>2 DEF OncePlaced
    <3> QED BY SMT, <2>2, <3>1
  <2>4. \A s \in Reqs : Coming(s)' => Coming(s) BY <2>2 DEF Coming
  <2>5. \A s \in Reqs : Held(s)' <=> inbound[1].ans = s BY <2>1 DEF Held
  <2>6. \A s \in Reqs : Held(s)' => Coming(s) BY <2>1, <2>5 DEF Coming
  <2>7. \A s \in Reqs : Held(s)' => ~Coming(s)'
    <3> SUFFICES ASSUME NEW s \in Reqs, inbound[1].ans = s, NEW i \in 1 .. Len(inbound'), inbound'[i].ans = s
                 PROVE  FALSE
      BY <2>5 DEF Coming
    <3>1. inbound[i + 1].ans = inbound[1].ans /\ i + 1 \in 1 .. Len(inbound) /\ i + 1 # 1 BY SMT, <2>2
    <3> QED BY SMT, <2>1, <3>1 DEF OncePlaced
  <2>8. \A s \in Reqs : Held(s)' => Wrote(s)
    BY SMT, <2>1, <2>5 DEF SerialInv, Answers
  <2>9. \A q, s \in Reqs : (InChannel(q, s)' <=> InChannel(q, s)) /\ (Taken(q, s)' <=> Taken(q, s))
    BY <2>1 DEF InChannel, Taken
  <2> QED BY SMT, <2>1, <2>3, <2>4, <2>6, <2>7, <2>8, <2>9 DEF OncePlaced
<1>2. CASE Deliver
  <2>1. UNCHANGED <<inbound, sent, got>> /\ reader' = "receive" /\ reader = "deliver" /\ target \in Reqs
        /\ msg \in Frame /\ ch' = [ch EXCEPT ![target] = msg]
    BY <1>2 DEF Deliver, calls, wire
  <2>2. \A s \in Reqs : (Coming(s)' <=> Coming(s)) /\ ~Held(s)' BY <2>1 DEF Coming, Held
  <2>3. \A q, s \in Reqs : InChannel(q, s)' <=> IF q = target THEN Held(s) ELSE InChannel(q, s)
    BY <2>1 DEF InChannel, Held
  <2>4. \A q, s \in Reqs : Taken(q, s)' <=> Taken(q, s) BY <2>1 DEF Taken
  <2>5. (\A i, j \in 1 .. Len(inbound) : inbound[i].ans \in Reqs /\ inbound[i].ans = inbound[j].ans => i = j)'
    BY <2>1 DEF OncePlaced
  <2> QED BY SMT, <2>1, <2>2, <2>3, <2>4, <2>5 DEF OncePlaced
<1>3. CASE ReceiveFailed \/ Lookup \/ Unsolicited
  <2>1. UNCHANGED <<sent, inbound, ch, got>>
    BY <1>3 DEF ReceiveFailed, Lookup, Unsolicited, calls, wire
  <2>2. \A s \in Reqs : Held(s)' => Held(s) BY <1>3 DEF ReceiveFailed, Lookup, Unsolicited, Held
  <2> QED BY <2>1, <2>2, PlacesKept
<1> QED BY <1>1, <1>2, <1>3 DEF readLoop

\* The peer's steps: a request that was written once is answered once.
LEMMA PlacedPeer ==
  ASSUME TypeOK, OncePlaced, Environment, \A s \in Reqs : Wrote(s) => Wrote(s)'
  PROVE  OncePlaced'
<1> USE DEF TypeOK
<1>1. ASSUME NEW f \in Frame, inbound' = Append(inbound, f), UNCHANGED <<ch, got, reader, msg>>,
             \/ f.ans = None /\ sent' = sent
             \/ f.ans \in sent /\ sent' = sent \ {f.ans}
      PROVE  OncePlaced'
  <2>1. \A i \in 1 .. Len(inbound') : \/ i = Len(inbound) + 1 /\ inbound'[i] = f
                                      \/ i \in 1 .. Len(inbound) /\ inbound'[i] = inbound[i]
    BY SMT, <1>1
  <2>2. \A s \in Reqs : Coming(s)' => Coming(s) \/ s = f.ans BY <2>1 DEF Coming
  <2>3. \A i \in 1 .. Len(inbound) : f.ans \in Reqs => inbound[i].ans # f.ans
    BY <1>1 DEF OncePlaced, Coming
  <2>4. (\A i, j \in 1 .. Len(inbound) : inbound[i].ans \in Reqs /\ inbound[i].ans = inbound[j].ans => i = j)'
    BY <2>1, <2>3 DEF OncePlaced
  <2>5. \A q, s \in Reqs : /\ InChannel(q, s)' <=> InChannel(q, s)
                           /\ Taken(q, s)' <=> Taken(q, s)
                           /\ Held(s)' <=> Held(s)
    BY <1>1 DEF InChannel, Taken, Held
  <2>6. \A s \in Reqs : s \in sent' <=> s \in sent /\ s # f.ans BY <1>1
  <2>7. \A s \in Reqs : s = f.ans => s \in sent BY <1>1
  <2> QED BY SMT, <2>2, <2>4, <2>5, <2>6, <2>7 DEF OncePlaced
<1>2. ASSUME NEW r \in Reqs, PeerAnswers(r) PROVE OncePlaced'
  <2> DEFINE f == [key |-> KeyOf[r], ans |-> r]
  <2>1. f \in Frame BY DEF Frame
  <2> QED BY <1>1, <1>2, <2>1 DEF PeerAnswers, calls, loop
<1>3. ASSUME NEW k \in PeerKeys, PeerInitiates(k) PROVE OncePlaced'
  <2> DEFINE f == [key |-> k, ans |-> None]
  <2>1. f \in Frame BY DEF Frame
  <2> QED BY <1>1, <1>3, <2>1 DEF PeerInitiates, calls, loop
<1>4. CASE LinkBreaks
  BY <1>4, PlacesKept DEF LinkBreaks, calls, loop, wire, Held
<1> QED BY ZenonT(30), <1>2, <1>3, <1>4 DEF Environment

LEMMA PlacedStep ==
  ASSUME TypeOK, SerialInv, OncePlaced, [Next]_vars
  PROVE  OncePlaced'
<1>1. \A s \in Reqs : Wrote(s) => Wrote(s)' BY Onward
<1>2. CASE UNCHANGED vars \/ Quiet \/ (\E c \in Closers : Close(c))
  <2>1. UNCHANGED <<sent, inbound, ch, got, reader, msg>>
    BY ZenonT(30), <1>2 DEF vars, calls, loop, wire, Quiet, Close, CloseStop, CloseLink, CloseWait
  <2> QED BY <1>1, <2>1, PlacesKept DEF Held
<1> QED BY <1>1, <1>2, PlacedRequest, PlacedReader, PlacedPeer DEF Next

\* A frame that fits goes on fitting: a request that returned stays gone.
LEMMA FitsOn ==
  ASSUME TypeOK, [Next]_vars, NEW f \in Frame, NEW r \in Reqs, Fits(f, r)
  PROVE  Fits(f, r)'
<1>1. \A s \in Reqs : pc[s] = "done" => pc'[s] = "done"
  <2> SUFFICES ASSUME NEW s \in Reqs, pc[s] = "done" PROVE pc'[s] = "done"
    OBVIOUS
  <2>1. ASSUME NEW q \in Reqs, Request(q) PROVE pc'[s] = "done"
    <3>1. pc[q] # "done"
      BY <2>1 DEF Request, Register, Send, SelectResponse, SelectTimeout, SelectStopped, Leave
    <3>2. \E x : pc' = [pc EXCEPT ![q] = x]
      BY <2>1 DEF Request, Register, Send, SelectResponse, SelectTimeout, SelectStopped, Leave, Returns
    <3> QED BY <3>1, <3>2 DEF TypeOK
  <2>2. CASE ~\E q \in Reqs : Request(q)
    <3>1. pc' = pc
      BY ZenonT(30), <2>2 DEF Next, vars, calls, readLoop, Receive, ReceiveFailed, Lookup, Deliver,
         Unsolicited, Close, CloseStop, CloseLink, CloseWait, Environment, PeerAnswers, PeerInitiates,
         LinkBreaks, Quiet
    <3> QED BY <3>1
  <2> QED BY <2>1, <2>2
<1> QED BY <1>1 DEF Fits, Initiated

\* The reader looks up the one request in flight with the frame's key: if the
\* frame answers another one, that one has returned.
LEMMA LooksUpFitting ==
  ASSUME TypeOK, RegisteredInv, SerialInv, reader = "lookup", Initiated(msg), pending[msg.key] # None
  PROVE  pending[msg.key] \in Reqs /\ Fits(msg, pending[msg.key])
<1> DEFINE r == pending[msg.key]
<1>1. msg.key \in Keys /\ msg \in Frame /\ r \in Reqs BY DEF TypeOK
<1>2. InFlight(r) /\ KeyOf[r] = msg.key BY <1>1 DEF RegisteredInv, NoLeak
<1>3. ASSUME msg.ans \in Reqs \ {r} PROVE pc[msg.ans] = "done"
  <2>1. Wrote(msg.ans) /\ msg.key = KeyOf[msg.ans] BY <1>3 DEF SerialInv, Answers
  <2>2. ~InFlight(msg.ans) BY <1>1, <1>2, <1>3, <2>1 DEF SerialInv
  <2> QED BY <2>1, <2>2 DEF Wrote, InFlight
<1> QED BY <1>1, <1>2, <1>3 DEF Fits

LEMMA AnswerStep ==
  ASSUME TypeOK, RegisteredInv, SerialInv, AnswerInv, [Next]_vars
  PROVE  AnswerInv'
<1>0. OncePlaced' BY PlacedStep DEF AnswerInv
<1>1. (\A i \in 1 .. Len(inbound) : Initiated(inbound[i]))' /\ (reader = "lookup" => Initiated(msg))'
  <2>0. /\ inbound \in Seq(Frame) /\ \A i \in 1 .. Len(inbound) : Initiated(inbound[i])
        /\ reader = "lookup" => Initiated(msg)
    BY DEF TypeOK, AnswerInv
  <2> USE DEF Initiated
  <2>1. CASE Receive
    <3>1. inbound # <<>> /\ msg' = Head(inbound) /\ inbound' = Tail(inbound) BY <2>1 DEF Receive
    <3>2. msg' = inbound[1] /\ 1 \in 1 .. Len(inbound) BY SMT, <2>0, <3>1
    <3>3. \A i \in 1 .. Len(inbound') : inbound'[i] = inbound[i + 1] /\ i + 1 \in 1 .. Len(inbound)
      BY SMT, <2>0, <3>1
    <3> QED BY <2>0, <3>2, <3>3
  <2>2. ASSUME NEW f \in Frame, Initiated(f), inbound' = Append(inbound, f), UNCHANGED <<reader, msg>>
        PROVE  (\A i \in 1 .. Len(inbound) : Initiated(inbound[i]))' /\ (reader = "lookup" => Initiated(msg))'
    <3>1. \A i \in 1 .. Len(inbound') : inbound'[i] = f \/ (i \in 1 .. Len(inbound) /\ inbound'[i] = inbound[i])
      BY SMT, <2>0, <2>2
    <3> QED BY <2>0, <2>2, <3>1
  <2>3. ASSUME NEW r \in Reqs, PeerAnswers(r)
        PROVE  (\A i \in 1 .. Len(inbound) : Initiated(inbound[i]))' /\ (reader = "lookup" => Initiated(msg))'
    <3> DEFINE f == [key |-> KeyOf[r], ans |-> r]
    <3>1. f \in Frame /\ Initiated(f) BY DEF Frame
    <3> QED BY <2>2, <2>3, <3>1 DEF PeerAnswers, loop
  <2>4. ASSUME NEW k \in PeerKeys, PeerInitiates(k)
        PROVE  (\A i \in 1 .. Len(inbound) : Initiated(inbound[i]))' /\ (reader = "lookup" => Initiated(msg))'
    <3> DEFINE f == [key |-> k, ans |-> None]
    <3>1. f \in Frame /\ Initiated(f) BY DEF Frame
    <3> QED BY <2>2, <2>4, <3>1 DEF PeerInitiates, loop
  <2>5. CASE inbound' = inbound /\ (reader' = "lookup" => reader = "lookup" /\ msg' = msg) BY <2>0, <2>5
  <2>6. CASE ReceiveFailed \/ Lookup \/ Deliver \/ Unsolicited
    BY <2>5, <2>6 DEF ReceiveFailed, Lookup, Deliver, Unsolicited, wire
  <2>7. CASE UNCHANGED vars \/ (\E r \in Reqs : Request(r)) \/ (\E c \in Closers : Close(c))
               \/ LinkBreaks \/ Quiet
    <3>1. UNCHANGED <<inbound, msg, reader>>
      BY ZenonT(30), <2>7 DEF vars, wire, loop, Request, Register, Send, SelectResponse, SelectTimeout,
         SelectStopped, Leave, Close, CloseStop, CloseLink, CloseWait, LinkBreaks, Quiet
    <3> QED BY <2>5, <3>1
  <2> QED BY <2>1, <2>3, <2>4, <2>6, <2>7 DEF Next, readLoop, Environment
<1>2. (reader = "deliver" => Fits(msg, target))'
  <2> SUFFICES ASSUME reader' = "deliver" PROVE Fits(msg, target)'
    OBVIOUS
  <2>1. CASE Lookup
    <3>1. reader = "lookup" /\ target' = pending[msg.key] /\ msg' = msg /\ pending[msg.key] # None /\ pc' = pc
      BY <2>1 DEF Lookup, calls
    <3>2. Fits(msg, pending[msg.key]) BY <3>1, LooksUpFitting DEF AnswerInv
    <3> QED BY <3>1, <3>2 DEF Fits, Initiated
  <2>2. CASE UNCHANGED <<reader, msg, target>>
    <3>1. reader = "deliver" /\ Fits(msg, target) /\ msg \in Frame /\ target \in Reqs
      BY <2>2 DEF AnswerInv, TypeOK
    <3> QED BY <2>2, <3>1, FitsOn DEF Fits, Initiated
  <2>3. CASE readLoop
    BY <2>1, <2>3 DEF readLoop, Receive, ReceiveFailed, Deliver, Unsolicited
  <2>4. CASE ~readLoop
    <3>1. UNCHANGED <<reader, msg, target>>
      BY ZenonT(30), <2>4 DEF Next, vars, loop, Request, Register, Send, SelectResponse, SelectTimeout,
         SelectStopped, Leave, Close, CloseStop, CloseLink, CloseWait, Environment, PeerAnswers,
         PeerInitiates, LinkBreaks, Quiet
    <3> QED BY <2>2, <3>1
  <2> QED BY <2>3, <2>4
<1>3. (\A r \in Reqs : /\ ch[r] # None => Fits(ch[r], r)
                       /\ got[r] # None => Fits(got[r], r)
                       /\ outcome[r] = "response" => got[r] # None)'
  <2> DEFINE Fitting(f, x) == /\ f.key = KeyOf[x] /\ (f.ans = None => f.key \in PeerKeys)
                              /\ f.ans \in Reqs \ {x} => pc'[f.ans] = "done"
             Goal(r) == /\ ch'[r] # None => Fitting(ch'[r], r)
                        /\ got'[r] # None => Fitting(got'[r], r)
                        /\ outcome'[r] = "response" => got'[r] # None
  <2> SUFFICES ASSUME NEW r \in Reqs PROVE Goal(r)
    BY DEF Fits, Initiated
  <2>a. ASSUME NEW f \in Frame, NEW x \in Reqs, Fits(f, x) PROVE Fitting(f, x)
    BY <2>a, FitsOn DEF Fits, Initiated
  <2>b. /\ ch[r] # None => ch[r] \in Frame /\ Fits(ch[r], r)
        /\ got[r] # None => got[r] \in Frame /\ Fits(got[r], r)
        /\ outcome[r] = "response" => got[r] # None
        /\ reader = "deliver" => msg \in Frame /\ target \in Reqs /\ Fits(msg, target)
    BY DEF AnswerInv, TypeOK
  <2>0. /\ ch[r] # None => Fitting(ch[r], r)
        /\ got[r] # None => Fitting(got[r], r)
        /\ outcome[r] = "response" => got[r] # None
        /\ reader = "deliver" => msg \in Frame /\ target \in Reqs /\ Fitting(msg, target)
    BY <2>a, <2>b
  <2> HIDE DEF Fitting
  <2>3. CASE ch'[r] = ch[r] /\ got'[r] = got[r] /\ (outcome'[r] = "response" => outcome[r] = "response")
    BY <2>0, <2>3
  <2>1. ASSUME NEW q \in Reqs, Request(q) PROVE Goal(r)
    <3> USE DEF TypeOK, Returns
    <3>1. CASE SelectResponse(q)
      <4>1. CASE q = r
        <5>1. ch'[r] = None /\ got'[r] = ch[r] /\ ch[r] # None BY <3>1, <4>1 DEF SelectResponse
        <5> QED BY <2>0, <5>1
      <4>2. CASE q # r BY <2>3, <3>1, <4>2 DEF SelectResponse
      <4> QED BY <4>1, <4>2
    <3>2. CASE Register(q) BY SMT, <2>3, <3>2 DEF Register
    <3>3. CASE Send(q) BY <2>3, <3>3 DEF Send
    <3>4. CASE SelectTimeout(q) BY <2>3, <3>4 DEF SelectTimeout
    <3>5. CASE SelectStopped(q) BY <2>3, <3>5 DEF SelectStopped
    <3>6. CASE Leave(q) BY <2>3, <3>6 DEF Leave
    <3> QED BY <2>1, <3>1, <3>2, <3>3, <3>4, <3>5, <3>6 DEF Request
  <2>2. CASE Deliver
    <3>1. UNCHANGED <<got, outcome>> /\ ch' = [ch EXCEPT ![target] = msg] /\ reader = "deliver"
      BY <2>2 DEF Deliver, calls
    <3>2. CASE r = target
      <4>1. ch'[r] = msg BY <3>1, <3>2 DEF TypeOK
      <4> QED BY <2>0, <3>1, <3>2, <4>1
    <3>3. CASE r # target
      <4>1. ch'[r] = ch[r] BY <3>1, <3>3 DEF TypeOK
      <4> QED BY <2>3, <3>1, <4>1
    <3> QED BY <3>2, <3>3
  <2>5. CASE ~Deliver /\ ~\E q \in Reqs : Request(q)
    <3>1. UNCHANGED <<ch, got, outcome>>
      BY ZenonT(30), <2>5 DEF Next, vars, calls, readLoop, Receive, ReceiveFailed, Lookup, Unsolicited,
         Close, CloseStop, CloseLink, CloseWait, Environment, PeerAnswers, PeerInitiates, LinkBreaks, Quiet
    <3> QED BY <2>3, <3>1
  <2> QED BY <2>1, <2>2, <2>5
<1> QED BY <1>0, <1>1, <1>2, <1>3 DEF AnswerInv

\* When callers use keys serially, Request returns the answer to its own frame, or a
\* peer-initiated frame with the same key, or the answer to an earlier request with
\* the key, which returned without it.
THEOREM AnswersOwn == ASSUME Serial PROVE Spec => []OwnAnswer
<1>1. Init => RegisteredInv /\ SerialInv /\ AnswerInv
  <2> SUFFICES ASSUME Init PROVE RegisteredInv /\ SerialInv /\ AnswerInv
    OBVIOUS
  <2>1. RegisteredInv /\ SerialInv
    BY SMTT(30) DEF Init, RegisteredInv, NoLeak, NeverBlocks, Unanswered, SerialInv, InFlight,
                    StaysRegistered, StrayAnswersLate
  <2>2. Len(inbound) = 0 /\ sent = {} /\ reader = "receive"
        /\ \A r \in Reqs : ch[r] = None /\ got[r] = None /\ outcome[r] = "pending"
    BY DEF Init
  <2>3. \A s \in Reqs : ~Coming(s) /\ ~Held(s) /\ \A q \in Reqs : ~InChannel(q, s) /\ ~Taken(q, s)
    BY SMT, <2>2 DEF Coming, Held, InChannel, Taken
  <2>4. OncePlaced BY SMT, <2>2, <2>3 DEF OncePlaced
  <2> QED BY SMT, <2>1, <2>2, <2>4 DEF AnswerInv
<1>2. TypeOK /\ RegisteredInv /\ SerialInv /\ [Next]_vars => SerialInv'
  BY ZenonT(30), SerialRegistered, SerialWire, SerialLate DEF SerialInv
<1>3. TypeOK /\ AnswerInv => OwnAnswer
  <2> SUFFICES ASSUME TypeOK, AnswerInv, NEW r \in Reqs, outcome[r] = "response"
               PROVE  /\ got[r].key = KeyOf[r]
                      /\ got[r].ans = None => KeyOf[r] \in PeerKeys
                      /\ got[r].ans \in Reqs \ {r} => pc[got[r].ans] = "done" /\ got[got[r].ans] # got[r]
    BY DEF OwnAnswer
  <2>1. got[r] # None /\ Fits(got[r], r) BY DEF AnswerInv
  <2>2. ASSUME NEW s \in Reqs \ {r}, got[r].ans = s, got[s] = got[r] PROVE FALSE
    <3>1. Taken(r, s) /\ Taken(s, s) BY <2>1, <2>2 DEF Taken
    <3> QED BY <2>2, <3>1 DEF AnswerInv, OncePlaced
  <2> QED BY <2>1, <2>2 DEF Fits, Initiated
<1> QED BY <1>1, <1>2, <1>3, AnswerStep, RegisteredStep, TypeCorrect, PTL DEF Spec
==============================================================================
