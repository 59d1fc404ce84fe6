-------------------------------- MODULE Link ---------------------------------
(* A Link (link/link.go) and its framers: the length prefix (link/framer.go)   *)
(* and the XML framer (link/xmlframe.go). Senders write frames, one reader     *)
(* takes them from the byte stream, and the connection may go down with part   *)
(* of a frame delivered. A length byte counts to Base instead of 256. XML is a *)
(* sequence of tags, text and space.                                           *)
EXTENDS Naturals, Sequences
LOCAL INSTANCE SequencesExt

CONSTANTS
  Base,        \* values of a byte of the prefix: 256 in the code
  MaxFrame,    \* defaultMaxFrame
  MaxSends,    \* bound on the messages sent
  NoFrame      \* ReadFrame needs more bytes

VARIABLES
  framer,      \* "len2", "len4" or "xml"
  stream,      \* bytes written and not read
  down,        \* the connection is closed: what is in the stream is all that comes
  sentMsgs,    \* messages that Send accepted
  received,    \* messages that Receive returned
  refused       \* Receive returned an error

linkVars == <<framer, stream, down, sentMsgs, received, refused>>

-----------------------------------------------------------------------------
(* link/framer.go *)
prefixWidth == IF framer = "len2" THEN 2 ELSE 4
maxLen == IF framer = "len2" THEN Base^2 - 1 ELSE MaxFrame
putUint(n) == [i \in 1..prefixWidth |-> (n \div Base^(prefixWidth - i)) % Base]
getUint(h) == FoldLeft(LAMBDA n, c : n * Base + c, 0, h)

WriteLengthPrefix(msg) == IF Len(msg) > maxLen THEN <<>> ELSE putUint(Len(msg)) \o msg

\* A frame, NoFrame, or <<>> when the length is refused; n is what was consumed.
ReadLengthPrefix(s) ==
  LET n == getUint(SubSeq(s, 1, prefixWidth))
  IN CASE Len(s) < prefixWidth -> [frame |-> NoFrame, n |-> 0, ok |-> TRUE]
       [] n > maxLen -> [frame |-> NoFrame, n |-> prefixWidth, ok |-> FALSE]
       [] Len(s) < prefixWidth + n -> [frame |-> NoFrame, n |-> 0, ok |-> TRUE]
       [] OTHER -> [frame |-> SubSeq(s, prefixWidth + 1, prefixWidth + n), n |-> prefixWidth + n, ok |-> TRUE]

(* link/xmlframe.go: the frame ends when the isomsg elements balance. *)
classifyTag(t) ==
  [isOpen |-> t \in {"<isomsg>", "<isomsg/>"}, isClose |-> t = "</isomsg>", selfClose |-> t = "<isomsg/>"]

WriteXML(msg) == IF Len(msg) > MaxFrame THEN <<>> ELSE msg \o <<"space">>

\* Mutated form: a frame ends with the first closing tag.
XMLStepFlat(acc, b) ==
  CASE acc.done -> acc
    [] acc.buf = <<>> /\ b = "space" -> [acc EXCEPT !.n = @ + 1]
    [] OTHER -> [buf |-> Append(acc.buf, b), n |-> acc.n + 1, depth |-> 0, begun |-> TRUE,
                 done |-> b \in {"</isomsg>", "<isomsg/>"}]

XMLStep(acc, b) ==
  LET tag == classifyTag(b)
      begun == acc.begun \/ tag.isOpen
      depth == IF tag.isOpen /\ ~tag.selfClose THEN acc.depth + 1
               ELSE IF tag.isClose THEN acc.depth - 1 ELSE acc.depth
  IN CASE acc.done -> acc
       [] acc.buf = <<>> /\ b = "space" -> [acc EXCEPT !.n = @ + 1]
       [] OTHER -> [buf |-> Append(acc.buf, b), n |-> acc.n + 1, depth |-> depth, begun |-> begun,
                    done |-> (b \notin {"text", "space"} /\ begun /\ depth = 0)
                             \/ Len(acc.buf) + 1 > MaxFrame]

ReadXML(s) ==
  LET r == FoldLeft(XMLStep, [buf |-> <<>>, n |-> 0, depth |-> 0, begun |-> FALSE, done |-> FALSE], s)
  IN CASE r.done /\ Len(r.buf) > MaxFrame -> [frame |-> NoFrame, n |-> r.n, ok |-> FALSE]
       [] r.done -> [frame |-> r.buf, n |-> r.n, ok |-> TRUE]
       [] OTHER -> [frame |-> NoFrame, n |-> 0, ok |-> TRUE]

WriteFrame(msg) == IF framer = "xml" THEN WriteXML(msg) ELSE WriteLengthPrefix(msg)
ReadFrame(s) == IF framer = "xml" THEN ReadXML(s) ELSE ReadLengthPrefix(s)

-----------------------------------------------------------------------------
(* link/link.go: two filters that each add their mark on the way out, in order, *)
(* and take it off on the way in, in the reverse order. XML takes none.         *)
filters == IF framer = "xml" THEN <<>> ELSE <<1, 2>>
applyOut(msg) == msg \o filters
applyIn(f) ==
  FoldLeft(LAMBDA m, k : IF m # NoFrame /\ m # <<>> /\ Last(m) = k THEN Front(m) ELSE NoFrame,
           f, Reverse(filters))

messages ==
  IF framer = "xml"
  THEN {<<"<isomsg/>">>,
        <<"<isomsg>", "<field/>", "<isomsg>", "text", "</isomsg>", "</isomsg>">>,
        <<"<isomsg>", "space", "text", "<field/>", "</isomsg>">>}
  ELSE {[i \in 1..n |-> 0] : n \in {0, 1, maxLen - 2, maxLen - 1}}

LinkInit ==
  /\ framer \in {"len2", "len4", "xml"}
  /\ stream = <<>> /\ down = FALSE /\ refused = FALSE
  /\ sentMsgs = <<>> /\ received = <<>>

\* Send: the frame is written in one piece under the lock, or refused.
LinkSend(msg) ==
  /\ ~down /\ Len(sentMsgs) < MaxSends
  /\ \E f \in {WriteFrame(applyOut(msg))} :
       /\ f # <<>>
       /\ stream' = stream \o f
  /\ sentMsgs' = Append(sentMsgs, msg)
  /\ UNCHANGED <<framer, down, received, refused>>

\* Close, or a peer that goes away: any part of what was not read is lost.
LinkDown ==
  /\ ~down /\ down' = TRUE
  /\ \E n \in 0..Len(stream) : stream' = SubSeq(stream, 1, n)
  /\ UNCHANGED <<framer, sentMsgs, received, refused>>

Receive ==
  LET r == ReadFrame(stream)
      m == applyIn(r.frame)
  IN /\ ~refused
     /\ \/ /\ r.frame # NoFrame /\ m # NoFrame
           /\ received' = Append(received, m) /\ refused' = FALSE
           /\ stream' = SubSeq(stream, r.n + 1, Len(stream))
        \/ /\ ~r.ok \/ (r.frame # NoFrame /\ m = NoFrame) \/ (r.frame = NoFrame /\ down)
           /\ refused' = TRUE
           /\ UNCHANGED <<received, stream>>
     /\ UNCHANGED <<framer, down, sentMsgs>>

LinkNext == (\E msg \in messages : LinkSend(msg)) \/ LinkDown \/ Receive

-----------------------------------------------------------------------------
\* The messages that Receive returns are those that were sent, in order, each whole:
\* a frame cut off by the end of the connection, or nested inside another, is never
\* taken for one. On a connection that is up nothing is refused, and a frame that is
\* in the stream can be read.
FramesInOrder ==
  /\ IsPrefix(received, sentMsgs)
  /\ ~down => ~refused /\ (ReadFrame(stream).frame = NoFrame => received = sentMsgs)
=============================================================================
