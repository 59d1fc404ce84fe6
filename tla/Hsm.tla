-------------------------------- MODULE Hsm ---------------------------------
(***************************************************************************)
(* The payShield adapter (adapters/payshield): a client that sends one host *)
(* command at a time over one connection, and the Simulator that answers.   *)
(*                                                                          *)
(* Characters are numbers, 0..9 the decimal digits.  A frame is one element *)
(* of a stream: writeFrame and readFrame keep frames apart.                 *)
(***************************************************************************)
EXTENDS Integers, Sequences, FiniteSets
LOCAL INSTANCE SequencesExt

CONSTANTS HsmCallers,  \* goroutines that use the adapter
          MaxCommands, \* bound: commands issued in all
          LenDigits,   \* digits of a field length (4)
          Payloads     \* messages, PIN blocks and PINs, as character sequences

NoAnswer == [err |-> "none"]
KeyRef == {<<1>>, <<2>>}       \* <<1>> was imported on the device, <<2>> was not
codeOK == "00"
codeVerifyFail == "01"
codeKeyNotFound == "10"
codeFormatError == "20"

-----------------------------------------------------------------------------
(* Length-prefixed fields (proto.go).                                       *)

decimal[n \in Nat] == IF n < 10 THEN <<n>> ELSE Append(decimal[n \div 10], n % 10)

hsmField(s) ==
    LET d == decimal[Len(s)] IN [i \in 1 .. LenDigits - Len(d) |-> 0] \o d \o s

macBody(fields) == FoldLeft(LAMBDA b, f : b \o hsmField(f), <<>>, fields)

(* The reader takes n fields; the first error sticks. *)
readFields(body, n) ==
    LET step(r, i) ==
            LET head == SubSeq(r.rest, 1, LenDigits)
                len == FoldLeft(LAMBDA a, c : 10 * a + c, 0, head)
            IN  IF r.err \/ Len(r.rest) < LenDigits \/ (\E j \in DOMAIN head : head[j] > 9)
                   \/ LenDigits + len > Len(r.rest)
                THEN [r EXCEPT !.err = TRUE]
                ELSE [rest |-> SubSeq(r.rest, LenDigits + len + 1, Len(r.rest)), err |-> FALSE,
                      fields |-> Append(r.fields, SubSeq(r.rest, LenDigits + 1, LenDigits + len))]
    IN  FoldLeft(step, [rest |-> body, err |-> FALSE, fields |-> <<>>], [i \in 1 .. n |-> i])

(* The commands and their fields: reference, selectors, clear or hex data. *)
Commands == {"BA", "CC", "M6", "M8"}
fieldCount == [BA |-> 4, CC |-> 6, M6 |-> 4, M8 |-> 5]
incrementCmd == [BA |-> "BB", CC |-> "CD", M6 |-> "M7", M8 |-> "M9"]

argsOf(cmd, ref, p) ==
    CASE cmd = "BA" -> <<ref, <<0, 1>>, p, <<4>> >>
      [] cmd = "CC" -> <<ref, ref, <<0, 1>>, <<0, 5>>, <<4>>, p>>
      [] cmd = "M6" -> <<ref, <<3>>, <<2>>, p>>
      [] cmd = "M8" -> <<ref, <<3>>, <<2>>, p, <<9>> >>

-----------------------------------------------------------------------------
VARIABLES conn,     \* the client's connection: "open", or "nil" once closed
          lock,     \* the holder of the client's mutex, or "free"
          host,     \* host[c]: what caller c is at
          toDevice, \* frames on their way to the device
          toHost,   \* frames on their way back, the client's buffer included
          issued,   \* commands issued
          missed    \* whether a command has timed out
hsmVars == <<conn, lock, host, toDevice, toHost, issued, missed>>

(* A caller between calls: the last one failed ("none"), or took an answer that  *)
(* was computed from its own arguments ("own") or not ("other").                *)
Idle(got) == [pc |-> "idle", cmd |-> "BA", args |-> <<>>, got |-> got]

HsmInit ==
    /\ conn = "open" /\ lock = "free"
    /\ host = [c \in HsmCallers |-> Idle("none")]
    /\ toDevice = <<>> /\ toHost = <<>> /\ issued = 0 /\ missed = FALSE

(* EncryptPINBlock, TranslatePIN, GenerateMAC or VerifyMAC builds its body. The  *)
(* callers are alike: the next idle one issues it.                              *)
Issue(c) ==
    /\ host[c].pc = "idle" /\ c = CHOOSE x \in HsmCallers : host[x].pc = "idle"
    /\ issued < MaxCommands /\ issued' = issued + 1
    /\ \E cmd \in Commands, ref \in KeyRef, p \in Payloads :
           host' = [host EXCEPT ![c] = [pc |-> "do", cmd |-> cmd,
                                        args |-> argsOf(cmd, ref, p), got |-> "none"]]
    /\ UNCHANGED <<conn, lock, toDevice, toHost, missed>>

Ends(c, answer) ==
    host' = [host EXCEPT ![c] = Idle(
        IF answer = NoAnswer THEN "none"
        ELSE IF answer.of = host[c].args /\ answer.err # codeFormatError THEN "own" ELSE "other")]

(* Mutated form: commands are not serialised. *)
doWriteUnlocked(c) ==
    /\ host[c].pc = "do" /\ conn = "open"
    /\ toDevice' = Append(toDevice, [cmd |-> host[c].cmd, body |-> macBody(host[c].args)])
    /\ host' = [host EXCEPT ![c].pc = "read"]
    /\ UNCHANGED <<conn, lock, toHost, issued, missed>>

(* do, up to the write: errClosed, a failed write, or the command is out. *)
doWrite(c) ==
    /\ host[c].pc = "do" /\ lock = "free"
    /\ \/ Ends(c, NoAnswer) /\ UNCHANGED <<conn, lock, toDevice, toHost, issued, missed>>
       \/ /\ conn = "open"
          /\ lock' = c
          /\ toDevice' = Append(toDevice, [cmd |-> host[c].cmd, body |-> macBody(host[c].args)])
          /\ host' = [host EXCEPT ![c].pc = "read"]
          /\ UNCHANGED <<conn, toHost, issued, missed>>

(* do, the read: the next frame, refused when its code is another command's. *)
doRead(c) ==
    /\ host[c].pc = "read" /\ toHost # <<>>
    /\ toHost' = Tail(toHost) /\ lock' = "free"
    /\ Ends(c, IF Head(toHost).code = incrementCmd[host[c].cmd] THEN Head(toHost) ELSE NoAnswer)
    /\ UNCHANGED <<conn, toDevice, issued, missed>>

(* do, the deadline passes with no frame there: the connection stays as it is. *)
doTimeout(c) ==
    /\ host[c].pc = "read" /\ toHost = <<>>
    /\ lock' = "free" /\ missed' = TRUE /\ Ends(c, NoAnswer)
    /\ UNCHANGED <<conn, toDevice, toHost, issued>>

hsmClose ==
    /\ conn = "open" /\ lock = "free" /\ conn' = "nil"
    /\ UNCHANGED <<lock, host, toDevice, toHost, issued, missed>>

(* The Simulator: handle reads a frame, dispatch and the operation answer it.  *)
(* The answer is told by the arguments it was computed from.                   *)
dispatch(f) ==
    LET r == readFields(f.body, fieldCount[f.cmd])
        reply(err) == [code |-> incrementCmd[f.cmd], err |-> err, of |-> r.fields]
    IN  CASE r.err -> {reply(codeFormatError)}
          [] ~r.err /\ r.fields[1] # <<1>> -> {reply(codeKeyNotFound)}
          [] ~r.err /\ r.fields[1] = <<1>> ->
               {reply(codeOK)} \cup (IF f.cmd = "M8" THEN {reply(codeVerifyFail)} ELSE {})

Serve ==
    /\ toDevice # <<>> /\ toDevice' = Tail(toDevice)
    /\ \E a \in dispatch(Head(toDevice)) : toHost' = Append(toHost, a)
    /\ UNCHANGED <<conn, lock, host, issued, missed>>

HsmNext ==
    \/ \E c \in HsmCallers : Issue(c) \/ doWrite(c) \/ doRead(c) \/ doTimeout(c)
    \/ Serve \/ hsmClose

-----------------------------------------------------------------------------
(* As long as no command has timed out, concurrent callers get the answers to  *)
(* their own commands ("serialised by a mutex (one command in flight at a      *)
(* time)", client.go), and the device reads the fields the client wrote.       *)
OwnUntilTimeout == missed \/ \A c \in HsmCallers : host[c].got # "other"
=============================================================================
