------------------------------- MODULE Message -------------------------------
(* The message of iso8583/message.go and its codec (iso8583/codec.go): a       *)
(* message unmarshalled from a wire keeps the wire, decodes a field when it is *)
(* first read, and is marshalled back verbatim where it was not changed. Clone *)
(* shares the wire and copies composite children. A body on the wire has a     *)
(* value and a form: an encoding that decodes to the value but is not the one  *)
(* EncodeBody writes (an odd BCD pad, a long BER length) is "odd", one that    *)
(* does not decode is "bad".                                                   *)
EXTENDS Naturals, FiniteSets

CONSTANTS
  Msgs,      \* messages that are made
  Kids,      \* child messages of the composite field; one is used again once free
  NoKid,
  Vals,      \* values of a scalar field and of a tag: numbers from 1 on
  Wires,     \* wires that are unmarshalled
  MaxOps     \* bound on the operations of a behaviour

\* Data elements: a scalar one and one with tag-addressed children (one tag).
DEs == {"scalar", "composite"}
Bodies == [val : Vals \cup {0}, form : {"absent", "canon", "odd", "bad"}]
Absent == [val |-> 0, form |-> "absent"]

ASSUME MessageAssumption ==
  /\ NoKid \notin Kids \cup Msgs /\ 0 \notin Vals /\ IsFiniteSet(Msgs)
  /\ Wires \subseteq [DEs -> {b \in Bodies : b.form = "absent" => b = Absent}]
  /\ \A wire \in Wires : \E de \in DEs : wire[de] # Absent

NoWire == [de \in DEs |-> Absent]
canon(v) == [val |-> v, form |-> "canon"]

VARIABLES
  msg,      \* a message: made, src, owned, sealed, bm and slots
  kid,      \* the value of the tag in a child message, 0 when there is none
  actor,    \* the message that the last operation was called on
  touched,  \* the fields of a message that were set or unset since it was made
  behind,   \* messages with a child that was written without them: v.Composite().SetP
  shared,   \* children that two messages have, since one was Set with the other's Value
  fooled,   \* clones of a changed message that have not been changed since
  ops       \* operations so far

messageVars == <<msg, kid, actor, touched, behind, shared, fooled, ops>>

Empty == [present |-> FALSE, decoded |-> FALSE, dirty |-> FALSE, fromSrc |-> FALSE, val |-> 0, kid |-> NoKid]
Unmade == [made |-> FALSE, src |-> NoWire, owned |-> FALSE, sealed |-> FALSE,
           bm |-> {}, slots |-> [de \in DEs |-> Empty]]

MessageInit ==
  /\ msg = [m \in Msgs |-> Unmade]
  /\ kid = [k \in Kids |-> 0]
  /\ actor \in Msgs /\ actor = CHOOSE m \in Msgs : TRUE
  /\ touched = [m \in Msgs |-> {}]
  /\ behind = {} /\ shared = {} /\ fooled = {} /\ ops = 0

\* A child that no slot refers to.
FreeKids == {k \in Kids : \A m \in Msgs : msg[m].slots["composite"].kid # k}
FreeKid == CHOOSE k \in FreeKids : TRUE

\* An operation on m, which leaves it as r and its children as ks, and shares the
\* children in new.
OpShares(m, r, ks, new) ==
  /\ ops < MaxOps /\ ops' = ops + 1
  /\ actor' = m
  /\ msg' = [msg EXCEPT ![m] = r]
  /\ kid' = ks
  /\ shared' = {k \in shared \cup new :
                  Cardinality({n \in Msgs : msg'[n].slots["composite"].kid = k}) > 1}

Op(m, r, ks) == OpShares(m, r, ks, {})

\* The next message that is made; they are alike.
Fresh == CHOOSE m \in Msgs : ~msg[m].made
SomeFresh == \E m \in Msgs : ~msg[m].made

-----------------------------------------------------------------------------
(* Reading. *)

\* decodeSlot's outcome: the slot afterwards, and whether it has a value.
Decodes(r, de) == r.slots[de].decoded \/ ~r.slots[de].fromSrc \/ r.src[de].form # "bad"

Decoded(r, de) ==
  LET s == r.slots[de]
  IN  IF s.decoded \/ ~Decodes(r, de) THEN s
      ELSE [s EXCEPT !.decoded = TRUE,
                     !.val = IF s.fromSrc /\ de = "scalar" THEN r.src[de].val ELSE @,
                     !.kid = IF s.fromSrc /\ de = "composite" THEN FreeKid ELSE @]

NewKid(r, de) == de = "composite" /\ ~r.slots[de].decoded /\ r.slots[de].fromSrc

\* The children once de is decoded.
KidsAfter(r, de) ==
  IF NewKid(r, de) /\ Decodes(r, de) THEN [kid EXCEPT ![FreeKid] = r.src[de].val] ELSE kid

\* What a reader gets of a field: its value, "none" or "bad".
View(ms, ks, m, de) ==
  LET s == ms[m].slots[de]
  IN  CASE ~s.present -> <<"none">>
        [] s.present /\ ~Decodes(ms[m], de) -> <<"bad">>
        [] OTHER -> <<"is", IF s.fromSrc /\ ~s.decoded THEN ms[m].src[de].val
                            ELSE IF de = "composite" THEN ks[s.kid] ELSE s.val>>

\* Get, and whatever reads: Fields, Validate, GetP.
Get(m, de) ==
  LET r == msg[m]
  IN  /\ r.made /\ r.slots[de].present
      /\ ~r.slots[de].decoded
      /\ NewKid(r, de) => FreeKids # {}
      /\ Op(m, [r EXCEPT !.slots[de] = Decoded(r, de)], KidsAfter(r, de))
      /\ UNCHANGED <<touched, behind, fooled>>
-----------------------------------------------------------------------------
(* Making. *)

New ==
  /\ SomeFresh
  /\ Op(Fresh, [Unmade EXCEPT !.made = TRUE, !.owned = TRUE], kid)
  /\ UNCHANGED <<touched, behind, fooled>>

\* Unmarshal: spans only, nothing is decoded; sealed with the Immutable option.
Unmarshal(wire, immutable) ==
  /\ SomeFresh
  /\ LET has == {de \in DEs : wire[de] # Absent}
     IN  Op(Fresh, [made |-> TRUE, src |-> wire, owned |-> FALSE, sealed |-> immutable, bm |-> has,
                    slots |-> [de \in DEs |-> IF de \in has
                       THEN [Empty EXCEPT !.present = TRUE, !.fromSrc = TRUE] ELSE Empty]], kid)
  /\ UNCHANGED <<touched, behind, fooled>>

\* Mutant: the clone refers to the original's children.
CloneShallow(m) ==
  /\ msg[m].made /\ SomeFresh
  /\ Op(Fresh, [msg[m] EXCEPT !.owned = FALSE, !.sealed = FALSE], kid)
  /\ touched' = [touched EXCEPT ![Fresh] = touched[m]]
  /\ behind' = IF m \in behind THEN behind \cup {Fresh} ELSE behind
  /\ fooled' = IF msg[m].owned \/ m \in fooled THEN fooled \cup {Fresh} ELSE fooled

\* Clone: owned is not copied, so that the fast path of Marshal takes the clone of
\* a changed message for an unmodified one.
Clone(m) ==
  LET k == msg[m].slots["composite"].kid
  IN  /\ msg[m].made /\ SomeFresh
      /\ k # NoKid => FreeKids # {}
      /\ Op(Fresh, [msg[m] EXCEPT !.owned = FALSE, !.sealed = FALSE,
                                  !.slots["composite"].kid = IF k = NoKid THEN @ ELSE FreeKid],
            IF k = NoKid THEN kid ELSE [kid EXCEPT ![FreeKid] = kid[k]])
      /\ touched' = [touched EXCEPT ![Fresh] = touched[m]]
      /\ behind' = IF m \in behind THEN behind \cup {Fresh} ELSE behind
      /\ fooled' = IF msg[m].src # NoWire /\ (msg[m].owned \/ m \in fooled)
                   THEN fooled \cup {Fresh} ELSE fooled

Seal(m) ==
  /\ msg[m].made /\ ~msg[m].sealed
  /\ Op(m, [msg[m] EXCEPT !.sealed = TRUE], kid)
  /\ UNCHANGED <<touched, behind, fooled>>
-----------------------------------------------------------------------------
(* Writing; a sealed message refuses. *)

\* The other messages whose child is k and whose field is still clean.
Unaware(m, k) == {n \in Msgs \ {m} : msg[n].slots["composite"].kid = k /\ msg[n].slots["composite"].fromSrc}

Written(m, de, k) ==
  /\ touched' = [touched EXCEPT ![m] = @ \cup {de}]
  /\ fooled' = fooled \ {m}
  /\ behind' = (IF de = "composite" THEN behind \ {m} ELSE behind)
                 \cup (IF k = NoKid THEN {} ELSE Unaware(m, k))

SetSlot(r, de, v, k) ==
  [r EXCEPT !.slots[de] = [present |-> TRUE, decoded |-> TRUE, dirty |-> TRUE, fromSrc |-> FALSE,
                           val |-> v, kid |-> k],
            !.owned = TRUE, !.bm = @ \cup {de}]

\* Mutant: a field that was decoded keeps its span.
SetKeepsSpan(m, v) ==
  /\ msg[m].made /\ ~msg[m].sealed
  /\ Op(m, [msg[m] EXCEPT !.slots["scalar"].val = v, !.slots["scalar"].present = TRUE,
                          !.slots["scalar"].decoded = TRUE,
                          !.owned = TRUE, !.bm = @ \cup {"scalar"}], kid)
  /\ Written(m, "scalar", NoKid)

\* Set of a scalar.
Set(m, v) ==
  /\ msg[m].made /\ ~msg[m].sealed
  /\ Op(m, SetSlot(msg[m], "scalar", v, NoKid), kid)
  /\ Written(m, "scalar", NoKid)

\* SetP of a tag of the composite field, through ensureChild: the child that is
\* there or in the wire, or a new one, also where the wire does not decode.
SetP(m, v) ==
  LET r == msg[m]
      s == r.slots["composite"]
      k == IF s.kid # NoKid THEN s.kid ELSE FreeKid
  IN  /\ r.made /\ ~r.sealed
      /\ s.kid = NoKid => FreeKids # {}
      /\ Op(m, SetSlot(r, "composite", 0, k), [kid EXCEPT ![k] = v])
      /\ Written(m, "composite", k)

\* Set with the composite Value that was got from another message: both have the
\* child from then on.
SetValue(m, from) ==
  LET s == msg[from].slots["composite"]
  IN  /\ msg[m].made /\ ~msg[m].sealed /\ m # from
      /\ s.present /\ s.kid # NoKid
      /\ OpShares(m, SetSlot(msg[m], "composite", 0, s.kid), kid, {s.kid})
      /\ Written(m, "composite", NoKid)

\* SetP on the child itself, got with Composite: its parents do not notice.
ChildSetP(m, v) ==
  LET k == msg[m].slots["composite"].kid
  IN  /\ k # NoKid
      /\ Op(m, msg[m], [kid EXCEPT ![k] = v])
      /\ behind' = behind \cup Unaware(NoKid, k)
      /\ UNCHANGED <<touched, fooled>>

Unset(m, de) ==
  /\ msg[m].made /\ ~msg[m].sealed /\ msg[m].slots[de].present
  /\ Op(m, [msg[m] EXCEPT !.slots[de] = Empty, !.owned = TRUE, !.bm = @ \ {de}], kid)
  /\ Written(m, de, NoKid)

MessageNext ==
  \/ New
  \/ \E wire \in Wires, immutable \in BOOLEAN : Unmarshal(wire, immutable)
  \/ \E m \in Msgs : \/ Clone(m) \/ Seal(m)
                     \/ \E v \in Vals : Set(m, v) \/ SetP(m, v) \/ ChildSetP(m, v)
                     \/ \E n \in Msgs : SetValue(m, n)
                     \/ \E de \in DEs : Get(m, de) \/ Unset(m, de)

MessageSpec == MessageInit /\ [][MessageNext]_messageVars
-----------------------------------------------------------------------------
(* Marshal *)

\* appendField: verbatim, or encoded anew.
appendField(m, de) ==
  LET s == msg[m].slots[de]
  IN  IF s.fromSrc /\ ~s.dirty THEN msg[m].src[de]
      ELSE canon(IF de = "composite" THEN kid[s.kid] ELSE s.val)

\* Marshal, with its fast path; the bitmap is that of the fields it writes.
Marshal(m) ==
  IF msg[m].src # NoWire /\ ~msg[m].owned THEN msg[m].src
  ELSE [de \in DEs |-> IF msg[m].slots[de].present THEN appendField(m, de) ELSE Absent]

\* What an Unmarshal of the wire reads.
Reads(body) == CASE body.form = "absent" -> <<"none">>
                 [] body.form = "bad" -> <<"bad">>
                 [] OTHER -> <<"is", body.val>>
-----------------------------------------------------------------------------
(* Properties. *)

Made == {m \in Msgs : msg[m].made}

\* Marshal writes what a reader of the message sees, field by field, whatever was
\* decoded, set, unset or cloned before: except for a message with a child that was
\* written without it, and for the clone of a changed message. A message that was not
\* set since Unmarshal is marshalled to its wire, and a field that was not set to its
\* bytes, in whatever form they are and though it was read. Bitmap() names the fields
\* that are present.
MarshalTells == \A m \in Made : \A de \in DEs :
  /\ m \notin behind \cup fooled => Reads(Marshal(m)[de]) = View(msg, kid, m, de)
  /\ msg[m].src # NoWire /\ de \notin touched[m] => Marshal(m)[de] = msg[m].src[de]
  /\ de \in msg[m].bm <=> msg[m].slots[de].present

\* An operation changes what readers see of its own message alone: no write leaks
\* into a clone or its original. (A child can be shared by passing its Value to Set.)
\* Of a sealed message readers see no change at all, though its fields are decoded
\* when they are read. (A write to a child message itself is seen: Seal does not seal
\* the children. The sealed message is not changed by it.)
NoLeakage == [][\A m \in Msgs, de \in DEs :
  msg[m].made /\ View(msg', kid', m, de) # View(msg, kid, m, de) =>
    /\ \/ m = actor'
       \/ /\ de = "composite" /\ msg[m].slots[de].kid \in shared
          /\ msg[m].slots[de].kid = msg'[actor'].slots[de].kid
    /\ msg[m].sealed => de = "composite" /\ msg'[m] = msg[m]]_messageVars

\* What the comment of Marshal and that of Clone say: only a message unmodified since
\* Unmarshal is returned verbatim, and a clone is a copy; so what is marshalled of a
\* message that was not written through a child is what it holds.
CloneMarshals == \A m \in Made \ behind : \A de \in DEs :
  Reads(Marshal(m)[de]) = View(msg, kid, m, de)
=============================================================================
