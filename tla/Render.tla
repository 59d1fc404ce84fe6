------------------------------- MODULE Render -------------------------------
(***************************************************************************)
(* The projections of a message: render/jsonio, render/xmlio,               *)
(* render/protobuf, and the dump and log forms of iso8583/describe.go.      *)
(*                                                                          *)
(* A message is a function from data elements to values; a value has a kind *)
(* and holds characters (text, digits), bytes, an exact Decimal, the tags   *)
(* of a BER-TLV composite in order, or positional subfields.  Tags are      *)
(* numbers.  Characters are their codes; BadChar stands for what is no      *)
(* character of the target format.                                          *)
(***************************************************************************)
EXTENDS Codecs, FiniteSets, TLC
LOCAL INSTANCE SequencesExt

CONSTANT MaxShown     \* bound: fields of the message

Star == 42
Minus == 45
Point == 46
BadChar == 0
Replaced == 63

V(k, x) == [kind |-> k, v |-> x]
scalarKinds == {"str", "num", "bytes", "amount"}

(* The schema: DE 4 is an amount of scale 2, DE 55 is BER-TLV with the tags   *)
(* 9F26 and 9F36, DE 127 has positional subfields; other tags are unknown.    *)
kindOfDE == (2 :> "num") @@ (4 :> "amount") @@ (35 :> "str") @@ (37 :> "str") @@ (52 :> "bytes")
              @@ (55 :> "tlv") @@ (127 :> "pos")
scaleOfDE4 == 2
kindOfTag(t) == CASE t = 40742 -> "bytes" [] t = 40758 -> "num" [] OTHER -> "bytes"
kindOfSub == (2 :> "str") @@ (3 :> "num")

pan(n) == [i \in 1 .. n |-> 48 + (i % 10)]
samples ==
    (2 :> {V("num", pan(4)), V("num", pan(9)), V("num", pan(12))})
    @@ (4 :> {V("amount", Dec(1099, 2)), V("amount", Dec(5, 0)), V("amount", Dec(-5, 2))})
    @@ (35 :> {V("str", pan(6))})
    @@ (37 :> {V("str", <<65, 32>>), V("str", <<BadChar>>)})
    @@ (52 :> {V("bytes", <<10, 255>>)})
    @@ (55 :> {V("tlv", <<[tag |-> 40758, val |-> V("num", <<48, 55>>)], [tag |-> 90, val |-> V("bytes", pan(8))]>>)})
    @@ (127 :> {V("pos", (2 :> V("str", <<66>>)) @@ (3 :> V("num", <<48, 49>>)))})

-----------------------------------------------------------------------------
(* The renderers' parseDecimal; Codecs has Decimal.String.                  *)

(* Mutated form: the sign is that of the parsed integer part, so -0.05 loses it. *)
parseDecimalUnsigned(s) ==
    LET body == SelectSeq(s, LAMBDA c : c # Minus)
        dots == {i \in DOMAIN body : body[i] = Point}
        at == IF dots = {} THEN Len(body) + 1 ELSE CHOOSE i \in dots : TRUE
        u == FoldLeft(LAMBDA a, c : 10 * a + c - 48, 0, SelectSeq(body, LAMBDA c : c # Point))
    IN  Dec(IF s[1] = Minus /\ body[1] # 48 THEN -u ELSE u, IF dots = {} THEN 0 ELSE Len(body) - at)

parseDecimal(s) ==
    LET body == SelectSeq(s, LAMBDA c : c # Minus)
        dots == {i \in DOMAIN body : body[i] = Point}
        at == IF dots = {} THEN Len(body) + 1 ELSE CHOOSE i \in dots : TRUE
        u == FoldLeft(LAMBDA a, c : 10 * a + c - 48, 0, SelectSeq(body, LAMBDA c : c # Point))
    IN  Dec(IF s[1] = Minus THEN -u ELSE u, IF dots = {} THEN 0 ELSE Len(body) - at)

text(s) == [i \in DOMAIN s |-> IF s[i] = BadChar THEN Replaced ELSE s[i]]

-----------------------------------------------------------------------------
(* JSON: scalars by kind; a composite renders the tags of TagSeq, of which a  *)
(* positional composite has none, and an empty object is omitted.             *)

jsonScalar(x) ==
    CASE x.kind = "amount" -> [unscaled |-> x.v.unscaled, scale |-> x.v.scale]
      [] x.kind = "bytes" -> upperHex(x.v)
      [] OTHER -> text(x.v)

tagSeq(x) == IF x.kind = "tlv" THEN x.v ELSE <<>>

jsonMarshal(m) ==
    [de \in DOMAIN m |->
        IF m[de].kind \in scalarKinds THEN [value |-> jsonScalar(m[de])]
        ELSE [tlv |-> [t \in {tagSeq(m[de])[i].tag : i \in DOMAIN tagSeq(m[de])} |->
                          jsonScalar((CHOOSE e \in Range(tagSeq(m[de])) : e.tag = t).val)]]]

argFromJSON(raw, kind) ==
    CASE kind = "amount" -> V("amount", Dec(raw.unscaled, raw.scale))
      [] kind = "bytes" -> V("bytes", hexDecode(raw).val)
      [] OTHER -> V(kind, raw)

(* Tags are set in ascending order; a field with neither part is skipped. *)
jsonUnmarshal(doc) ==
    LET given == {de \in DOMAIN doc : "value" \in DOMAIN doc[de] \/ DOMAIN doc[de].tlv # {}}
        sorted(ts) == SetToSortSeq(ts, <)
    IN  [de \in given |->
           IF "value" \in DOMAIN doc[de] THEN argFromJSON(doc[de].value, kindOfDE[de])
           ELSE LET ts == sorted(DOMAIN doc[de].tlv)
                IN  V("tlv", [i \in DOMAIN ts |->
                        [tag |-> ts[i], val |-> argFromJSON(doc[de].tlv[ts[i]], kindOfTag(ts[i]))]])]

-----------------------------------------------------------------------------
(* XML: nested elements for both kinds of composite, a binary hint on bytes.  *)

maskPAN(s) ==
    LET n == Len(s) IN
    [i \in DOMAIN s |-> IF n <= 4 \/ i > n - 4 \/ (n > 10 /\ i <= 6) THEN s[i] ELSE Star]

writeScalar(id, x, masked) ==
    CASE x.kind = "bytes" -> [id |-> id, value |-> upperHex(x.v), binary |-> TRUE]
      [] x.kind = "amount" -> [id |-> id, value |-> decimalString(x.v), binary |-> FALSE]
      [] OTHER -> [id |-> id, value |-> IF masked THEN maskPAN(text(x.v)) ELSE text(x.v), binary |-> FALSE]

ascending(s) == SetToSortSeq(s, <)

(* Children of a positional group go through writeField like a top-level      *)
(* field, so a subfield 2 is masked too.                                      *)
writeField(de, x, mask) ==
    CASE x.kind = "tlv" -> [id |-> de, subs |-> [i \in DOMAIN x.v |-> writeScalar(x.v[i].tag, x.v[i].val, FALSE)]]
      [] x.kind = "pos" -> LET ids == ascending(DOMAIN x.v)
                           IN  [id |-> de, subs |-> [i \in DOMAIN ids |->
                                   writeScalar(ids[i], x.v[ids[i]], mask /\ ids[i] = 2)]]
      [] OTHER -> writeScalar(de, x, mask /\ de = 2)

xmlMarshal(m, mask) ==
    LET des == ascending(DOMAIN m) IN [i \in DOMAIN des |-> writeField(des[i], m[des[i]], mask)]

argFor(f, kind) ==
    IF f.binary THEN V("bytes", hexDecode(f.value).val)
    ELSE IF kind = "amount" THEN V("amount", parseDecimal(f.value)) ELSE V(kind, f.value)

xmlUnmarshal(doc) ==
    [de \in {doc[i].id : i \in DOMAIN doc} |->
        LET f == CHOOSE x \in Range(doc) : x.id = de
        IN  CASE "value" \in DOMAIN f -> argFor(f, kindOfDE[de])
              [] "subs" \in DOMAIN f /\ kindOfDE[de] = "tlv" ->
                   V("tlv", [i \in DOMAIN f.subs |->
                       [tag |-> f.subs[i].id, val |-> argFor(f.subs[i], kindOfTag(f.subs[i].id))]])
              [] "subs" \in DOMAIN f /\ kindOfDE[de] = "pos" ->
                   V("pos", [id \in {f.subs[i].id : i \in DOMAIN f.subs} |->
                       argFor(CHOOSE x \in Range(f.subs) : x.id = id, kindOfSub[id])])]

-----------------------------------------------------------------------------
(* Protobuf: length-delimited fields keyed by DE.  An amount carries its      *)
(* unscaled digits only; a composite its encoded body, told by its value.     *)

Varint[n \in Nat] == IF n < 128 THEN <<n>> ELSE <<128 + (n % 128)>> \o Varint[n \div 128]

encodeValue(x) ==
    CASE x.kind = "amount" ->
           (IF x.v.unscaled < 0 THEN <<Minus>> ELSE <<>>)
             \o itoa(IF x.v.unscaled < 0 THEN -x.v.unscaled ELSE x.v.unscaled)
      [] x.kind \in {"tlv", "pos"} -> <<x>>
      [] OTHER -> x.v

appendProtoField(de, payload) == Varint[8 * de + 2] \o Varint[Len(payload)] \o payload

protoMarshal(m) ==
    FoldLeft(LAMBDA a, de : a \o appendProtoField(de, encodeValue(m[de])), <<>>, ascending(DOMAIN m))

(* binary.Uvarint: the number at the front of s, and how long it is. *)
Uvarint(s) == IF s[1] < 128 THEN [n |-> s[1], len |-> 1] ELSE [n |-> s[1] - 128 + (128 * s[2]), len |-> 2]

setValue(de, payload) ==
    CASE kindOfDE[de] = "amount" -> V("amount", Dec(parseDecimal(payload).unscaled, scaleOfDE4))
      [] kindOfDE[de] \in {"tlv", "pos"} -> payload[1]
      [] OTHER -> V(kindOfDE[de], payload)

protoUnmarshal(data) ==
    LET step(a, i) ==
            IF a.rest = <<>> THEN a
            ELSE LET tag == Uvarint(a.rest)
                     ln == Uvarint(SubSeq(a.rest, tag.len + 1, Len(a.rest)))
                     from == tag.len + ln.len
                     de == tag.n \div 8
                 IN  [rest |-> SubSeq(a.rest, from + ln.n + 1, Len(a.rest)),
                      m |-> (de :> setValue(de, SubSeq(a.rest, from + 1, from + ln.n))) @@ a.m]
    IN  FoldLeft(step, [rest |-> data, m |-> <<>>], [i \in 1 .. MaxShown |-> i]).m

-----------------------------------------------------------------------------
(* Describe and LogValue: one row per field, children after their parent,     *)
(* sensitive elements masked, the raw column of a masked field redacted.      *)

sensitiveDE == (2 :> "pan") @@ (35 :> "full") @@ (36 :> "full") @@ (45 :> "full") @@ (52 :> "full")
sensitiveTag == (90 :> "pan") @@ (87 :> "full") @@ (153 :> "full")
maskOf(table, id) == IF id \in DOMAIN table THEN table[id] ELSE "none"

display(x, mk) ==
    CASE mk = "pan" -> maskPAN(x.v)
      [] mk = "full" -> <<Len(x.v)>>
      [] mk = "none" /\ x.kind = "amount" -> decimalString(x.v)
      [] mk = "none" /\ x.kind = "bytes" -> upperHex(x.v)
      [] OTHER -> x.v

row(key, x, mk) == [key |-> key, value |-> display(x, mk), raw |-> IF mk = "none" THEN x.v ELSE <<Star>>]

collect(m) ==
    LET rows(de) ==
            CASE m[de].kind = "tlv" -> <<[key |-> <<de>>, value |-> Len(m[de].v)]>>
                    \o [i \in DOMAIN m[de].v |->
                          row(<<de, m[de].v[i].tag>>, m[de].v[i].val, maskOf(sensitiveTag, m[de].v[i].tag))]
              [] m[de].kind = "pos" -> LET ids == ascending(DOMAIN m[de].v)
                    IN  <<[key |-> <<de>>, value |-> Len(ids)]>>
                          \o [i \in DOMAIN ids |-> row(<<de, ids[i]>>, m[de].v[ids[i]], "none")]
              [] OTHER -> <<row(<<de>>, m[de], maskOf(sensitiveDE, de))>>
    IN  FoldLeft(LAMBDA a, de : a \o rows(de), <<>>, ascending(DOMAIN m))

-----------------------------------------------------------------------------
VARIABLE shown       \* the message
RenderInit == shown = <<>>
PutField ==
    \E de \in DOMAIN samples \ DOMAIN shown : \E x \in samples[de] :
        Cardinality(DOMAIN shown) < MaxShown /\ shown' = (de :> x) @@ shown

SameAmount(a, b) == a.unscaled * 10^b.scale = b.unscaled * 10^a.scale
SameMessage(m, n) ==
    /\ DOMAIN m = DOMAIN n
    /\ \A de \in DOMAIN m : IF m[de].kind = "amount" THEN n[de].kind = "amount" /\ SameAmount(m[de].v, n[de].v)
                            ELSE m[de] = n[de]
InTagOrder(m) ==
    [de \in DOMAIN m |-> IF m[de].kind # "tlv" THEN m[de]
                         ELSE V("tlv", SortSeq(m[de].v, LAMBDA a, b : a.tag < b.tag))]
BadText(m) == 37 \in DOMAIN m /\ m[37].v = <<BadChar>>

(* XML gives the message back, nested groups, tag order and amount scale       *)
(* included, unless a text holds what XML cannot carry (xml.EscapeText).       *)
XMLKeeps == BadText(shown) \/ SameMessage(xmlUnmarshal(xmlMarshal(shown, FALSE)), shown)

(* JSON gives the message back with its tags in ascending order; a positional  *)
(* group is the exception, it has no JSON form and is dropped.                 *)
JSONKeeps ==
    BadText(shown) \/
    SameMessage(jsonUnmarshal(jsonMarshal(shown)),
                InTagOrder([de \in DOMAIN shown \ {127} |-> shown[de]]))

(* Protobuf gives the message back when its amounts are at the schema's scale. *)
ProtobufKeeps ==
    (4 \in DOMAIN shown => shown[4].v.scale = scaleOfDE4) =>
        SameMessage(protoUnmarshal(protoMarshal(shown)), shown)

(* A value with its hidden characters replaced. *)
Hidden(x, mk) ==
    IF mk = "none" THEN x
    ELSE [x EXCEPT !.v = [i \in DOMAIN @ |-> IF mk = "full" \/ maskPAN(x.v)[i] = Star THEN 48 ELSE @[i]]]

(* A dump says nothing of the hidden characters: it is the same whatever they   *)
(* are, in the value column, the raw column and inside ICC data alike; so is    *)
(* the XML form with MaskPAN.                                                   *)
DumpHides ==
    LET scrubbed == [de \in DOMAIN shown |->
            IF shown[de].kind # "tlv" THEN Hidden(shown[de], maskOf(sensitiveDE, de))
            ELSE V("tlv", [i \in DOMAIN shown[de].v |->
                     [shown[de].v[i] EXCEPT !.val = Hidden(@, maskOf(sensitiveTag, shown[de].v[i].tag))]])]
        bare == [de \in DOMAIN shown |-> IF de = 2 THEN scrubbed[2] ELSE shown[de]]
    IN  collect(scrubbed) = collect(shown) /\ xmlMarshal(bare, TRUE) = xmlMarshal(shown, TRUE)

(* What is rendered can be read back, and shows only what it may.               *)
RenderingsTell == XMLKeeps /\ JSONKeeps /\ ProtobufKeeps /\ DumpHides
=============================================================================
