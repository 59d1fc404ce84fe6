-------------------------------- MODULE Wire ---------------------------------
(* A message on the wire: iso8583/codec.go's Marshal and Unmarshal over the    *)
(* bitmap codec, the BER-TLV and subfield composites and the profiles that     *)
(* package packager builds. A bitmap word has WordBits bits instead of 64, so  *)
(* DE 9 stands for DE 65, the place of the second continuation bit; no message *)
(* sets it.                                                                    *)
EXTENDS Codecs, FiniteSets, TLC
LOCAL INSTANCE SequencesExt
LOCAL INSTANCE FiniteSetsExt

CONSTANTS
  WordBits,  \* data elements of a bitmap word: 64 in the code
  MaxFields  \* fields that are set in a message

VARIABLES
  given,     \* the profile and the fields that are set
  wire,      \* what Marshal returned
  got        \* what Unmarshal read back

wireVars == <<given, wire, got>>

MaxDE == 3 * WordBits
contSecondary == 1
contTertiary == WordBits + 1

-----------------------------------------------------------------------------
(* fieldcodec/bitmap.go and iso8583/bitmap.go; a bitmap is its set of bits. *)
Word(bm, i) == {de \in bm : (de - 1) \div WordBits = i}

\* Mutated form: a word does not say that another follows.
levelWordsBare(bm, maxLevels) ==
  LET need3 == Word(bm, 2) # {} /\ maxLevels >= 3
      need2 == (Word(bm, 1) # {} \/ need3) /\ maxLevels >= 2
  IN SubSeq(<<Word(bm, 0), Word(bm, 1), Word(bm, 2)>>, 1, IF need3 THEN 3 ELSE IF need2 THEN 2 ELSE 1)

levelWords(bm, maxLevels) ==
  LET need3 == Word(bm, 2) # {} /\ maxLevels >= 3
      need2 == (Word(bm, 1) # {} \/ need3) /\ maxLevels >= 2
      w == <<Word(bm, 0) \cup IF need2 THEN {contSecondary} ELSE {},
             Word(bm, 1) \cup IF need3 THEN {contTertiary} ELSE {}, Word(bm, 2)>>
  IN SubSeq(w, 1, IF need3 THEN 3 ELSE IF need2 THEN 2 ELSE 1)

\* One word of WordBits = 8 bits: a byte, two hex characters, or two EBCDIC ones.
put(repr, w) ==
  LET b == <<MapThenSumSet(LAMBDA de : 2^(WordBits - 1 - ((de - 1) % WordBits)), w)>>
  IN CASE repr = "bitmap.bin" -> b
       [] repr = "bitmap.hex" -> upperHex(b)
       [] OTHER -> Encode(upperHex(b))
wireLen(repr) == IF repr = "bitmap.bin" THEN 1 ELSE 2
get(repr, b, level) ==
  LET r == CASE repr = "bitmap.bin" -> Ok(b)
             [] repr = "bitmap.hex" -> hexDecode(b)
             [] OTHER -> hexDecode(Decode(b))
  IN Then(r, LAMBDA w : Ok({level * WordBits + k : k \in {j \in 1..WordBits : (w[1] \div 2^(WordBits - j)) % 2 = 1}}))

WriteBitmap(repr, bm, maxLevels) == FlattenSeq([i \in DOMAIN levelWords(bm, maxLevels) |-> put(repr, levelWords(bm, maxLevels)[i])])

ReadBitmap(repr, src, off, maxLevels) ==
  LET wl == wireLen(repr)
      Level(acc, level) ==
        LET w == get(repr, Part(src, acc.off, wl), level)
            more == level * WordBits + 1 \in w.val /\ level + 1 < maxLevels
        IN IF ~acc.more THEN acc
           ELSE IF Len(src) - acc.off < wl \/ ~w.ok
           THEN [acc EXCEPT !.ok = FALSE, !.more = FALSE]
           ELSE [ok |-> TRUE, bm |-> acc.bm \cup w.val, off |-> acc.off + wl, more |-> more]
  IN FoldLeft(Level, [ok |-> TRUE, bm |-> {}, off |-> off, more |-> TRUE], <<0, 1, 2>>)

\* The data elements of a bitmap, ascending, without the continuation bits.
RangeDEs(bm) == SetToSortSeq(bm \ {contSecondary, contTertiary}, <)

-----------------------------------------------------------------------------
(* iso8583/codec.go. Bodies are encoded before and decoded after, so that a    *)
(* subfield composite is the same engine over its sub-schema.                  *)
defAt(schema, de) == IF de = 0 THEN schema.mti ELSE schema.defs[de]

encodeUnits(v, body, def) == IF def.codec \in {"tlv.ber", "subfield.iso"} THEN Len(body) ELSE Len(v.raw)

\* A field, given what its codec made of the value.
encodeField(def, v, encoded) ==
  Then(encoded, LAMBDA body :
    Then(WriteLen(def.len, encodeUnits(v, body, def)), LAMBDA prefix : Ok(prefix \o body)))

MarshalFields(schema, fields, encoded) ==
  LET present == DOMAIN fields \ {0}
      Field(de) == encodeField(defAt(schema, de), fields[de], encoded[de])
      head == IF 0 \in DOMAIN fields THEN Field(0) ELSE Ok(<<>>)
      Append1(acc, de) == Then(acc, LAMBDA dst : Then(Field(de), LAMBDA b : Ok(dst \o b)))
  IN FoldLeft(Append1,
              Then(head, LAMBDA dst : Ok(dst \o WriteBitmap(schema.bitmap, present, schema.levels))),
              SetToSortSeq(present, <))

fieldBodySpan(def, src, off) ==
  Then(ReadLen(def.len, def.max, src, off), LAMBDA units :
    LET bodyOff == off + prefixLen(def.len)
        bodyEnd == bodyOff + BodyBytes(def, units)
    IN IF bodyEnd > Len(src) THEN Fail
       ELSE Ok([body |-> Part(src, bodyOff, bodyEnd - bodyOff), units |-> units, next |-> bodyEnd]))

\* The spans of the fields, by DE, or Fail.
Spans(schema, src) ==
  LET head == fieldBodySpan(schema.mti, src, 0)
      bits == ReadBitmap(schema.bitmap, src, IF head.ok THEN head.val.next ELSE 0, schema.levels)
      Field1(acc, de) ==
        Then(acc, LAMBDA a :
          IF de \notin DOMAIN schema.defs THEN Fail
          ELSE Then(fieldBodySpan(schema.defs[de], src, a.off),
                    LAMBDA s : Ok([off |-> s.next, spans |-> [d \in DOMAIN a.spans \cup {de} |->
                                                              IF d = de THEN s ELSE a.spans[d]]])))
  IN IF ~head.ok \/ ~bits.ok THEN Fail
     ELSE FoldLeft(Field1,
                   Ok([off |-> bits.off,
                       spans |-> [d \in IF schema.mti.max = 0 THEN {} ELSE {0} |-> head.val]]), RangeDEs(bits.bm))

\* Unmarshal: where each field is. A Get decodes it.
UnmarshalFields(schema, src) == Then(Spans(schema, src), LAMBDA a : Ok(a.spans))

-----------------------------------------------------------------------------
(* fieldcodec/tlv: BER-TLV. A child is the sequence of its tags and values. *)
appendBERLen(n) ==
  CASE n < 128 -> <<n>>
    [] n \in 128..255 -> <<129, n>>
    [] n \in 256..65535 -> <<130>> \o bigEndian(n, 2)
    [] n \in 65536..16777215 -> <<131>> \o bigEndian(n, 3)
    [] OTHER -> <<132>> \o bigEndian(n, 4)

\* The length at offset i: its value and where it ends.
readBERLen(b, i) ==
  LET l0 == b[i + 1]
      nb == l0 % 128
  IN CASE i >= Len(b) -> Fail
       [] l0 < 128 -> Ok([n |-> l0, next |-> i + 1])
       [] nb = 0 \/ nb > 4 \/ i + 1 + nb > Len(b) -> Fail
       [] OTHER -> Ok([n |-> fromBig(Part(b, i + 1, nb)), next |-> i + 1 + nb])

readTLV(b, i) ==
  LET ends == {j \in (i + 2)..Len(b) : b[j] < 128}
      tagEnd == IF b[i + 1] % 32 = 31 THEN Min(ends) ELSE i + 1
  IN IF i >= Len(b) \/ (b[i + 1] % 32 = 31 /\ ends = {}) THEN Fail
     ELSE Then(readBERLen(b, tagEnd), LAMBDA l :
            IF l.next + l.n > Len(b) THEN Fail
            ELSE Ok([tag |-> Part(b, i, tagEnd - i), body |-> Part(b, l.next, l.n), next |-> l.next + l.n]))

MaxTags == 3   \* bound on the triplets of a body
lookupTag(def, tag) == {td \in def.tags : td.tag = tag}

\* A tag that is there already keeps its place.
PutTag(child, tag, v) ==
  IF \E k \in DOMAIN child : child[k].tag = tag
  THEN [k \in DOMAIN child |-> IF child[k].tag = tag THEN [tag |-> tag, v |-> v] ELSE child[k]]
  ELSE Append(child, [tag |-> tag, v |-> v])

tlvEncode(v, def) ==
  LET Tag1(acc, t) ==
        LET td == CHOOSE x \in lookupTag(def, t.tag) : TRUE
            body == IF lookupTag(def, t.tag) = {} THEN Ok(t.v.raw) ELSE EncodeScalar(t.v, td.def)
        IN Then(acc, LAMBDA dst : Then(body, LAMBDA b : Ok(dst \o t.tag \o appendBERLen(Len(b)) \o b)))
  IN FoldLeft(Tag1, Ok(<<>>), v.child)

tlvDecode(body, def) ==
  LET value(t) ==
        LET td == CHOOSE x \in lookupTag(def, t.tag) : TRUE
            units == IF td.def.max > 0 THEN td.def.max ELSE Len(t.body)
        IN IF lookupTag(def, t.tag) = {} THEN Ok(Scalar(t.body)) ELSE DecodeScalar(t.body, units, td.def)
      Step(acc, k) ==
        Then(acc, LAMBDA a :
          IF a.i >= Len(body) THEN acc
          ELSE Then(readTLV(body, a.i), LAMBDA t : Then(value(t), LAMBDA v :
                 Ok([i |-> t.next, child |-> PutTag(a.child, t.tag, v)]))))
  IN Then(FoldLeft(Step, Ok([i |-> 0, child |-> <<>>]), Rep(0, MaxTags)), LAMBDA a : Ok([child |-> a.child]))

(* fieldcodec/subfield: the engine again, over a schema without an MTI. *)
subEncode(v, def) ==
  MarshalFields(def.sub, v.fields, [de \in DOMAIN v.fields |-> EncodeScalar(v.fields[de], defAt(def.sub, de))])
subDecode(body, def) ==
  Then(UnmarshalFields(def.sub, body), LAMBDA f :
    Ok([fields |-> [de \in DOMAIN f |-> DecodeScalar(f[de].body, f[de].units, defAt(def.sub, de))]]))

EncodeBody(v, def) ==
  CASE def.codec = "tlv.ber" -> tlvEncode(v, def)
    [] def.codec = "subfield.iso" -> subEncode(v, def)
    [] OTHER -> EncodeScalar(v, def)
DecodeBody(body, units, def) ==
  CASE def.codec = "tlv.ber" -> tlvDecode(body, def)
    [] def.codec = "subfield.iso" -> subDecode(body, def)
    [] OTHER -> DecodeScalar(body, units, def)
-----------------------------------------------------------------------------
(* packager: a profile is a directory of data elements under a representation. *)
Def(codec, len, max, scale) == [codec |-> codec, len |-> len, max |-> max, scale |-> scale]
NoMTI == Def("char.ascii", NoLen, 0, 0)

repASCII ==
  [num |-> "num.ascii", alpha |-> "char.ascii", amount |-> "amount.ascii", binary |-> "b.raw",
   lenLL |-> VarLen("ascii", 2), lenLLL |-> VarLen("ascii", 3), fixed |-> NoLen,
   bitmap |-> "bitmap.hex", levels |-> 2]
repBCD ==
  [num |-> "num.bcd", alpha |-> "char.ascii", amount |-> "amount.bcd", binary |-> "b.raw",
   lenLL |-> VarLen("bcd", 2), lenLLL |-> VarLen("bcd", 3), fixed |-> NoLen,
   bitmap |-> "bitmap.bin", levels |-> 2]
repEBCDIC ==
  [num |-> "num.ebcdic", alpha |-> "char.ebcdic", amount |-> "amount.ascii", binary |-> "b.raw",
   lenLL |-> VarLen("ebcdic", 2), lenLLL |-> VarLen("ebcdic", 3), fixed |-> NoLen,
   bitmap |-> "bitmap.ebcdic", levels |-> 2]
\* A caller's own: binary prefixes, packed digits to the right, three bitmaps, hex.
repBinary ==
  [num |-> "num.rbcd", alpha |-> "char.ascii", amount |-> "amount.bin", binary |-> "b.hex",
   lenLL |-> VarLen("binary", 1), lenLLL |-> VarLen("binary", 2), fixed |-> NoLen,
   bitmap |-> "bitmap.bin", levels |-> 3]
\* A caller's own: fixed fields with the length codec lengthcodec.Fixed.
repFixed == [repASCII EXCEPT !.fixed = Fixed]
reps == {repASCII, repBCD, repEBCDIC, repBinary, repFixed}

valueFor(r, typ) ==
  CASE typ = "tNum" -> r.num [] typ = "tBinary" -> r.binary [] typ = "tAmount" -> r.amount [] OTHER -> r.alpha
lengthFor(r, l) ==
  CASE l = "lLL" -> r.lenLL [] l = "lLLL" -> r.lenLLL [] OTHER -> r.fixed

Tag(tag, codec, max) == [tag |-> tag, def |-> Def(codec, NoLen, max, 0)]
emvSchema == {Tag(<<159, 54>>, "num.bin", 2), Tag(<<149>>, "b.raw", 2)}

\* A small directory: a number, an amount, text, octets and the EMV composite; in the
\* second word a number and the reserved private composite, in the third a number.
dir ==
  (2 :> <<"tNum", "lLL", 5, 0>>) @@ (4 :> <<"tAmount", "lFixed", 2, 1>>)
  @@ (6 :> <<"tAlpha", "lFixed", 2, 0>>) @@ (7 :> <<"tBinary", "lLL", 3, 0>>)
  @@ (8 :> <<"tEMV", "lLLL", 9, 0>>)
  @@ (10 :> <<"tNum", "lFixed", 3, 0>>) @@ (16 :> <<"tSub", "lLLL", 9, 0>>)
  @@ (18 :> <<"tNum", "lFixed", 2, 0>>)

sub127(r) ==
  [bitmap |-> r.bitmap, levels |-> 1, mti |-> NoMTI,
   defs |-> (2 :> Def("char.ascii", r.lenLL, 3, 0)) @@ (3 :> Def("num.ascii", NoLen, 2, 0))]

build(r) ==
  LET def(f) ==
        CASE f[1] = "tEMV" -> [codec |-> "tlv.ber", len |-> lengthFor(r, f[2]), max |-> 0, tags |-> emvSchema]
          [] f[1] = "tSub" -> [codec |-> "subfield.iso", len |-> lengthFor(r, f[2]), max |-> 0, sub |-> sub127(r)]
          [] OTHER -> Def(valueFor(r, f[1]), lengthFor(r, f[2]), f[3], f[4])
  IN [bitmap |-> r.bitmap, levels |-> r.levels,
      mti |-> Def(r.num, NoLen, 4, 0),
      defs |-> [de \in DOMAIN dir |-> def(dir[de])]]

-----------------------------------------------------------------------------
(* The behaviours: a message with some fields is marshalled, and the bytes, or a *)
(* first part of them, are unmarshalled.                                         *)
Values(de) ==
  CASE de = 2 -> {Scalar(<<>>), Scalar(<<52>>), Scalar(<<52, 48, 49, 50, 57>>)}
    [] de = 4 -> {Amount(Dec(5, 0)), Amount(Dec(12, 1)), Amount(Dec(-1, 0)), Amount(Dec(120, 2))}
    [] de = 6 -> {Scalar(<<65>>), Scalar(<<66, 32>>), Scalar(<<67, 68, 69>>)}
    [] de = 7 -> {Scalar(<<0, 200>>), Scalar(<<49, 0, 255>>)}
    [] de = 8 -> {[child |-> <<[tag |-> <<159, 54>>, v |-> Scalar(<<55, 48, 48>>)], [tag |-> <<149>>, v |-> Scalar(<<1>>)]>>],
                  [child |-> <<[tag |-> <<90>>, v |-> Scalar(Rep(7, 128))]>>]}
    [] de = 10 -> {Scalar(<<57>>), Scalar(<<49, 50, 51>>)}
    [] de = 16 -> {[fields |-> (2 :> Scalar(<<65, 66>>)) @@ (3 :> Scalar(<<51>>))], [fields |-> (3 :> Scalar(<<52, 53>>))]}
    [] OTHER -> {Scalar(<<53>>)}

WireInit ==
  /\ \E r \in reps : given = [rep |-> r, fields |-> 0 :> Scalar(<<48, 50, 48, 48>>)]
  /\ wire = <<>> /\ got = <<>>

SetField(de, v) ==
  /\ wire = <<>> /\ de \notin DOMAIN given.fields
  /\ Cardinality(DOMAIN given.fields) <= MaxFields
  /\ de <= given.rep.levels * WordBits
  /\ given' = [given EXCEPT !.fields = @ @@ (de :> v)]
  /\ UNCHANGED <<wire, got>>

DefOf(de) == defAt(build(given.rep), de)

MarshalWire ==
  /\ wire = <<>>
  /\ wire' = MarshalFields(build(given.rep), given.fields,
                           [de \in DOMAIN given.fields |-> EncodeBody(given.fields[de], DefOf(de))])
  /\ UNCHANGED <<given, got>>

\* All that was written, or what had come when the peer went away, and a Get of
\* every field.
UnmarshalWire ==
  /\ wire # <<>> /\ wire.ok /\ got = <<>>
  /\ \E n \in 0..Len(wire.val) :
       got' = [n |-> n, read |-> Then(UnmarshalFields(build(given.rep), SubSeq(wire.val, 1, n)), LAMBDA f :
                                   Ok([de \in DOMAIN f |-> DecodeBody(f[de].body, f[de].units, DefOf(de))]))]
  /\ UNCHANGED <<given, wire>>

WireNext ==
  \/ \E de \in DOMAIN dir : \E v \in Values(de) : SetField(de, v)
  \/ MarshalWire \/ UnmarshalWire

-----------------------------------------------------------------------------
\* The value that was read is the value that was set: digits as a number, text and
\* octets but for the padding, an amount as a number at either scale.
SameScalar(def, v, r) ==
  CASE def.codec \in {"num.ascii", "num.ebcdic", "num.bcd", "num.rbcd", "num.bin"} ->
         atoiDigits(v.raw) = atoiDigits(r.raw) /\ (isFixed(def) \/ def.codec = "num.bin" \/ v.raw = r.raw)
    [] def.codec \in {"amount.ascii", "amount.bcd", "amount.bin"} ->
         v.dec.unscaled * 10^r.dec.scale = r.dec.unscaled * 10^v.dec.scale
    [] OTHER -> /\ SubSeq(r.raw, 1, Len(v.raw)) = v.raw
                /\ \A i \in (Len(v.raw) + 1)..Len(r.raw) : isFixed(def) /\ r.raw[i] \in {0, 32}

SameValue(def, v, r) ==
  CASE def.codec = "tlv.ber" ->
         /\ Len(v.child) = Len(r.child)
         /\ \A k \in DOMAIN v.child :
              /\ v.child[k].tag = r.child[k].tag
              /\ \/ \E td \in lookupTag(def, v.child[k].tag) : SameScalar(td.def, v.child[k].v, r.child[k].v)
                 \/ lookupTag(def, v.child[k].tag) = {} /\ v.child[k].v = r.child[k].v
    [] def.codec = "subfield.iso" ->
         /\ DOMAIN v.fields = DOMAIN r.fields
         /\ \A de \in DOMAIN v.fields : r.fields[de].ok /\ SameScalar(def.sub.defs[de], v.fields[de], r.fields[de].val)
    [] OTHER -> SameScalar(def, v, r)

SetDEs == DOMAIN given.fields
\* lengthcodec.Fixed pads nothing and checks nothing: its fields take values of the width.
FullWidth ==
  \A de \in SetDEs : DefOf(de).len = Fixed =>
    \E b \in {EncodeBody(given.fields[de], DefOf(de))} : b.ok => Len(b.val) = DefOf(de).max
\* An empty number with a prefix of zero is written, but digitCount takes a count of zero
\* for none and asks for the width of the field, which an empty body does not have.
EmptyPacked(de) == DefOf(de).codec \in {"num.bcd", "num.rbcd"} /\ given.fields[de].raw = <<>>
WholeRead == got # <<>> /\ got.n = Len(wire.val) /\ FullWidth

\* What Marshal writes, Unmarshal reads: the same data elements with the same values,
\* under every representation, across both composites and however many bitmaps the
\* data elements need; an empty packed number alone is present and does not decode.
FieldsRecovered ==
  WholeRead =>
    /\ got.read.ok /\ DOMAIN got.read.val = SetDEs
    /\ \A de \in SetDEs : \/ /\ got.read.val[de].ok
                             /\ SameValue(DefOf(de), given.fields[de], got.read.val[de].val)
                          \/ EmptyPacked(de) /\ ~got.read.val[de].ok

\* A wire that was cut off anywhere is refused, never read as a shorter message.
PrefixRefused == got # <<>> /\ got.n < Len(wire.val) /\ FullWidth => ~got.read.ok

\* Marshal refuses a message exactly when a value does not fit its field: text or
\* digits beyond the width, an amount that is negative, inexact at the field's scale
\* or too wide.
FitsField(def, v) ==
  CASE def.codec \in {"tlv.ber", "subfield.iso"} -> TRUE
    [] def.codec \in {"amount.ascii", "amount.bcd", "amount.bin"} ->
         /\ v.dec.unscaled >= 0
         /\ (v.dec.unscaled * 10^def.scale) % 10^v.dec.scale = 0
         /\ isFixed(def) /\ def.codec # "amount.bin" =>
              v.dec.unscaled * 10^def.scale < 10^(def.max + v.dec.scale)
    [] OTHER -> isFixed(def) => Len(v.raw) <= def.max
MarshalRefuses ==
  wire # <<>> => wire.ok = (\A de \in SetDEs : FitsField(DefOf(de), given.fields[de]))

\* The wire is faithful: what Marshal accepts Unmarshal reads back whole, what it is
\* not given whole Unmarshal refuses, and Marshal refuses what does not fit.
WireFaithful == FieldsRecovered /\ PrefixRefused /\ MarshalRefuses
=============================================================================
