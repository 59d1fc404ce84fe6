------------------------------- MODULE Values --------------------------------
(* Typed access to fields: iso8583/value.go, get.go and bind.go with makeValue *)
(* of message.go; the exact arithmetic of decimal.go; and the Luhn check of    *)
(* validate.go. Codecs has the codecs and the decimals.                        *)
EXTENDS Codecs, FiniteSets
LOCAL INSTANCE SequencesExt

CONSTANTS MaxNumber   \* digits of a number that is checked

VARIABLES
  member,   \* a struct member: its definition, time format, Go type and value
  total,    \* a running total of amounts, <<>> before the first
  number    \* a number with a check digit

valueVars == <<member, total, number>>

-----------------------------------------------------------------------------
(* Values. *)
Kinded(kind, raw, dec) == [kind |-> kind, raw |-> raw, dec |-> dec]
kindOf(codec) ==
  CASE codec = "char.ascii" -> "string" [] codec = "num.ascii" -> "numeric"
    [] codec = "b.raw" -> "bytes" [] codec = "amount.ascii" -> "amount"

FormatInt(n) == IF n < 0 THEN <<45>> \o itoa(-n) ELSE itoa(n)
\* strconv.ParseInt: an optional sign, digits, in range.
parseInt(b) ==
  LET neg == b # <<>> /\ b[1] = 45
      d == IF neg \/ (b # <<>> /\ b[1] = 43) THEN Tail(b) ELSE b
      n == atoiDigits(d)
  IN IF d = <<>> \/ ~n.ok THEN Fail
     ELSE IF n.val >= 2^(IntBits - 1) + (IF neg THEN 1 ELSE 0) THEN Fail
     ELSE Ok(IF neg THEN -n.val ELSE n.val)
parseUint(b) == LET n == atoiDigits(b) IN IF b = <<>> \/ ~n.ok THEN Fail ELSE IF n.val >= 2^IntBits THEN Fail ELSE n

numericKind(kind) == IF kind = "string" THEN "numeric" ELSE kind

\* The unscaled integer at a larger scale, without bounds.
AtScale(d, s) == d.unscaled * 10^(s - d.scale)

\* makeValue, by the type of what is set.
makeValue(kind, typ, x) ==
  CASE typ = "string" /\ kind = "amount" -> Then(parseInt(x), LAMBDA n : Ok(Kinded("amount", x, Dec(n, 0))))
    [] typ \in {"string", "[]byte"} /\ ~(typ = "string" /\ kind = "amount") -> Ok(Kinded(kind, x, Dec(0, 0)))
    [] typ = "int64" -> Ok(Kinded(numericKind(kind), FormatInt(x), IF kind = "amount" THEN Dec(x, 0) ELSE Dec(0, 0)))
    [] typ = "uint64" -> Ok(Kinded(numericKind(kind), FormatInt(x), Dec(0, 0)))
    [] typ = "Decimal" -> Ok(Kinded("amount", decimalString(x), x))

\* Value.Decimal.
DecimalOf(v) ==
  CASE v.kind = "amount" -> Ok(v.dec)
    [] v.kind = "numeric" -> Then(parseInt(v.raw), LAMBDA n : Ok(Dec(n, 0)))
    [] OTHER -> Fail

\* convert and setField, by the type that is asked for.
convert(v, typ) ==
  CASE typ = "string" -> Ok(IF v.kind = "amount" THEN decimalString(v.dec) ELSE v.raw)
    [] typ = "[]byte" -> Ok(v.raw)
    [] typ = "int64" -> IF v.kind = "amount" THEN Ok(v.dec.unscaled)
                        ELSE IF v.kind = "bytes" THEN Fail ELSE parseInt(v.raw)
    [] typ = "uint64" -> IF v.kind \in {"numeric", "string"} THEN parseUint(v.raw) ELSE Fail
    [] typ = "Decimal" -> DecimalOf(v)

-----------------------------------------------------------------------------
(* Times: a format is the sequence of the parts it writes, a year in two digits *)
(* or in four.                                                                  *)
layouts ==
  [hhmmss |-> <<"h", "m", "s">>, hhmm |-> <<"h", "m">>, MMDD |-> <<"M", "D">>,
   MMDDhhmmss |-> <<"M", "D", "h", "m", "s">>, YYMMDDhhmmss |-> <<"Y", "M", "D", "h", "m", "s">>,
   YYYYMMDDhhmmss |-> <<"YY", "M", "D", "h", "m", "s">>]
partWidth(part) == IF part = "YY" THEN 4 ELSE 2
widthOf(layout) == FoldLeft(LAMBDA n, part : n + partWidth(part), 0, layout)
layoutFor(format) == IF format \in DOMAIN layouts THEN layouts[format] ELSE <<>>

\* time.Time.Format and time.Parse.
FormatTime(t, layout) == FlattenSeq([i \in DOMAIN layout |-> decimalPad(t[layout[i]], partWidth(layout[i])).val])
inRange(part, n) ==
  CASE part = "M" -> n \in 1..12 [] part = "D" -> n \in 1..31 [] part = "h" -> n \in 0..23
    [] part \in {"Y", "YY"} -> TRUE [] OTHER -> n \in 0..59
ParseTime(raw, layout) ==
  LET part(i) == atoiDigits(Part(raw, widthOf(SubSeq(layout, 1, i - 1)), partWidth(layout[i])))
  IN IF layout = <<>> \/ Len(raw) # widthOf(layout) \/ \E i \in DOMAIN layout : ~part(i).ok THEN Fail
     ELSE IF \E i \in DOMAIN layout : ~inRange(layout[i], part(i).val) THEN Fail
     ELSE Ok([p \in ToSet(layout) |-> part(CHOOSE i \in DOMAIN layout : layout[i] = p).val])

\* The layout by the length of the value.
decodeTime(raw) ==
  ParseTime(raw, CASE Len(raw) = 14 -> layouts.YYYYMMDDhhmmss [] Len(raw) = 12 -> layouts.YYMMDDhhmmss
               [] Len(raw) = 10 -> layouts.MMDDhhmmss [] Len(raw) = 6 -> layouts.hhmmss
               [] Len(raw) = 4 -> layouts.MMDD [] OTHER -> <<>>)
decodeTimeLayout(raw, format) == IF format = "" THEN decodeTime(raw) ELSE ParseTime(raw, layoutFor(format))

\* What Pack sets: a time as text, anything else as it is.
fieldToSet(typ, format, x) ==
  IF typ # "Time" THEN Ok(x) ELSE IF layoutFor(format) = <<>> THEN Fail ELSE Ok(FormatTime(x, layoutFor(format)))

-----------------------------------------------------------------------------
(* Pack and Bind of a struct member, over the wire; Get of what was packed. *)
setType(typ) == IF typ = "Time" THEN "string" ELSE typ

typeOf(m) == m.holds[1]
Pack1(m) ==
  Then(fieldToSet(typeOf(m), m.format, m.holds[2]), LAMBDA in :
    Then(makeValue(kindOf(m.def.codec), setType(typeOf(m)), in), LAMBDA v : EncodeScalar(v, m.def)))

Bind1(m, body) ==
  Then(DecodeScalar(body, Len(body), m.def), LAMBDA r :
    LET v == Kinded(kindOf(m.def.codec), r.raw, r.dec)
    IN IF typeOf(m) = "Time" THEN decodeTimeLayout(v.raw, m.format) ELSE convert(v, typeOf(m)))

memberDefs == {[codec |-> c, len |-> VarLen("ascii", 2), max |-> 12, scale |-> 0] : c \in {"char.ascii", "num.ascii", "b.raw"}}
                \cup {[codec |-> "amount.ascii", len |-> NoLen, max |-> 6, scale |-> 2]}
someTime == [YY |-> 2026, Y |-> 26, M |-> 2, D |-> 28, h |-> 23, m |-> 5, s |-> 59]
memberValues(typ) ==
  CASE typ \in {"string", "[]byte"} -> {<<49, 48>>, <<48, 55>>, <<65, 255>>, <<>>}
    [] typ = "int64" -> {0, 12, -7, 2^(IntBits - 1) - 1}
    [] typ = "uint64" -> {0, 12, 2^IntBits - 1}
    [] typ = "Decimal" -> {Dec(5, 0), Dec(109, 2), Dec(150, 3), Dec(-5, 1), Dec(2^(IntBits - 1) - 1, 2)}
    [] typ = "Time" -> {someTime}

ValuesInit == member = <<>> /\ total = <<>> /\ number = <<>>

Declare ==
  /\ member = <<>>
  /\ \E typ \in {"string", "[]byte", "int64", "uint64", "Decimal", "Time"} : \E x \in memberValues(typ) :
       \E def \in memberDefs, format \in IF typ = "Time" THEN DOMAIN layouts \cup {""} ELSE {""} :
         member' = [def |-> def, format |-> format, holds |-> <<typ, x>>]
  /\ UNCHANGED <<total, number>>

amounts == {Dec(u, s) : u \in {-(2^(IntBits - 1)), -1000, -1, 0, 1, 99, 2^(IntBits - 1) \div 10, 2^(IntBits - 1) - 1}, s \in 0..MaxScale}
AddAmount ==
  /\ \/ total = <<>> /\ total' \in amounts
     \/ total \in amounts /\ \E d \in amounts : Add(total, d).ok /\ total' = Add(total, d).val
  /\ UNCHANGED <<member, number>>

AddDigit ==
  /\ Len(number) < MaxNumber /\ \E c \in 0..9 : number' = Append(number, c)
  /\ UNCHANGED <<member, total>>

-----------------------------------------------------------------------------
(* validate.go *)
Luhn(b) ==
  LET part(i) == IF (Len(b) - i) % 2 = 1 THEN LET d == 2 * b[i] IN IF d > 9 THEN d - 9 ELSE d ELSE b[i]
  IN b # <<>> /\ FoldLeft(LAMBDA s, i : s + part(i), 0, [i \in DOMAIN b |-> i]) % 10 = 0

-----------------------------------------------------------------------------
\* A struct member that Pack writes is the one Bind reads back, or one of the two
\* refuses: text, octets, integers, decimals and the parts of a time that its format
\* writes, in every kind of field; an amount field only with a Decimal (README). Get
\* infers the layout of a time from its length, and finds the same, but for hhmm.
PackBinds == member # <<>> /\ (member.def.codec = "amount.ascii" => typeOf(member) = "Decimal") =>
  LET wire == Pack1(member)
      back == Bind1(member, wire.val)
      Same(a, b) == CASE typeOf(member) = "Time" -> \A p \in DOMAIN a : a[p] = b[p]
                      [] typeOf(member) = "Decimal" -> AtScale(a, MaxScale) = AtScale(b, MaxScale)
                      [] OTHER -> a = b
  IN wire.ok =>
       /\ back.ok => Same(back.val, member.holds[2])
       /\ typeOf(member) # "Decimal" /\ ~(typeOf(member) \in {"int64", "uint64"} /\ member.def.codec = "b.raw") => back.ok
       /\ typeOf(member) = "Time" /\ member.format # "hhmm" => decodeTime(wire.val) = back

\* Amounts are exact: a sum or a change of scale has the value that arithmetic without
\* bounds gives it, and is refused only when that value, or an operand brought to the
\* common scale, has no place in the integer.
DecimalExact == total # <<>> =>
  LET Fits(n) == n \in -(2^(IntBits - 1))..(2^(IntBits - 1) - 1)
  IN /\ \A d \in amounts :
          LET s == IF d.scale > total.scale THEN d.scale ELSE total.scale
              sum == AtScale(total, s) + AtScale(d, s)
          IN Add(total, d) = IF Fits(AtScale(total, s)) /\ Fits(AtScale(d, s)) /\ Fits(sum)
                             THEN Ok(Dec(sum, s)) ELSE Fail
     /\ \A s \in 0..MaxScale :
          LET r == Rescale(total, s)
          IN r.ok => AtScale(r.val, MaxScale) = AtScale(total, MaxScale)

\* The check digit does its work: every number has exactly one, and no slip of a single
\* digit, nor an exchange of two neighbours but 0 and 9, passes the check.
LuhnDetects == number # <<>> =>
  /\ Cardinality({c \in 0..9 : Luhn(Append(number, c))}) = 1
  /\ Luhn(number) => \A i \in DOMAIN number :
       /\ \A c \in 0..9 \ {number[i]} : ~Luhn([number EXCEPT ![i] = c])
       /\ i < Len(number) /\ number[i] # number[i + 1] /\ {number[i], number[i + 1]} # {0, 9} =>
            ~Luhn([number EXCEPT ![i] = number[i + 1], ![i + 1] = number[i]])

\* A value means the same on both sides of a conversion (Pack and Bind, Decimal's
\* arithmetic, Luhn).
ValuesExact == PackBinds /\ DecimalExact /\ LuhnDetects
=============================================================================
