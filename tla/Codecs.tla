------------------------------- MODULE Codecs --------------------------------
(* The value and length codecs that a field of a message is read and written   *)
(* with: internal/bcd, internal/ebcdic, lengthcodec and fieldcodec. Bytes are  *)
(* numbers below 256, text and digits are ASCII; an offset counts the bytes    *)
(* before it. A result is Ok(x) or Fail. The fixed point type of               *)
(* iso8583/decimal.go is here too, its int64 as an integer of IntBits bits.    *)
EXTENDS Integers, Sequences
LOCAL INSTANCE SequencesExt
LOCAL INSTANCE FiniteSetsExt

CONSTANTS
  IntBits,   \* bits of the unscaled integer of a Decimal: 64 in the code
  MaxScale   \* largest scale; 10^MaxScale fits in the integer

ASSUME CodecsAssumption == 10^MaxScale < 2^(IntBits - 1)

Ok(x) == [ok |-> TRUE, val |-> x]
Fail == [ok |-> FALSE, val |-> <<>>]

Part(b, off, n) == SubSeq(b, off + 1, off + n)
Rep(c, n) == [i \in 1..n |-> c]
\* Big-endian integers, and decimal digits.
bigEndian(n, w) == [i \in 1..w |-> (n \div 256^(w - i)) % 256]
fromBig(b) == FoldLeft(LAMBDA n, c : n * 256 + c, 0, b)
digits(b) == \A i \in DOMAIN b : b[i] \in 48..57
atoiDigits(b) ==
  IF digits(b) THEN Ok(FoldLeft(LAMBDA n, c : n * 10 + (c - 48), 0, b)) ELSE Fail
itoa(n) ==
  LET k == Min({j \in 1..8 : n < 10^j})
  IN [i \in 1..k |-> 48 + ((n \div 10^(k - i)) % 10)]

-----------------------------------------------------------------------------
(* internal/bcd: two digits a byte; a pad nibble in front, or behind (Right). *)
PackedLen(n) == (n + 1) \div 2

packPairs(d) ==
  IF digits(d) THEN Ok([i \in 1..(Len(d) \div 2) |-> 16 * (d[2 * i - 1] - 48) + d[2 * i] - 48]) ELSE Fail
Pack(d) == packPairs(IF Len(d) % 2 = 1 THEN <<48>> \o d ELSE d)
PackRight(d) == packPairs(IF Len(d) % 2 = 1 THEN d \o <<48>> ELSE d)

nibble(b, i) == IF i % 2 = 1 THEN b[PackedLen(i)] \div 16 ELSE b[PackedLen(i)] % 16
\* n digits that begin at the given nibble; the pad nibble is not looked at.
unpackFrom(b, first, n) ==
  IF PackedLen(n) > Len(b) \/ \E i \in first..(first + n - 1) : nibble(b, i) > 9
  THEN Fail
  ELSE Ok([i \in 1..n |-> 48 + nibble(b, first + i - 1)])
Unpack(b, n) == unpackFrom(b, IF n % 2 = 1 THEN 2 ELSE 1, n)
UnpackRight(b, n) == unpackFrom(b, 1, n)

(* internal/ebcdic, code page 037: runs of digits and letters, and the symbols; *)
(* what has no place becomes a question mark, either way.                       *)
ranges == {<<240, 48, 10>>, <<193, 65, 9>>, <<209, 74, 9>>, <<226, 83, 8>>,
           <<129, 97, 9>>, <<145, 106, 9>>, <<162, 115, 8>>}
invariant == {<<64, 32>>, <<75, 46>>, <<76, 60>>, <<77, 40>>, <<78, 43>>, <<79, 124>>, <<80, 38>>,
              <<90, 33>>, <<91, 36>>, <<92, 42>>, <<93, 41>>, <<94, 59>>, <<96, 45>>, <<97, 47>>,
              <<107, 44>>, <<108, 37>>, <<109, 95>>, <<110, 62>>, <<111, 63>>, <<121, 96>>,
              <<122, 58>>, <<123, 35>>, <<124, 64>>, <<125, 39>>, <<126, 61>>, <<127, 34>>,
              <<161, 126>>, <<192, 123>>, <<208, 125>>, <<224, 92>>}
cp037Extra == {<<186, 91>>, <<187, 93>>}
pairs == invariant \cup cp037Extra \cup UNION {{<<r[1] + i, r[2] + i>> : i \in 0..(r[3] - 1)} : r \in ranges}
a2e == [c \in 0..255 |-> IF \E p \in pairs : p[2] = c THEN (CHOOSE p \in pairs : p[2] = c)[1] ELSE 111]
e2a == [c \in 0..255 |-> IF \E p \in pairs : p[1] = c THEN (CHOOSE p \in pairs : p[1] = c)[2] ELSE 63]
Encode(b) == [i \in DOMAIN b |-> a2e[b[i]]]
Decode(b) == [i \in DOMAIN b |-> e2a[b[i]]]

\* encoding/hex, with the upper case that upperHex makes of it.
hexDigit(n) == IF n < 10 THEN 48 + n ELSE 55 + n
hexVal(c) == IF c \in 48..57 THEN c - 48 ELSE IF c \in 65..70 THEN c - 55 ELSE IF c \in 97..102 THEN c - 87 ELSE 16
upperHex(b) == [i \in 1..(2 * Len(b)) |-> hexDigit(nibble(b, i))]
hexDecode(b) ==
  IF Len(b) % 2 = 1 \/ \E i \in DOMAIN b : hexVal(b[i]) = 16
  THEN Fail
  ELSE Ok([i \in 1..(Len(b) \div 2) |-> 16 * hexVal(b[2 * i - 1]) + hexVal(b[2 * i])])

-----------------------------------------------------------------------------
(* lengthcodec: a prefix is a representation and its digits, or bytes. A field *)
(* whose length codec is "none" has no prefix and is padded to max; the one of  *)
(* lengthcodec.Fixed has none either and is not padded.                         *)
NoLen == [repr |-> "none", n |-> 0]
Fixed == [repr |-> "fixed", n |-> 0]
VarLen(repr, n) == [repr |-> repr, n |-> n]

decimalPad(n, width) ==
  LET s == itoa(n) IN IF Len(s) > width THEN Fail ELSE Ok(Rep(48, width - Len(s)) \o s)

prefixLen(l) ==
  CASE l.repr = "bcd" -> PackedLen(l.n) [] l.repr \in {"none", "fixed"} -> 0 [] OTHER -> l.n

ReadLen(l, max, src, off) ==
  LET n == prefixLen(l)
      p == Part(src, off, n)
      d == CASE l.repr = "ascii" -> Ok(p) [] l.repr = "ebcdic" -> Ok(Decode(p)) [] OTHER -> Unpack(p, l.n)
  IN CASE l.repr \in {"none", "fixed"} -> Ok(max)
       [] off + n > Len(src) -> Fail
       [] l.repr = "binary" -> Ok(fromBig(p))
       [] OTHER -> IF d.ok THEN atoiDigits(d.val) ELSE Fail

WriteLen(l, units) ==
  LET s == decimalPad(units, l.n)
  IN CASE l.repr \in {"none", "fixed"} -> Ok(<<>>)
       [] l.repr = "binary" -> IF units >= 256^l.n THEN Fail ELSE Ok(bigEndian(units, l.n))
       [] ~s.ok -> Fail
       [] l.repr = "ascii" -> s
       [] l.repr = "ebcdic" -> Ok(Encode(s.val))
       [] OTHER -> Pack(s.val)

-----------------------------------------------------------------------------
(* iso8583/decimal.go: exact amounts. *)
wrap(n) == LET m == n % 2^IntBits IN IF m >= 2^(IntBits - 1) THEN m - 2^IntBits ELSE m
\* Go's division and remainder round to zero.
quo(a, b) == IF a >= 0 THEN a \div b ELSE -((-a) \div b)

mulCheck(a, b) ==
  LET r == wrap(a * b)
  IN IF a = 0 \/ b = 0 THEN Ok(0) ELSE IF quo(r, b) # a THEN Fail ELSE Ok(r)
\* Mutated form: an addition that wraps.
addCheckNot(a, b) == Ok(wrap(a + b))
addCheck(a, b) ==
  LET r == wrap(a + b) IN IF (r > a) # (b > 0) THEN Fail ELSE Ok(r)

pow10(n) == IF n > MaxScale THEN Fail ELSE Ok(10^n)
Dec(u, s) == [unscaled |-> u, scale |-> s]

\* Decimal.String
decimalString(d) ==
  LET mag == itoa(IF d.unscaled < 0 THEN -d.unscaled ELSE d.unscaled)
      split == Len(mag) - d.scale
  IN (IF d.unscaled < 0 THEN <<45>> ELSE <<>>)
       \o (IF d.scale = 0 THEN mag
           ELSE IF split <= 0 THEN <<48, 46>> \o Rep(48, -split) \o mag
           ELSE SubSeq(mag, 1, split) \o <<46>> \o SubSeq(mag, split + 1, Len(mag)))

Rescale(d, scale) ==
  LET up == pow10(scale - d.scale)
      down == pow10(d.scale - scale)
      r == mulCheck(d.unscaled, up.val)
  IN CASE scale > MaxScale -> Fail
       [] scale = d.scale -> Ok(d)
       [] scale > d.scale -> IF up.ok /\ r.ok THEN Ok(Dec(r.val, scale)) ELSE Fail
       [] OTHER -> IF down.ok /\ d.unscaled = quo(d.unscaled, down.val) * down.val
                   THEN Ok(Dec(quo(d.unscaled, down.val), scale))
                   ELSE Fail

Add(d, o) ==
  LET scale == IF o.scale > d.scale THEN o.scale ELSE d.scale
      a == Rescale(d, scale)
      b == Rescale(o, scale)
      sum == addCheck(a.val.unscaled, b.val.unscaled)
  IN IF a.ok /\ b.ok THEN IF sum.ok THEN Ok(Dec(sum.val, scale)) ELSE Fail ELSE Fail

-----------------------------------------------------------------------------
(* fieldcodec: a field definition is a value codec, a length codec, max and     *)
(* scale; a value is its bytes, and for an amount the decimal.                  *)
Scalar(raw) == [raw |-> raw, dec |-> Dec(0, 0)]
Amount(d) == [raw |-> <<>>, dec |-> d]

isFixed(def) == def.len.repr = "none" /\ def.max > 0
padFixed(b, def, pad, left) ==
  LET gap == Rep(pad, def.max - Len(b))
  IN IF ~isFixed(def) THEN Ok(b)
     ELSE IF Len(b) > def.max THEN Fail
     ELSE Ok(IF left THEN gap \o b ELSE b \o gap)

digitCount(units, def) == IF units > 0 THEN units ELSE def.max
Then(r, F(_)) == IF r.ok THEN F(r.val) ELSE Fail

\* Text and octets: spaces, or zero bytes, behind.
charASCII(v, def) == padFixed(v.raw, def, 32, FALSE)
ebcdicChar(v, def) == Then(padFixed(v.raw, def, 32, FALSE), LAMBDA b : Ok(Encode(b)))
binaryRaw(v, def) == padFixed(v.raw, def, 0, FALSE)
hexBinary(v, def) == Then(padFixed(v.raw, def, 0, FALSE), LAMBDA b : Ok(upperHex(b)))
\* Digits: zeros in front.
numASCII(v, def) == padFixed(v.raw, def, 48, TRUE)
numEBCDIC(v, def) == Then(padFixed(v.raw, def, 48, TRUE), LAMBDA b : Ok(Encode(b)))
bcdNum(v, def) == Then(padFixed(v.raw, def, 48, TRUE), Pack)
rbcdNum(v, def) == Then(padFixed(v.raw, def, 48, TRUE), PackRight)
\* A binary number keeps its low bytes; there is no check that it fits.
binNum(v, def) == Then(atoiDigits(v.raw), LAMBDA n : Ok(bigEndian(n, def.max)))
\* Amounts: the minor units at the scale of the field, never negative.
minorUnits(v, def) ==
  Then(Rescale(v.dec, def.scale), LAMBDA d : IF d.unscaled < 0 THEN Fail ELSE Ok(d.unscaled))
amountDigits(v, def) == Then(minorUnits(v, def), LAMBDA u : Ok(itoa(u)))
amountASCII(v, def) == Then(amountDigits(v, def), LAMBDA d : padFixed(d, def, 48, TRUE))
amountBCD(v, def) == Then(amountASCII(v, def), Pack)
amountBinary(v, def) == Then(minorUnits(v, def), LAMBDA u : Ok(bigEndian(u, def.max)))

EncodeScalar(v, def) ==
  CASE def.codec = "char.ascii" -> charASCII(v, def)
    [] def.codec = "char.ebcdic" -> ebcdicChar(v, def)
    [] def.codec = "b.raw" -> binaryRaw(v, def)
    [] def.codec = "b.hex" -> hexBinary(v, def)
    [] def.codec = "num.ascii" -> numASCII(v, def)
    [] def.codec = "num.ebcdic" -> numEBCDIC(v, def)
    [] def.codec = "num.bcd" -> bcdNum(v, def)
    [] def.codec = "num.rbcd" -> rbcdNum(v, def)
    [] def.codec = "num.bin" -> binNum(v, def)
    [] def.codec = "amount.ascii" -> amountASCII(v, def)
    [] def.codec = "amount.bcd" -> amountBCD(v, def)
    [] OTHER -> amountBinary(v, def)

\* The decoders. Text, octets and digits of one byte each are taken as they are.
ebcdicDecode(body) == Ok(Scalar(Decode(body)))
hexBinaryDecode(body) == Then(hexDecode(body), LAMBDA b : Ok(Scalar(b)))
bcdNumDecode(body, units, def) == Then(Unpack(body, digitCount(units, def)), LAMBDA d : Ok(Scalar(d)))
rbcdNumDecode(body, units, def) == Then(UnpackRight(body, digitCount(units, def)), LAMBDA d : Ok(Scalar(d)))
binNumDecode(body) == Ok(Scalar(itoa(fromBig(body))))
\* An amount is read as a signed integer of IntBits bits; a binary one wraps.
amountASCIIDecode(body, def) ==
  Then(atoiDigits(body), LAMBDA n : IF n >= 2^(IntBits - 1) THEN Fail ELSE Ok(Amount(Dec(n, def.scale))))
amountBCDDecode(body, units, def) ==
  Then(Unpack(body, digitCount(units, def)), LAMBDA d : amountASCIIDecode(d, def))
amountBinaryDecode(body, def) == Ok(Amount(Dec(wrap(fromBig(body)), def.scale)))

DecodeScalar(body, units, def) ==
  CASE def.codec \in {"char.ascii", "b.raw", "num.ascii"} -> Ok(Scalar(body))
    [] def.codec \in {"char.ebcdic", "num.ebcdic"} -> ebcdicDecode(body)
    [] def.codec = "b.hex" -> hexBinaryDecode(body)
    [] def.codec = "num.bcd" -> bcdNumDecode(body, units, def)
    [] def.codec = "num.rbcd" -> rbcdNumDecode(body, units, def)
    [] def.codec = "num.bin" -> binNumDecode(body)
    [] def.codec = "amount.ascii" -> amountASCIIDecode(body, def)
    [] def.codec = "amount.bcd" -> amountBCDDecode(body, units, def)
    [] OTHER -> amountBinaryDecode(body, def)

\* WidthCodec: bytes of a body of so many units.
BodyBytes(def, units) ==
  CASE def.codec \in {"num.bcd", "num.rbcd", "amount.bcd"} -> PackedLen(units)
    [] def.codec = "b.hex" -> units * 2
    [] OTHER -> units
=============================================================================
