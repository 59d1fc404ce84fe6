------------------------------- MODULE Crypto -------------------------------
(***************************************************************************)
(* The algorithms of package vault (mac.go, cmac.go, cipher.go, dukpt.go,   *)
(* keyblock.go) and the MAC of the PKCS#11 adapter, as operators.           *)
(*                                                                          *)
(* DES is external: any family of permutations, one per key, has the shape  *)
(* the code relies on, and a two-round Feistel network over blocks of two   *)
(* bytes of Bits bits stands for it.  A DES key is as long as a block, so a *)
(* double-length key has 2 * BS bytes.  <<>> is an error.                   *)
(***************************************************************************)
EXTENDS Integers, Sequences, Bitwise
LOCAL INSTANCE SequencesExt

CONSTANTS Bits,         \* bits of a byte (8)
          CounterBits,  \* bits of the DUKPT transaction counter (21)
          MaxBlockLen   \* longest key block the four length digits tell (9999)

ASSUME CryptoAssumption ==
    /\ Bits \in Nat \ {0} /\ CounterBits \in Nat \ {0} /\ MaxBlockLen \in Nat

BS == 2
Byte == 0 .. 2^Bits - 1
Top == 2^(Bits - 1)                       \* 0x80
Zeros(n) == [i \in 1 .. n |-> 0]
Error == <<>>

xor == [a \in Byte, b \in Byte |-> a ^^ b]
xored(a, b) == <<>> \o [i \in 1 .. Len(a) |-> xor[a[i], b[i]]]

-----------------------------------------------------------------------------
(* Block ciphers.  A cipher.Block is the sequence of its DES keys.          *)

round(k, i, r) == (r * r + r * k[i] + k[3 - i] + i) % 2^Bits
Block == [1 .. BS -> Byte]
desEnc == [k \in Block, x \in Block |->
             LET m == xor[x[1], round(k, 1, x[2])] IN <<m, xor[x[2], round(k, 2, m)]>>]
desDec == [k \in Block, x \in Block |->
             LET m == xor[x[2], round(k, 2, x[1])] IN <<xor[x[1], round(k, 1, m)], m>>]

desBlock(key) == IF Len(key) = BS THEN <<key>> ELSE Error

tripleDESBlock(key) ==
    LET part(i) == SubSeq(key, BS * (i - 1) + 1, BS * i)
    IN  CASE Len(key) = 3 * BS -> <<part(1), part(2), part(3)>>
          [] Len(key) = 2 * BS -> <<part(1), part(2), part(1)>>
          [] OTHER -> Error

blockEnc(b, x) == IF Len(b) = 1 THEN desEnc[b[1], x]
                  ELSE desEnc[b[3], desDec[b[2], desEnc[b[1], x]]]
blockDec(b, x) == IF Len(b) = 1 THEN desDec[b[1], x]
                  ELSE desDec[b[1], desEnc[b[2], desDec[b[3], x]]]

Blocks(s) == [i \in 1 .. Len(s) \div BS |-> SubSeq(s, BS * (i - 1) + 1, BS * i)]

cbcEncrypt(b, iv, src) ==
    FoldLeft(LAMBDA a, x : LET c == blockEnc(b, xored(x, a.iv)) IN [iv |-> c, out |-> a.out \o c],
             [iv |-> iv, out |-> <<>>], Blocks(src)).out

cbcDecrypt(b, iv, src) ==
    FoldLeft(LAMBDA a, c : [iv |-> c, out |-> a.out \o xored(blockDec(b, c), a.iv)],
             [iv |-> iv, out |-> <<>>], Blocks(src)).out

-----------------------------------------------------------------------------
(* ISO 9797-1 MACs (mac.go).                                                *)

shortfall(n) == (BS - (n % BS)) % BS
fill(s) == s \o Zeros(shortfall(Len(s)))

applyPadding(pad, data) ==
    CASE pad = 2 -> fill(Append(data, Top))
      [] pad = 1 /\ data = <<>> -> Zeros(BS)
      [] OTHER -> fill(data)

cbcMAC(b, data) == FoldLeft(LAMBDA x, d : blockEnc(b, xored(x, d)), Zeros(BS), Blocks(data))

(* Mutated form: the retail MAC's last transform dropped. *)
GenerateMACPlain(alg, pad, key, data) ==
    IF Len(key) \notin {BS, 2 * BS} THEN Error
    ELSE cbcMAC(desBlock(SubSeq(key, 1, BS)), applyPadding(pad, data))

GenerateMAC(alg, pad, key, data) ==
    LET padded == applyPadding(pad, data)
        b1 == <<SubSeq(key, 1, BS)>>
        b2 == <<SubSeq(key, BS + 1, 2 * BS)>>
    IN  CASE alg = 1 /\ Len(key) = BS -> cbcMAC(desBlock(key), padded)
          [] alg = 3 /\ Len(key) = 2 * BS -> blockEnc(b1, blockDec(b2, cbcMAC(b1, padded)))
          [] OTHER -> Error

-----------------------------------------------------------------------------
(* The MAC of adapters/pkcs11, composed from the 3DES operations of a token. *)
(* A token is a function from labels to triple-length keys.                  *)

iso9797Pad(pad, data) ==
    IF pad = 2 THEN fill(Append(data, Top))
    ELSE IF data = <<>> THEN Zeros(BS) ELSE fill(data)

findKey(token, ref) == IF ref \in DOMAIN token THEN tripleDESBlock(token[ref]) ELSE Error

cbcMACLastBlock(k, padded) ==
    LET ct == cbcEncrypt(k, Zeros(BS), padded) IN SubSeq(ct, Len(ct) - BS + 1, Len(ct))

tokenMAC(token, ref, alg, pad, data) ==
    LET padded == iso9797Pad(pad, data)
        k == findKey(token, ref)
        prefixKey == findKey(token, ref \o "-cbc")
        n == Len(padded) - BS
        prefixMAC == IF n > 0 THEN cbcMACLastBlock(prefixKey, SubSeq(padded, 1, n)) ELSE Zeros(BS)
    IN  CASE alg = 1 /\ k # Error -> cbcMACLastBlock(k, padded)
          [] alg = 3 /\ k # Error /\ prefixKey # Error ->
               blockEnc(k, xored(SubSeq(padded, n + 1, n + BS), prefixMAC))
          [] OTHER -> Error

(* How a key is provisioned on the token, package comment of pkcs11.go: the *)
(* single-length key K as K|K|K; the retail key K1|K2 as K1|K2|K1, with     *)
(* K1|K1|K1 under the "-cbc" label.                                         *)
Provisioned(ref, key) ==
    LET k1 == SubSeq(key, 1, BS)
        k2 == IF Len(key) = BS THEN k1 ELSE SubSeq(key, BS + 1, 2 * BS)
    IN  [l \in {ref, ref \o "-cbc"} |-> IF l = ref THEN k1 \o k2 \o k1 ELSE k1 \o k1 \o k1]

-----------------------------------------------------------------------------
(* CMAC (cmac.go).                                                          *)

dbl(x) ==
    LET shifted == [i \in 1 .. BS |-> ((2 * x[i]) % 2^Bits) + (IF i < BS THEN x[i + 1] \div Top ELSE 0)]
    IN  IF x[1] >= Top THEN [shifted EXCEPT ![BS] = xor[@, 27 % 2^Bits]] ELSE shifted

cmacBlock(b, msg) ==
    LET k1 == dbl(blockEnc(b, Zeros(BS)))
        whole == msg # <<>> /\ Len(msg) % BS = 0
        rem == IF whole THEN BS ELSE Len(msg) % BS
        head == SubSeq(msg, 1, Len(msg) - rem)
        tail == SubSeq(msg, Len(msg) - rem + 1, Len(msg))
        last == IF whole THEN xored(tail, k1) ELSE xored(fill(Append(tail, Top)), dbl(k1))
    IN  blockEnc(b, xored(cbcMAC(b, head), last))

-----------------------------------------------------------------------------
(* TR-31 version B key blocks (keyblock.go).  A block is its header, whose   *)
(* length counts characters (two per byte after a header of 16), its         *)
(* ciphertext and its MAC; the header's letters are one byte each.           *)

uint16(n) == <<(n \div 2^Bits) % 2^Bits, n % 2^Bits>>

tr31kdf(b, usage, len) ==
    FoldLeft(LAMBDA a, ctr : a \o cmacBlock(b, <<ctr, usage, len \div (3 * BS), (len * Bits) % 2^Bits>>),
             <<>>, [i \in 1 .. len \div BS |-> i])

tr31DeriveKeys(kbpk) ==
    LET b == tripleDESBlock(kbpk)
    IN  [kbek |-> tripleDESBlock(tr31kdf(b, 0, Len(kbpk))),
         kbmk |-> tripleDESBlock(tr31kdf(b, 1, Len(kbpk)))]

HeaderBytes(h) == <<h.len % 2^Bits, h.usage, h.mode, h.export>>

marshalHeader(h) == IF h.len > MaxBlockLen THEN Error ELSE h

WrapKeyBlock(kbpk, hdr, key, rnd) ==
    LET bare == uint16(Len(key) * Bits) \o key
        plain == bare \o [i \in 1 .. shortfall(Len(bare)) |-> rnd]
        h == marshalHeader([len |-> 16 + 2 * Len(plain) + 2 * BS,
                            usage |-> hdr.usage, mode |-> hdr.mode, export |-> hdr.export])
        ks == tr31DeriveKeys(kbpk)
        mac == cmacBlock(ks.kbmk, HeaderBytes(h) \o plain)
    IN  IF Len(kbpk) \notin {2 * BS, 3 * BS} \/ key = <<>> \/ h = Error THEN Error
        ELSE [header |-> h, ct |-> cbcEncrypt(ks.kbek, mac, plain), mac |-> mac]

UnwrapKeyBlock(kbpk, block) ==
    LET ks == tr31DeriveKeys(kbpk)
        plain == cbcDecrypt(ks.kbek, block.mac, block.ct)
        want == cmacBlock(ks.kbmk, HeaderBytes(block.header) \o plain)
        keyLen == (plain[1] * 2^Bits + plain[2]) \div Bits
    IN  IF \/ Len(kbpk) \notin {2 * BS, 3 * BS}
           \/ block.header.len # 16 + 2 * (Len(block.ct) + Len(block.mac))
           \/ Len(block.ct) % BS # 0 \/ Len(block.ct) < BS
           \/ want # block.mac \/ 2 + keyLen > Len(plain)
        THEN Error
        ELSE SubSeq(plain, 3, 2 + keyLen)

-----------------------------------------------------------------------------
(* DUKPT (dukpt.go).  A KSN is its key-set bits and its counter; the         *)
(* register holds both in one block.                                         *)

keyVariantMask == [i \in 1 .. 2 * BS |-> IF i % BS = 1 THEN Top ELSE 0]

dukptEncRegister(key, reg) ==
    LET right == SubSeq(key, BS + 1, 2 * BS)
    IN  xored(blockEnc(<<SubSeq(key, 1, BS)>>, xored(reg, right)), right)

dukptGenerateKey(key, reg) ==
    dukptEncRegister(xored(key, keyVariantMask), reg) \o dukptEncRegister(key, reg)

Register(set, bits) == uint16(set * 2^CounterBits + bits)

DeriveIPEK(bdk, set) ==
    blockEnc(tripleDESBlock(bdk), Register(set, 0))
      \o blockEnc(tripleDESBlock(xored(bdk, keyVariantMask)), Register(set, 0))

setCounterBit(reg, shift) == reg + shift

DeriveSessionKey(ipek, set, counter) ==
    FoldLeft(LAMBDA a, i :
               LET shift == 2^(CounterBits - i)
                   reg == setCounterBit(a.reg, shift)
               IN  IF (counter \div shift) % 2 = 0 THEN a
                   ELSE [reg |-> reg, key |-> dukptGenerateKey(a.key, Register(set, reg))],
             [reg |-> 0, key |-> ipek], [i \in 1 .. CounterBits |-> i]).key

-----------------------------------------------------------------------------
(* A string of bytes that grows, used as message, as key to wrap and as IPEK. *)

VARIABLE data
CONSTANTS MaxData, Sample      \* longest data; the bytes it is made of

NoData == <<-1>>
CryptoInit == data = NoData
Extend ==
    \/ data = NoData /\ data' = <<>>
    \/ \E b \in Sample : data # NoData /\ Len(data) < MaxData /\ data' = Append(data, b)

KeysOf(alg) == IF alg = 1 THEN {<<1, 0>>, <<2^Bits - 1, Top>>} ELSE {<<1, 0, Top, 1>>, <<2, 1, 2, 1>>}

(* The MAC the PKCS#11 adapter composes from the 3DES operations of a token  *)
(* is the one package vault computes with the same key, for every message,   *)
(* padding and algorithm ("byte-for-byte identical to vault.GenerateMAC").    *)
MACsAgree == data # NoData =>
    \A alg \in {1, 3}, pad \in {1, 2} : \A key \in KeysOf(alg) :
        tokenMAC(Provisioned("k", key), "k", alg, pad, data) = GenerateMAC(alg, pad, key, data)

(* A key that WrapKeyBlock accepts comes back whole from UnwrapKeyBlock, at   *)
(* the longest too: the two-byte bit count never wraps below the length limit. *)
KeyBlockReturnsKey == data # NoData =>
    \A kbpk \in {<<1, 0, Top, 1>>, <<1, 0, Top, 1, 3, 2>>}, rnd \in {0, Top} :
        LET b == WrapKeyBlock(kbpk, [usage |-> 1, mode |-> 2, export |-> 3], data, rnd)
        IN  b # Error => UnwrapKeyBlock(kbpk, b) = data

(* The key of transaction n is made from the key of n without its lowest one  *)
(* bit, and n itself: what lets a terminal keep only its future keys, where    *)
(* DeriveSessionKey walks all bits from the initial key.                       *)
SessionKeysFormTree ==
    Len(data) = 2 * BS =>
        LET ipek == DeriveIPEK(data, 1)
            lowest(n) == CHOOSE p \in {2^i : i \in 0 .. CounterBits - 1} :
                             (n \div p) % 2 = 1 /\ n % p = 0
            key[n \in 0 .. 2^CounterBits - 1] ==
                IF n = 0 THEN ipek
                ELSE dukptGenerateKey(key[n - lowest(n)], Register(1, n))
        IN  \A n \in DOMAIN key : DeriveSessionKey(ipek, 1, n) = key[n]

(* What two parties compute from one key agrees: MACs in the vault and on a     *)
(* token, a key before and after its key block, a session key on both ends.     *)
CryptoHolds == MACsAgree /\ KeyBlockReturnsKey /\ SessionKeysFormTree
=============================================================================
