------------------------------- MODULE Vault --------------------------------
(***************************************************************************)
(* The software vaults of package vault: SealedVault (sealed.go) and        *)
(* SoftVault (vault.go) with the ISO 9564 PIN blocks (pinblock.go).         *)
(*                                                                          *)
(* Callers use the vault concurrently and keys are replaced under them.     *)
(* A call takes the steps between which the vault's lock is free.  PIN      *)
(* blocks keep their 16 nibbles.  Ciphers are symbolic: a block is its key  *)
(* and its plaintext, and deciphering under another key gives garbage.      *)
(***************************************************************************)
EXTENDS Integers, Sequences, FiniteSets, Bitwise
LOCAL INSTANCE SequencesExt

CONSTANTS Callers,   \* goroutines
          MaxCalls,  \* bound: calls made in all
          Refs,      \* key references
          VaultKeys,      \* 3DES keys
          NoKey,     \* no key stored
          Pins, Pan, \* clear PINs and the account number, as digit sequences
          Rand       \* bytes the randomness source returns

Failed == <<>>

-----------------------------------------------------------------------------
(* PIN blocks (pinblock.go), nibble by nibble.                              *)

Formats == {"ISO0", "ISO1", "ISO3"}
control(f) == CASE f = "ISO0" -> 0 [] f = "ISO1" -> 1 [] f = "ISO3" -> 3

padNibbles(f, n, rnd) ==
    [i \in 1 .. n |-> CASE f = "ISO0" -> 15 [] f = "ISO1" -> rnd % 16 [] f = "ISO3" -> 10 + (rnd % 6)]

pinField(f, pin, rnd) ==
    IF Len(pin) \notin 4 .. 12 THEN Failed
    ELSE <<control(f), Len(pin)>> \o pin \o padNibbles(f, 14 - Len(pin), rnd)

panField(pan) ==
    IF Len(pan) < 13 THEN Failed
    ELSE <<0, 0, 0, 0>> \o SubSeq(pan, Len(pan) - 12, Len(pan) - 1)

xorNibbles(a, b) == [i \in DOMAIN a |-> a[i] ^^ b[i]]

EncodePINBlock(f, pin, pan, rnd) ==
    LET pf == pinField(f, pin, rnd)
        af == panField(pan)
    IN  IF pf = Failed \/ (f # "ISO1" /\ af = Failed) THEN Failed
        ELSE IF f = "ISO1" THEN pf ELSE xorNibbles(pf, af)

checkPadding(f, pad) ==
    \A i \in DOMAIN pad : (f = "ISO0" => pad[i] = 15) /\ (f = "ISO3" => pad[i] >= 10)

DecodePINBlock(f, block, pan) ==
    LET clear == IF f = "ISO1" THEN block ELSE xorNibbles(block, panField(pan))
        l == clear[2]
        pin == SubSeq(clear, 3, 2 + l)
    IN  IF \/ f # "ISO1" /\ panField(pan) = Failed
           \/ clear[1] # control(f) \/ l \notin 4 .. 12
           \/ \E i \in DOMAIN pin : pin[i] > 9
           \/ ~checkPadding(f, SubSeq(clear, 3 + l, 16))
        THEN Failed
        ELSE pin

-----------------------------------------------------------------------------
VARIABLES sealed,  \* a SealedVault, or a SoftVault
          keys,    \* keys[r]: NoKey or the stored key and its usage
          call,    \* call[c]: the call of c and how far it is
          calls,   \* how many calls were made
          block    \* an enciphered PIN block in circulation, and its PIN

Usages == {"any", "pin", "mac"}
Ops == {"encrypt-pin", "translate-pin", "mac", "verify-mac"}
vaultVars == <<sealed, keys, call, calls, block>>

garbage == [i \in 1 .. 16 |-> 12]
ecbDecrypt(key, c) == IF c.under = key THEN c.clear ELSE garbage

FreshCall == [pc |-> "idle", op |-> "none"]
Nothing == [under |-> NoKey, clear |-> garbage, pin |-> Failed, format |-> "ISO0"]

VaultInit ==
    /\ sealed \in BOOLEAN
    /\ keys = [r \in Refs |-> NoKey]
    /\ call = [c \in Callers |-> FreshCall]
    /\ calls = 0 /\ block = Nothing

KeyEntry(r, sk) == [ref |-> r, key |-> sk.key, usage |-> sk.usage]

(* A call begins; seen will hold all that is stored while it runs. *)
BeginCall(c) ==
    /\ call[c].pc = "idle" /\ calls < MaxCalls
    /\ calls' = calls + 1
    /\ LET present == {KeyEntry(r, keys[r]) : r \in {x \in Refs : keys[x] # NoKey}}
       IN  \/ \E op \in {"set-key", "import-key"}, r \in Refs, k \in VaultKeys, u \in Usages :
                 /\ ~sealed => u = "any"
                 /\ call' = [call EXCEPT ![c] = [pc |-> op, op |-> op,
                                                 ref |-> r, put |-> [key |-> k, usage |-> u]]]
           \/ \E op \in Ops, r \in Refs, d \in Refs :
                 /\ op # "translate-pin" => d = r
                 /\ op = "translate-pin" => block # Nothing
                 /\ call' = [call EXCEPT ![c] = [pc |-> "lookup", op |-> op, seen |-> present,
                                                 ref |-> r, dst |-> d, src |-> NoKey, to |-> NoKey,
                                                 with |-> block]]
    /\ UNCHANGED <<sealed, keys, block>>

Returns(c) == [call EXCEPT ![c] = FreshCall]

(* UnwrapKeyBlock of an import: a block that does not authenticate ends it. *)
Unwrap(c) ==
    /\ call[c].pc = "import-key"
    /\ \/ call' = [call EXCEPT ![c].pc = "set-key"]
       \/ call' = Returns(c)
    /\ UNCHANGED <<sealed, keys, calls, block>>

(* SetKey: a sealed vault seals the key outside the lock, which can fail for  *)
(* want of a nonce; it is stored under the lock.                              *)
SetKey(c) ==
    /\ call[c].pc = "set-key"
    /\ \/ /\ keys' = [keys EXCEPT ![call[c].ref] = call[c].put]
          /\ call' = [d \in Callers |->
                        IF d = c THEN FreshCall
                        ELSE IF call[d].op \in Ops
                             THEN [call[d] EXCEPT !.seen = @ \cup {KeyEntry(call[c].ref, call[c].put)}]
                             ELSE call[d]]
       \/ sealed /\ call' = Returns(c) /\ keys' = keys
    /\ UNCHANGED <<sealed, calls, block>>

Wanted(op) == IF op \in {"mac", "verify-mac"} THEN "mac" ELSE "pin"

(* Mutated form: any key serves any operation. *)
permittedAlways(sk, op) == sk # NoKey
permitted(sk, op) == sk # NoKey /\ (sealed => sk.usage \in {"any", Wanted(op)})

(* withKey: the key is looked up under the lock and its usage compared, then  *)
(* it is opened; nested for the second key of a translation.                  *)
Lookup(c) ==
    /\ call[c].pc = "lookup"
    /\ LET sk == keys[call[c].ref]
       IN  call' = IF ~permitted(sk, call[c].op) THEN Returns(c)
                   ELSE [call EXCEPT ![c] = [@ EXCEPT !.src = sk.key,
                            !.pc = IF call[c].op = "translate-pin" THEN "second" ELSE "run"]]
    /\ UNCHANGED <<sealed, keys, calls, block>>

LookupSecond(c) ==
    /\ call[c].pc = "second"
    /\ LET sk == keys[call[c].dst]
       IN  call' = IF ~permitted(sk, call[c].op) THEN Returns(c)
                   ELSE [call EXCEPT ![c] = [@ EXCEPT !.to = sk.key, !.pc = "run"]]
    /\ UNCHANGED <<sealed, keys, calls, block>>

EncryptPINBlock(c) ==
    /\ call[c].pc = "run" /\ call[c].op = "encrypt-pin"
    /\ \E f \in Formats, pin \in Pins, rnd \in Rand :
           LET clear == EncodePINBlock(f, pin, Pan, rnd)
               done == clear # Failed
           IN  /\ call' = Returns(c)
               /\ block' = IF ~done THEN block
                           ELSE [under |-> call[c].src, clear |-> clear, pin |-> pin, format |-> f]
    /\ UNCHANGED <<sealed, keys, calls>>

TranslatePIN(c) ==
    /\ call[c].pc = "run" /\ call[c].op = "translate-pin"
    /\ \E f \in Formats, g \in Formats, rnd \in Rand :
           LET from == call[c].with
               pin == DecodePINBlock(f, ecbDecrypt(call[c].src, from), Pan)
               again == IF pin = Failed THEN Failed ELSE EncodePINBlock(g, pin, Pan, rnd)
               done == again # Failed
           IN  /\ call' = Returns(c)
               /\ block' = IF ~done THEN block
                           ELSE [under |-> call[c].to, clear |-> again, pin |-> from.pin, format |-> g]
    /\ UNCHANGED <<sealed, keys, calls>>

(* GenerateMAC and VerifyMAC. *)
RunMAC(c) ==
    /\ call[c].pc = "run" /\ call[c].op \in {"mac", "verify-mac"}
    /\ call' = Returns(c)
    /\ UNCHANGED <<sealed, keys, calls, block>>

VaultNext ==
    \E c \in Callers :
        \/ BeginCall(c) \/ Unwrap(c) \/ SetKey(c) \/ Lookup(c) \/ LookupSecond(c)
        \/ EncryptPINBlock(c) \/ TranslatePIN(c) \/ RunMAC(c)

-----------------------------------------------------------------------------
(* A PIN block that left the vault, however often it was translated between   *)
(* keys and formats, still carries the PIN that went in.                      *)
PINCarried ==
    block # Nothing => DecodePINBlock(block.format, block.clear, Pan) = block.pin

(* When a call comes to use its keys, each was stored under the reference it    *)
(* named while the call ran and with a usage that allows the operation, although *)
(* keys are replaced before, between and after its lookups.                      *)
KeyOfTheCall ==
    \A c \in Callers :
        call[c].pc = "run" =>
            LET held(r, k) == \E e \in call[c].seen :
                    e.ref = r /\ e.key = k /\ (sealed => e.usage \in {"any", Wanted(call[c].op)})
            IN  /\ held(call[c].ref, call[c].src)
                /\ call[c].op = "translate-pin" => held(call[c].dst, call[c].to)

(* Through every use, replacement and translation the vault keeps PINs and keys *)
(* apart from one another and to their purpose.                                 *)
VaultHolds == PINCarried /\ KeyOfTheCall
=============================================================================
