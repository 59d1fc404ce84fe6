------------------------------ MODULE MCMessage ------------------------------
(* What a message goes through, each on its own: a behaviour is one of the     *)
(* message object, its wire, a field path, a typed value, a schema, a framed   *)
(* link, the renderings, the cryptography, the key vault, an HSM connection or *)
(* the transaction flow. They share no state.                                  *)
EXTENDS Message, Wire, Paths, Values, Schema, Link, Render, Crypto, Vault, Hsm, Flow

CONSTANTS st1, st2, grpMain, grpMore, dupKey

\* Two stages, and a group that a stage can route back to; every run has the same key.
LoopingGroups == (grpMain :> <<st1, st2>>) @@ (grpMore :> <<st1>>)
Duplicates == [r \in Runs |-> dupKey]

\* A wire in an encoding of its own, and one whose composite does not decode.
TwoWires ==
  {[de \in DEs |-> [val |-> 1, form |-> "odd"]],
   [de \in DEs |-> IF de = "scalar" THEN Absent ELSE [val |-> 1, form |-> "bad"]]}

\* PINs of four and twelve digits, and one that is too short; a PAN; an HSM payload
\* that fills a length of one digit.
SomePins == {<<1, 2, 3, 4>>, <<9, 9, 9, 9, 9, 9, 9, 9, 9, 9, 9, 9>>, <<1, 2, 3>>}
SomePan == <<4, 1, 1, 1, 1, 1, 1, 1, 1, 1, 1, 1, 1, 9, 2, 6>>
SomePayloads == {<<1, 0, 11, 15, 3, 3, 3, 3, 3>>}

VARIABLE part

mcVars == <<part, messageVars, wireVars, pathVars, valueVars, schemaVars, linkVars, shown,
            data, vaultVars, hsmVars, flowVars>>

Parts == {"message", "wire", "path", "bind", "decimal", "luhn", "schema", "link", "render",
          "crypto", "vault", "hsm", "flow"}

MCInit ==
  /\ part \in Parts
  /\ MessageInit /\ WireInit /\ PathsInit /\ ValuesInit /\ SchemaInit /\ RenderInit
  /\ CryptoInit /\ VaultInit /\ HsmInit /\ FlowInit
  /\ LinkInit /\ (part # "link" => framer = "xml")
  /\ part # "wire" => given.rep = CHOOSE r \in reps : TRUE
  /\ part # "vault" => sealed

Others(mine) ==
  /\ UNCHANGED part
  /\ mine # "message" => UNCHANGED messageVars
  /\ mine # "wire" => UNCHANGED wireVars
  /\ mine # "path" => UNCHANGED pathVars
  /\ mine # "value" => UNCHANGED valueVars
  /\ mine # "schema" => UNCHANGED schemaVars
  /\ mine # "link" => UNCHANGED linkVars
  /\ mine # "render" => UNCHANGED shown
  /\ mine # "crypto" => UNCHANGED data
  /\ mine # "vault" => UNCHANGED vaultVars
  /\ mine # "hsm" => UNCHANGED hsmVars
  /\ mine # "flow" => UNCHANGED flowVars

MCNext ==
  \/ part = "message" /\ MessageNext /\ Others("message")
  \/ part = "wire" /\ WireNext /\ Others("wire")
  \/ part = "path" /\ PathsNext /\ Others("path")
  \/ part = "bind" /\ Declare /\ Others("value")
  \/ part = "decimal" /\ AddAmount /\ Others("value")
  \/ part = "luhn" /\ AddDigit /\ Others("value")
  \/ part = "schema" /\ SchemaNext /\ Others("schema")
  \/ part = "link" /\ LinkNext /\ Others("link")
  \/ part = "render" /\ PutField /\ Others("render")
  \/ part = "crypto" /\ Extend /\ Others("crypto")
  \/ part = "vault" /\ VaultNext /\ Others("vault")
  \/ part = "hsm" /\ HsmNext /\ Others("hsm")
  \/ part = "flow" /\ FlowNext /\ Others("flow")

MCSpec == MCInit /\ [][MCNext]_mcVars /\ FlowFairness
=============================================================================
