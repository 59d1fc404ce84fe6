---------------------------------- MODULE Kv ---------------------------------
(* What a key/value store of store/store.go promises, as its MemStore does it  *)
(* under one lock: a Put or Delete takes effect at once and for good, or, in   *)
(* an adapter, fails and has no effect.                                        *)
CONSTANTS
  KvKeys,    \* (collection, key) pairs
  Values,
  NoValue,   \* a key that is not there
  Clients

VARIABLES
  kv,        \* m.data
  asked,     \* the key and value of a client's call in progress; NoValue is a Delete
  answer     \* what a client's last call returned, and "none" while it runs

kvVars == <<kv, asked, answer>>

NoArgs == [key |-> CHOOSE k \in KvKeys : TRUE, value |-> NoValue]

KvInit ==
  /\ kv = [k \in KvKeys |-> NoValue]
  /\ asked = [c \in Clients |-> NoArgs]
  /\ answer = [c \in Clients |-> "idle"]

KvCall(c, k, v) ==
  /\ answer[c] # "none"
  /\ asked' = [asked EXCEPT ![c] = [key |-> k, value |-> v]]
  /\ answer' = [answer EXCEPT ![c] = "none"]
  /\ UNCHANGED kv

KvReturns(c, how) ==
  /\ answer[c] = "none"
  /\ asked' = [asked EXCEPT ![c] = NoArgs]
  /\ answer' = [answer EXCEPT ![c] = how]

\* Put or Delete of what the client asked for, and nothing else.
KvDoes(c) == KvReturns(c, "ok") /\ kv' = [kv EXCEPT ![asked[c].key] = asked[c].value]

KvFails(c) == KvReturns(c, "failed") /\ UNCHANGED kv

KvNext == \E c \in Clients :
  \/ KvDoes(c) \/ KvFails(c)
  \/ \E k \in KvKeys, v \in Values \cup {NoValue} : KvCall(c, k, v)

KvSafe == KvInit /\ [][KvNext]_kvVars

\* A call returns in the end.
KvSpec ==
  /\ KvSafe
  /\ \A c \in Clients : (answer[c] = "none") ~> (answer[c] # "none")
=============================================================================
