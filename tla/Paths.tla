-------------------------------- MODULE Paths --------------------------------
(* Field paths: ParsePath and its bounded cache (iso8583/path.go). A text is a *)
(* sequence of elements, an element a sequence of characters, their codes.     *)
EXTENDS Codecs, FiniteSets, TLC
LOCAL INSTANCE SequencesExt

CONSTANTS
  Parsers,       \* goroutines that call ParsePath
  CacheLimit,    \* pathCache.limit: 512 in the code
  MaxPathDepth,  \* maxPathDepth: 6 in the code
  MaxIndex,      \* the largest number an element can be: 2^31 - 1 in the code
  NoText         \* an empty place of the ring

VARIABLES
  memo,     \* pathCache.m
  ring, next,
  parser    \* per goroutine: where it is, its text and what it has found

pathVars == <<memo, ring, next, parser>>

BadPath == <<>>
Num(n) == [n |-> n, tag |-> <<>>]
TagElem(t) == [n |-> -1, tag |-> t]

hexLetter(c) == c \in 65..70 \cup 97..102
toUpper(seg) == [i \in DOMAIN seg |-> IF seg[i] >= 97 THEN seg[i] - 32 ELSE seg[i]]

parseElem(seg) ==
  CASE \E i \in DOMAIN seg : seg[i] \notin 48..57 /\ ~hexLetter(seg[i]) -> BadPath
    [] \E i \in DOMAIN seg : hexLetter(seg[i]) -> TagElem(toUpper(seg))
    [] atoiDigits(seg).ok -> IF atoiDigits(seg).val > MaxIndex THEN BadPath ELSE Num(atoiDigits(seg).val)

parsePathUncached(s) ==
  IF \/ s = <<>> \/ Len(s) > MaxPathDepth
     \/ \E i \in DOMAIN s : s[i] = <<>> \/ parseElem(s[i]) = BadPath
  THEN BadPath
  ELSE [i \in DOMAIN s |-> parseElem(s[i])]

\* FieldPath.String
PathString(p) ==
  [i \in DOMAIN p |-> IF p[i].tag # <<>> THEN p[i].tag ELSE itoa(p[i].n)]

PathsInit ==
  /\ memo = <<>> /\ ring = [i \in 1..CacheLimit |-> NoText] /\ next = 1
  /\ parser = [g \in Parsers |-> [pc |-> "idle"]]

\* Texts: "2" and "02", "55.9A" and "55.9a"; and "2.", "x", one too large, one too deep.
Texts ==
  {<<<<50>>>>, <<<<48, 50>>>>, <<<<53, 53>>, <<57, 65>>>>, <<<<53, 53>>, <<57, 97>>>>,
   <<<<50>>, <<>>>>, <<<<120>>>>, <<itoa(MaxIndex + 1)>>, [i \in 1..(MaxPathDepth + 1) |-> <<49>>]}

\* ParsePath: the lookup, under the lock.
cacheLookup(g, s) ==
  /\ parser[g].pc = "idle"
  /\ parser' = [parser EXCEPT ![g] = IF s \in DOMAIN memo THEN [pc |-> "returned", s |-> s, p |-> memo[s]]
                                     ELSE [pc |-> "parse", s |-> s]]
  /\ UNCHANGED <<memo, ring, next>>

Parse(g) ==
  LET p == parsePathUncached(parser[g].s)
  IN /\ parser[g].pc = "parse"
     /\ parser' = [parser EXCEPT ![g] = [pc |-> IF p = BadPath THEN "returned" ELSE "store", s |-> @.s, p |-> p]]
     /\ UNCHANGED <<memo, ring, next>>

\* Mutated form: a text that another goroutine has stored meanwhile is stored again.
cacheStoreAgain(g) ==
  LET s == parser[g].s
      old == ring[next]
      kept == IF Cardinality(DOMAIN memo) >= CacheLimit /\ old # NoText THEN DOMAIN memo \ {old} ELSE DOMAIN memo
  IN /\ parser[g].pc = "store"
     /\ memo' = (s :> parser[g].p) @@ [t \in kept |-> memo[t]]
     /\ ring' = [ring EXCEPT ![next] = s] /\ next' = (next % CacheLimit) + 1
     /\ parser' = [parser EXCEPT ![g].pc = "returned"]

\* cacheStore, under the lock: the oldest text makes room.
cacheStore(g) ==
  LET s == parser[g].s
      old == ring[next]
      kept == IF Cardinality(DOMAIN memo) >= CacheLimit /\ old # NoText THEN DOMAIN memo \ {old} ELSE DOMAIN memo
  IN /\ parser[g].pc = "store"
     /\ IF s \in DOMAIN memo THEN UNCHANGED <<memo, ring, next>>
        ELSE /\ memo' = (s :> parser[g].p) @@ [t \in kept |-> memo[t]]
             /\ ring' = [ring EXCEPT ![next] = s] /\ next' = (next % CacheLimit) + 1
     /\ parser' = [parser EXCEPT ![g].pc = "returned"]

\* The caller goes on.
Returned(g) == /\ parser[g].pc = "returned" /\ parser' = [parser EXCEPT ![g] = [pc |-> "idle"]]
               /\ UNCHANGED <<memo, ring, next>>

PathsNext == \E g \in Parsers : (\E s \in Texts : cacheLookup(g, s)) \/ Parse(g) \/ cacheStore(g) \/ Returned(g)

-----------------------------------------------------------------------------
\* However callers race for the same text, the cache stays within its limit and knows
\* how to empty itself: every text in it has one place in the ring.
CacheBounded ==
  /\ Cardinality(DOMAIN memo) <= CacheLimit
  /\ \A s \in DOMAIN memo : Cardinality({i \in DOMAIN ring : ring[i] = s}) = 1

\* Texts that differ in the case of a tag or in leading zeros.
SpeltAlike(s, t) ==
  Len(s) = Len(t) /\ \A i \in DOMAIN s :
    toUpper(s[i]) = toUpper(t[i])
      \/ (atoiDigits(s[i]).ok /\ atoiDigits(t[i]).ok /\ atoiDigits(s[i]).val = atoiDigits(t[i]).val)

\* ParsePath returns what the text says, from the cache or not: texts that differ in
\* the case of a tag or in leading zeros give one path, though the cache tells them
\* apart, and the text that a path prints as leads back to it.
ParseTells == \A g \in Parsers : parser[g].pc = "returned" =>
  /\ \A t \in Texts : SpeltAlike(parser[g].s, t) => parser[g].p = parsePathUncached(t)
  /\ parser[g].p # BadPath => parsePathUncached(PathString(parser[g].p)) = parser[g].p

\* The cache of ParsePath is invisible to its callers and bounded.
CacheTells == CacheBounded /\ ParseTells
=============================================================================
