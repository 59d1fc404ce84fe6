------------------------------- MODULE MCMux -------------------------------
(* Model-checking instances of Mux: three requests, of which two share a key. *)
EXTENDS Mux, TLC

CONSTANTS r1, r2, r3, k1, k2

MCReqs == {r1, r2, r3}
MCKeyOf == r1 :> k1 @@ r2 :> k1 @@ r3 :> k2

\* ... and one whose keyer fails.
MCKeyOfFails == r1 :> k1 @@ r2 :> k1 @@ r3 :> NoKey
==============================================================================
