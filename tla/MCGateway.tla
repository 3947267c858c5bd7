----------------------------- MODULE MCGateway -----------------------------
(* Gateway on small instances: two principals, a rotation of the identity  *)
(* provider's key, a token nobody signed.                                  *)
EXTENDS Gateway

CONSTANTS t1, t2, t3, d1, d2, b1, b2, b3

MCDelegOf == [t \in Tokens |-> IF t = t1 THEN d1 ELSE d2]
MCKidOf == [t \in Tokens |-> IF t = t1 THEN "k1" ELSE "k2"]

(* b1 knows the first key only, b2 both, b3 is not properly signed.        *)
MCKeysOf == [b \in Bundles |-> IF b = b1 THEN {"k1"} ELSE {"k1", "k2"}]
=============================================================================
