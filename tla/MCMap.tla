------------------------------- MODULE MCMap -------------------------------
(***************************************************************************)
(* Hash values for small maps.  With four buckets (modulus 3) the keys a,  *)
(* b and c start at the same bucket; a and c have the same hash value, the *)
(* one that the code substitutes for the two reserved ones; d and e start  *)
(* elsewhere.                                                              *)
(***************************************************************************)
EXTENDS Map

StringHash ==
  [k \in {"a", "b", "c", "d", "e"} |->
     CASE k = "a" -> 2 [] k = "b" -> 5 [] k = "c" -> 0
       [] k = "d" -> 3 [] k = "e" -> 10]

\* Each key has a value of its own, one of them two.
StringValues == [k \in DOMAIN StringHash |-> IF k = "a" THEN {"a", "A"} ELSE {k}]
=============================================================================
