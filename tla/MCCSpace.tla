------------------------------ MODULE MCCSpace ------------------------------
(* Instance of CSpace for TLC. *)
EXTENDS CSpace, TLC
CONSTANTS a, b

Mixed == a :> 1 @@ b :> 0

\* No guard; guards of one and of two bits; one that does not fit its width.
Guards == {<<0, 0>>, <<1, 1>>, <<2, 1>>, <<1, 2>>}

AtA == [node : {a}, guard : Guard]
=============================================================================
