----------------------------- MODULE MCUntyped ------------------------------
(* Instance of Untyped for TLC: sizes are scaled down, a page is 4 units. *)
EXTENDS Untyped, TLC

RamAt(paddr, b) == [type |-> "Untyped", paddr |-> paddr, bits |-> b,
                    device |-> FALSE, arg |-> 0]
DeviceAt(paddr, b) == [RamAt(paddr, b) EXCEPT !.device = TRUE]

RamAndDevice == 1 :> RamAt(8, 3) @@ 2 :> DeviceAt(4, 2)

MCBytes == [b \in 0 .. MAX_BITS |-> 2 ^ b]
=============================================================================
