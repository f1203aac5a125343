------------------------------ MODULE CapFields ------------------------------
(***************************************************************************)
(* What a capability records, without words and bits: for each type the    *)
(* fields it has.  A setter changes its own field and no other.            *)
(***************************************************************************)
EXTENDS Naturals

CONSTANTS
    FrameBits, CachePolicy, Asid, Vaddr, Offset, Bits, Guard,
    CNODE_DEPTH, Unmapped

VARIABLE fields

NullFields == [type |-> "NullObj"]

FrameFields(bits, device, cache, mapping) ==
    [type |-> "Frame", bits |-> bits, device |-> device, cache |-> cache,
     mapping |-> mapping]
VSpaceFields(asid, active) ==
    [type |-> "VSpace", asid |-> asid, active |-> active]
UntypedFields(bits, device, offset) ==
    [type |-> "Untyped", bits |-> bits, device |-> device, offset |-> offset]
CNodeFields(radix, guard_bits, guard) ==
    [type |-> "CNode", radix |-> radix, guard_bits |-> guard_bits,
     guard |-> guard]

\* A new capability goes into a null slot.
Create ==
    /\ fields = NullFields
    /\ \/ \E b \in FrameBits, d \in BOOLEAN, c \in CachePolicy :
             fields' = FrameFields(b, d, c, Unmapped)
       \/ \E a \in Asid : fields' = VSpaceFields(a, FALSE)
       \/ \E b \in Bits, d \in BOOLEAN : fields' = UntypedFields(b, d, 0)
       \/ \E r, g \in Bits, guard \in Guard :
             r + g <= CNODE_DEPTH /\ fields' = CNodeFields(r, g, guard)

SetCache == /\ fields.type = "Frame"
            /\ \E c \in CachePolicy : fields' = [fields EXCEPT !.cache = c]

\* A frame is recorded as mapped at one address of one space at a time.
Map == /\ fields.type = "Frame" /\ fields.mapping = Unmapped
       /\ \E a \in Asid, v \in Vaddr : fields' = [fields EXCEPT !.mapping = <<a, v>>]

Unmap == fields.type = "Frame" /\ fields' = [fields EXCEPT !.mapping = Unmapped]

SetActive == /\ fields.type = "VSpace"
             /\ \E b \in BOOLEAN : fields' = [fields EXCEPT !.active = b]

SetOffset == /\ fields.type = "Untyped"
             /\ \E o \in Offset : fields' = [fields EXCEPT !.offset = o]

Delete == fields' = NullFields

FieldsInit == fields = NullFields

FieldsNext == Create \/ SetCache \/ Map \/ Unmap \/ SetActive \/ SetOffset \/ Delete

FieldsSpec == FieldsInit /\ [][FieldsNext]_fields
=============================================================================
