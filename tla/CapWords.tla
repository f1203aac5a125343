------------------------------ MODULE CapWords -------------------------------
(***************************************************************************)
(* A capability as it is stored: the two argument words of CapRaw          *)
(* (kernel/src/objects/mod.rs) and the fields that frame.rs, vspace.rs,    *)
(* untyped.rs and cnode.rs pack into them, with every function that makes, *)
(* reads or changes one.  The rights and the address are words of their    *)
(* own that no setter touches; module VSpace uses them.                    *)
(*                                                                         *)
(* A field is a pair of powers of two: the unit of its lowest bit and its  *)
(* range.  Offsets are below 2^58 (no memory is that large), so that no    *)
(* shift loses bits of a word.                                             *)
(***************************************************************************)
EXTENDS Integers

CONSTANTS
    Asids,       \* the ASIDs used; 0 stands for none
    Vaddrs,      \* virtual addresses
    Offsets,     \* free offsets of an Untyped
    UntypedBits, \* sizes of an Untyped
    CNodeBits,   \* the radix and guard widths a caller of mint gives
    Guards,      \* guards
    CNODE_DEPTH

ASSUME WordAssumption ==
    /\ Asids \subseteq Nat \ {0} /\ \A a \in Asids : a < 65536
    /\ Vaddrs \subseteq Nat /\ Offsets \subseteq Nat /\ Guards \subseteq Nat
    /\ UntypedBits \subseteq 0 .. 63 /\ CNodeBits \subseteq 0 .. 64
    /\ CNODE_DEPTH \in Nat

VARIABLES
    raw,      \* the CapRaw of a slot
    panicked  \* the assertion of CNodeCap::mint failed

wordVars == <<raw, panicked>>

\* The bits of word w that hold a field, shifted down: (w >> offset) & mask.
get(w, field) == (w \div field[1]) % field[2]

\* w with them replaced by x: w & !(mask << offset) | x << offset.
put(w, field, x) == w - get(w, field) * field[1] + x * field[1]

\* FrameCap, arg1.
SIZE_BITS == <<1, 64>>
IS_DEVICE == <<64, 2>>
CACHE_POLICY == <<128, 8>>
MAPPED_ASID == <<1024, 65536>>

\* VSpaceCap, arg1.
ASID == <<1, 65536>>
IS_ACTIVE == <<65536, 2>>

\* CNodeCap, arg1: the guard width below the radix.
GUARD == <<1, 64>>
RADIX == <<64, 64>>

\* Untyped, arg2: the size, and above it the free offset.
BIT_SIZE == <<1, 64>>
FREE_UNIT == 64

FrameSize == {12, 21, 30}
Policy == 0 .. 3        \* WriteBack, WriteThrough, Uncacheable, WriteCombining
WriteBack == 0
Uncacheable == 2
Types == {"NullObj", "Frame", "VSpace", "Untyped", "CNode"}
Bool(b) == IF b THEN 1 ELSE 0

CapRaw(type, arg1, arg2) == [type |-> type, arg1 |-> arg1, arg2 |-> arg2]
Null == CapRaw("NullObj", 0, 0)

(***************************************************************************)
(* The getters.                                                            *)
(***************************************************************************)
\* FrameCap::size: unknown sizes read as Small.
size(r) == LET b == get(r.arg1, SIZE_BITS) IN IF b \in FrameSize THEN b ELSE 12
is_device(r) == get(r.arg1, IS_DEVICE) # 0
\* FrameCap::cache_policy: unknown policies read as WriteBack.
cache_policy(r) == LET c == get(r.arg1, CACHE_POLICY)
                   IN  IF c \in Policy THEN c ELSE WriteBack
mapped_asid(r) == get(r.arg1, MAPPED_ASID)
mapped_vaddr(r) == r.arg2
is_mapped(r) == mapped_asid(r) # 0

asid(r) == get(r.arg1, ASID)
is_active(r) == get(r.arg1, IS_ACTIVE) # 0

bit_size(r) == get(r.arg2, BIT_SIZE)
free_offset(r) == r.arg2 \div FREE_UNIT
untyped_is_device(r) == r.arg1 # 0

guard_bits(r) == get(r.arg1, GUARD)
radix_bits(r) == get(r.arg1, RADIX)
guard(r) == r.arg2

(***************************************************************************)
(* The functions that make a capability, into a null slot.                 *)
(***************************************************************************)
FrameWord(bits, device, cache) ==
    bits * SIZE_BITS[1] + Bool(device) * IS_DEVICE[1] + cache * CACHE_POLICY[1]

\* NullCap::insert: r goes into a slot that is null.
Insert(r) == raw = Null /\ raw' = r /\ UNCHANGED panicked

MintFrame(bits, device) ==
    Insert(CapRaw("Frame",
                  FrameWord(bits, device,
                            IF device THEN Uncacheable ELSE WriteBack), 0))

MintFrameWithCache(bits, device, cache) ==
    Insert(CapRaw("Frame", FrameWord(bits, device, cache), 0))

MintVSpace(a) == Insert(CapRaw("VSpace", a * ASID[1], 0))

MintUntyped(bits, device) ==
    Insert(CapRaw("Untyped", Bool(device), bits % BIT_SIZE[2]))

\* CNodeCap::mint takes the widths modulo their range and asserts their sum.
MintCNode(radix, gbits, g) ==
    LET guard_sz == gbits % GUARD[2]
        radix_sz == radix % RADIX[2]
    IN  IF radix_sz + guard_sz <= CNODE_DEPTH
        THEN Insert(CapRaw("CNode", guard_sz * GUARD[1] + radix_sz * RADIX[1], g))
        ELSE raw = Null /\ panicked' = TRUE /\ UNCHANGED raw

(***************************************************************************)
(* The setters.                                                            *)
(***************************************************************************)
Update(type, r) == raw.type = type /\ raw' = r /\ UNCHANGED panicked

SetCachePolicy(c) ==
    Update("Frame", [raw EXCEPT !.arg1 = put(@, CACHE_POLICY, c)])

\* set_mapped, which refuses a frame that is mapped.
SetMapped(a, v) ==
    /\ ~ is_mapped(raw)
    /\ Update("Frame", CapRaw("Frame", put(raw.arg1, MAPPED_ASID, a), v))

\* A clear_mapped whose mask reaches into the cache policy.
ClearMappedWide ==
    Update("Frame", CapRaw("Frame", put(raw.arg1, <<256, 262144>>, 0), 0))

ClearMapped ==
    Update("Frame", CapRaw("Frame", put(raw.arg1, MAPPED_ASID, 0), 0))

SetActive(b) ==
    Update("VSpace", [raw EXCEPT !.arg1 = put(@, IS_ACTIVE, Bool(b))])

SetFreeOffset(o) ==
    Update("Untyped",
           [raw EXCEPT !.arg2 = get(@, BIT_SIZE) + o * FREE_UNIT])

\* CNodeEntry::revoke erases the entry.
Erase == raw' = Null /\ UNCHANGED panicked

WordsInit == raw = Null /\ panicked = FALSE

WordsNext ==
    /\ ~ panicked
    /\ \/ \E b \in FrameSize, d \in BOOLEAN : MintFrame(b, d)
       \/ \E b \in FrameSize, d \in BOOLEAN, c \in Policy :
             MintFrameWithCache(b, d, c)
       \/ \E a \in Asids : MintVSpace(a)
       \/ \E b \in UntypedBits, d \in BOOLEAN : MintUntyped(b, d)
       \/ \E r, n \in CNodeBits, g \in Guards : MintCNode(r, n, g)
       \/ \E c \in Policy : SetCachePolicy(c)
       \/ \E a \in Asids, v \in Vaddrs : SetMapped(a, v)
       \/ ClearMapped
       \/ \E b \in BOOLEAN : SetActive(b)
       \/ \E o \in Offsets : SetFreeOffset(o)
       \/ Erase

WordsSpec == WordsInit /\ [][WordsNext]_wordVars

(***************************************************************************)
(* Properties.                                                             *)
(***************************************************************************)
TypeOK == /\ raw \in [type : Types, arg1 : Nat, arg2 : Nat]
          /\ panicked \in BOOLEAN

\* The fields a capability stands for, as its getters read them.
Decode(r) ==
    CASE r.type = "Frame" ->
            [type |-> "Frame", bits |-> size(r), device |-> is_device(r),
             cache |-> cache_policy(r),
             mapping |-> <<mapped_asid(r), mapped_vaddr(r)>>]
      [] r.type = "VSpace" ->
            [type |-> "VSpace", asid |-> asid(r), active |-> is_active(r)]
      [] r.type = "Untyped" ->
            [type |-> "Untyped", bits |-> bit_size(r),
             device |-> untyped_is_device(r), offset |-> free_offset(r)]
      [] r.type = "CNode" ->
            [type |-> "CNode", radix |-> radix_bits(r),
             guard_bits |-> guard_bits(r), guard |-> guard(r)]
      [] OTHER -> [type |-> "NullObj"]

F == INSTANCE CapFields WITH
        FrameBits <- FrameSize, CachePolicy <- Policy, Asid <- Asids,
        Vaddr <- Vaddrs, Offset <- Offsets, Bits <- 0 .. 63, Guard <- Guards,
        Unmapped <- <<0, 0>>, fields <- Decode(raw)

\* The words implement a record of fields: a setter changes what its getter
\* reads and nothing else, whatever was set before, and a frame is recorded
\* as mapped once at a time (set_cache_policy, set_mapped, clear_mapped,
\* set_active, set_free_offset and the mint functions).
KeepsFields == F!FieldsSpec
=============================================================================
