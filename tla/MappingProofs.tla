---------------------------- MODULE MappingProofs -----------------------------
(***************************************************************************)
(* Proofs about mapped memory: the words that record a mapping, and the    *)
(* tables that make it.                                                    *)
(*                                                                         *)
(* CapWords: the words of a capability implement a record of fields, for   *)
(* all ASIDs, addresses, offsets, sizes and guards.  The invariant says    *)
(* that a word is a sum of fields, each in its range (Packed); the getters *)
(* then read the summands back (DecodeFrame, ...), and a setter replaces   *)
(* one of them (PutCache, PutMapped).                                      *)
(*                                                                         *)
(* VSpace, for any number of tables, any fan-out and any frame             *)
(* capabilities: the TLB agrees with the tables, and the tables implement  *)
(* a map of regions.                                                       *)
(***************************************************************************)
EXTENDS CapWords, VSpace, TLAPS

(***************************************************************************)
(* The words of a capability.                                              *)
(***************************************************************************)
\* The ranges of the fields.
Bit == {0, 1}
Bits6 == 0 .. 63
MaybeAsid == Asids \cup {0}
MaybeVaddr == Vaddrs \cup {0}
Offset0 == Offsets \cup {0}

\* The words with the given fields, and the capabilities with these words.
FrameArg(b, d, c, a) == b + 64 * d + 128 * c + 1024 * a
VSpaceArg(a, on) == a + 65536 * on
Low6(b, o) == b + 64 * o

FrameRaw(b, d, c, a, v) == CapRaw("Frame", FrameArg(b, d, c, a), v)
VSpaceCap(a, on) == CapRaw("VSpace", VSpaceArg(a, on), 0)
UntypedCap(b, d, o) == CapRaw("Untyped", d, Low6(b, o))
CNodeCap(r, n, g) == CapRaw("CNode", Low6(n, r), g)

IsFrame == \E b \in FrameSize, d \in Bit, c \in Policy :
           \E a \in MaybeAsid, v \in MaybeVaddr :
               raw = FrameRaw(b, d, c, a, v) /\ (a = 0 => v = 0)
IsVSpace == \E a \in Asids, on \in Bit : raw = VSpaceCap(a, on)
IsUntyped == \E b \in Bits6, d \in Bit, o \in Offset0 :
                 raw = UntypedCap(b, d, o)
IsCNode == \E r \in Bits6, n \in Bits6, g \in Guards :
               r + n <= CNODE_DEPTH /\ raw = CNodeCap(r, n, g)

Packed == raw = Null \/ IsFrame \/ IsVSpace \/ IsUntyped \/ IsCNode

(***************************************************************************)
(* The arithmetic of the fields.                                           *)
(***************************************************************************)
FrameRange(b, d, c, a) ==
    /\ b \in Nat /\ d \in Nat /\ c \in Nat /\ a \in Nat
    /\ b < 64 /\ d < 2 /\ c < 8 /\ a < 65536

\* Each getter of arg1 of a frame reads its summand, each setter replaces it.
LEMMA FrameArith ==
    ASSUME NEW b, NEW d, NEW c, NEW a, FrameRange(b, d, c, a)
    PROVE  /\ FrameArg(b, d, c, a) \in Nat
           /\ get(FrameArg(b, d, c, a), SIZE_BITS) = b
           /\ get(FrameArg(b, d, c, a), IS_DEVICE) = d
           /\ get(FrameArg(b, d, c, a), CACHE_POLICY) = c
           /\ get(FrameArg(b, d, c, a), MAPPED_ASID) = a
           /\ \A x \in Nat :
                 put(FrameArg(b, d, c, a), CACHE_POLICY, x) = FrameArg(b, d, x, a)
           /\ \A x \in Nat :
                 put(FrameArg(b, d, c, a), MAPPED_ASID, x) = FrameArg(b, d, c, x)
<1> DEFINE w == FrameArg(b, d, c, a)
<1>0. w = b + 64 * d + 128 * c + 1024 * a
  BY Zenon DEF FrameArg
<1> HIDE DEF w
<1>1. w \in Nat /\ w \div 1 = w /\ w % 64 = b
  BY <1>0, SMT DEF FrameRange
<1>2. w \div 64 = d + 2 * c + 16 * a /\ (d + 2 * c + 16 * a) % 2 = d
  BY <1>0, SMT DEF FrameRange
<1>3. w \div 128 = c + 8 * a /\ (c + 8 * a) % 8 = c
  BY <1>0, SMT DEF FrameRange
<1>4. w \div 1024 = a /\ a % 65536 = a
  BY <1>0, SMT DEF FrameRange
<1>5. get(w, SIZE_BITS) = b
  BY ONLY <1>1, SMT DEF get, SIZE_BITS
<1>6. get(w, IS_DEVICE) = d
  BY ONLY <1>2, SMT DEF get, IS_DEVICE
<1>7. get(w, CACHE_POLICY) = c
  BY ONLY <1>3, SMT DEF get, CACHE_POLICY
<1>8. get(w, MAPPED_ASID) = a
  BY ONLY <1>4, SMT DEF get, MAPPED_ASID
<1>9. ASSUME NEW x \in Nat
      PROVE  put(w, CACHE_POLICY, x) = FrameArg(b, d, x, a)
  BY <1>0, <1>7, SMT DEF put, CACHE_POLICY, FrameArg, FrameRange
<1>10. ASSUME NEW x \in Nat
       PROVE  put(w, MAPPED_ASID, x) = FrameArg(b, d, c, x)
  BY <1>0, <1>8, SMT DEF put, MAPPED_ASID, FrameArg, FrameRange
<1> QED BY <1>1, <1>5, <1>6, <1>7, <1>8, <1>9, <1>10, SMT DEF w

\* The getters and the setter of arg1 of a VSpace.
LEMMA VSpaceArith ==
    ASSUME NEW a \in Nat, NEW on \in Nat, a < 65536, on < 2
    PROVE  /\ VSpaceArg(a, on) \in Nat
           /\ get(VSpaceArg(a, on), ASID) = a
           /\ get(VSpaceArg(a, on), IS_ACTIVE) = on
           /\ \A x \in Nat : put(VSpaceArg(a, on), IS_ACTIVE, x) = VSpaceArg(a, x)
<1> DEFINE w == VSpaceArg(a, on)
<1>0. w = a + 65536 * on
  BY DEF VSpaceArg
<1> HIDE DEF w
<1>1. w \in Nat /\ w \div 1 = w /\ w % 65536 = a
  BY <1>0, SMT
<1>2. w \div 65536 = on /\ on % 2 = on
  BY <1>0, SMT
<1>3. get(w, ASID) = a
  BY ONLY <1>1, SMT DEF get, ASID
<1>4. get(w, IS_ACTIVE) = on
  BY ONLY <1>2, SMT DEF get, IS_ACTIVE
<1>5. ASSUME NEW x \in Nat
      PROVE  put(w, IS_ACTIVE, x) = VSpaceArg(a, x)
  BY <1>0, <1>4, SMT DEF put, IS_ACTIVE, VSpaceArg
<1> QED BY <1>1, <1>3, <1>4, <1>5, SMT DEF w

\* The low field of six bits, and what is above it.
LEMMA LowArith ==
    ASSUME NEW b \in Nat, NEW o \in Nat, b < 64
    PROVE  /\ Low6(b, o) \in Nat
           /\ get(Low6(b, o), BIT_SIZE) = b
           /\ get(Low6(b, o), GUARD) = b
           /\ Low6(b, o) \div FREE_UNIT = o
           /\ o < 64 => get(Low6(b, o), RADIX) = o
<1> DEFINE w == Low6(b, o)
<1>0. w = b + 64 * o
  BY Zenon DEF Low6
<1> HIDE DEF w
<1>1. w \in Nat /\ w \div 1 = w /\ w % 64 = b /\ w \div 64 = o
  BY <1>0, SMT
<1>2. o < 64 => o % 64 = o
  BY SMT
<1>3. get(w, BIT_SIZE) = b /\ get(w, GUARD) = b /\ w \div FREE_UNIT = o
  BY ONLY <1>1, SMT DEF get, BIT_SIZE, FREE_UNIT, GUARD
<1>4. o < 64 => get(w, RADIX) = o
  BY ONLY <1>1, <1>2, SMT DEF get, RADIX
<1> QED BY <1>1, <1>3, <1>4, SMT DEF w

(***************************************************************************)
(* What the getters read of a capability.                                  *)
(***************************************************************************)
\* The values the fields start with are in their ranges.
LEMMA Ranges ==
    /\ 0 \in Bit /\ 0 \in MaybeAsid /\ 0 \in MaybeVaddr /\ 0 \in Offset0
    /\ Asids \subseteq MaybeAsid /\ Vaddrs \subseteq MaybeVaddr
    /\ Offsets \subseteq Offset0
    /\ \A d \in BOOLEAN : Bool(d) \in Bit /\ (Bool(d) # 0) = d
  BY DEF Bit, MaybeAsid, MaybeVaddr, Offset0, Bool

\* The fields of a frame are in range.
LEMMA InFrame ==
    ASSUME NEW b \in FrameSize, NEW d \in Bit, NEW c \in Policy,
           NEW a \in MaybeAsid
    PROVE  FrameRange(b, d, c, a)
  BY WordAssumption, SMT DEF FrameSize, Policy, Bit, MaybeAsid, FrameRange

\* The getters of a frame.
LEMMA DecodeFrame ==
    ASSUME NEW b \in FrameSize, NEW d \in Bit, NEW c \in Policy,
           NEW a \in MaybeAsid, NEW v
    PROVE  Decode(FrameRaw(b, d, c, a, v)) = F!FrameFields(b, d # 0, c, <<a, v>>)
<1> DEFINE r == FrameRaw(b, d, c, a, v)
           w == FrameArg(b, d, c, a)
<1>1. FrameRange(b, d, c, a)
  BY InFrame, Zenon
<1>2. /\ get(w, SIZE_BITS) = b /\ get(w, IS_DEVICE) = d
      /\ get(w, CACHE_POLICY) = c /\ get(w, MAPPED_ASID) = a
  BY ONLY <1>1, FrameArith
<1>3. r.type = "Frame" /\ r.arg1 = w /\ r.arg2 = v
  BY Zenon DEF FrameRaw, CapRaw
<1>4. /\ size(r) = b /\ is_device(r) = (d # 0) /\ cache_policy(r) = c
      /\ mapped_asid(r) = a /\ mapped_vaddr(r) = v
  BY <1>2, <1>3, Zenon DEF size, is_device, cache_policy, mapped_asid, mapped_vaddr
<1>5. Decode(r) = F!FrameFields(b, d # 0, c, <<a, v>>)
  BY <1>3, <1>4, Zenon DEF Decode, F!FrameFields
<1> QED BY <1>4, <1>5, Zenon

\* mapped_asid of a frame.
LEMMA GetMapped ==
    ASSUME NEW b \in FrameSize, NEW d \in Bit, NEW c \in Policy,
           NEW a \in MaybeAsid, NEW v, NEW r, r = FrameRaw(b, d, c, a, v)
    PROVE  mapped_asid(r) = a
<1>1. FrameRange(b, d, c, a)
  BY InFrame, Zenon
<1>2. get(FrameArg(b, d, c, a), MAPPED_ASID) = a
  BY ONLY <1>1, FrameArith
<1> QED BY <1>2, Zenon DEF FrameRaw, CapRaw, mapped_asid

\* set_cache_policy on a frame.
LEMMA PutCache ==
    ASSUME NEW b \in FrameSize, NEW d \in Bit, NEW c \in Policy,
           NEW a \in MaybeAsid, NEW v, NEW x \in Policy,
           NEW r, r = FrameRaw(b, d, c, a, v)
    PROVE  [r EXCEPT !.arg1 = put(@, CACHE_POLICY, x)] = FrameRaw(b, d, x, a, v)
<1>1. FrameRange(b, d, c, a)
  BY InFrame, Zenon
<1>2. \A y \in Nat : put(FrameArg(b, d, c, a), CACHE_POLICY, y) = FrameArg(b, d, y, a)
  BY ONLY <1>1, FrameArith
<1>3. x \in Nat
  BY DEF Policy
<1> QED BY <1>2, <1>3 DEF FrameRaw, CapRaw

\* set_mapped and clear_mapped on a frame.
LEMMA PutMapped ==
    ASSUME NEW b \in FrameSize, NEW d \in Bit, NEW c \in Policy,
           NEW a \in MaybeAsid, NEW v, NEW x \in MaybeAsid, NEW y,
           NEW r, r = FrameRaw(b, d, c, a, v)
    PROVE  CapRaw("Frame", put(r.arg1, MAPPED_ASID, x), y) = FrameRaw(b, d, c, x, y)
<1>1. FrameRange(b, d, c, a)
  BY InFrame, Zenon
<1>2. \A z \in Nat : put(FrameArg(b, d, c, a), MAPPED_ASID, z) = FrameArg(b, d, c, z)
  BY ONLY <1>1, FrameArith
<1>3. x \in Nat
  BY WordAssumption DEF MaybeAsid
<1>4. r.arg1 = FrameArg(b, d, c, a)
  BY Zenon DEF FrameRaw, CapRaw
<1> QED BY <1>2, <1>3, <1>4, Zenon DEF FrameRaw

\* The getters and the setter of a VSpace.
LEMMA DecodeVSpace ==
    ASSUME NEW a \in Asids, NEW on \in Bit
    PROVE  /\ Decode(VSpaceCap(a, on)) = F!VSpaceFields(a, on # 0)
           /\ VSpaceCap(a, on).type = "VSpace"
           /\ \A x \in Bit :
                 [VSpaceCap(a, on) EXCEPT !.arg1 = put(@, IS_ACTIVE, x)]
                    = VSpaceCap(a, x)
<1> DEFINE r == VSpaceCap(a, on)
           w == VSpaceArg(a, on)
<1>1. a \in Nat /\ on \in Nat /\ a < 65536 /\ on < 2
  BY WordAssumption, SMT DEF Bit
<1>2. /\ get(w, ASID) = a /\ get(w, IS_ACTIVE) = on
      /\ \A x \in Nat : put(w, IS_ACTIVE, x) = VSpaceArg(a, x)
  BY <1>1, VSpaceArith, SMT
<1>3. r.type = "VSpace" /\ r.arg1 = w
  BY Zenon DEF VSpaceCap, CapRaw
<1>4. asid(r) = a /\ is_active(r) = (on # 0)
  BY <1>2, <1>3, Zenon DEF asid, is_active
<1>5. Decode(r) = F!VSpaceFields(a, on # 0)
  BY <1>3, <1>4, Zenon DEF Decode, F!VSpaceFields
<1>6. ASSUME NEW x \in Bit
      PROVE  [r EXCEPT !.arg1 = put(@, IS_ACTIVE, x)] = VSpaceCap(a, x)
  BY <1>2 DEF VSpaceCap, CapRaw, Bit
<1> QED BY <1>3, <1>5, <1>6, Zenon

\* The getters and the setter of an Untyped.
LEMMA DecodeUntyped ==
    ASSUME NEW b \in Bits6, NEW d \in Bit, NEW o \in Offset0,
           NEW r, r = UntypedCap(b, d, o)
    PROVE  /\ Decode(r) = F!UntypedFields(b, d # 0, o)
           /\ \A x \in Offsets :
                 [r EXCEPT !.arg2 = get(@, BIT_SIZE) + x * FREE_UNIT]
                    = UntypedCap(b, d, x)
<1> DEFINE w == Low6(b, o)
<1>1. b \in Nat /\ o \in Nat /\ b < 64
  BY WordAssumption, SMT DEF Bits6, Offset0
<1>2. get(w, BIT_SIZE) = b /\ w \div FREE_UNIT = o
  BY <1>1, LowArith, SMT
<1>3. r.type = "Untyped" /\ r.arg1 = d /\ r.arg2 = w
  BY Zenon DEF UntypedCap, CapRaw
<1>4. bit_size(r) = b /\ free_offset(r) = o /\ untyped_is_device(r) = (d # 0)
  BY <1>2, <1>3, Zenon DEF bit_size, free_offset, untyped_is_device
<1>5. Decode(r) = F!UntypedFields(b, d # 0, o)
  BY <1>3, <1>4, Zenon DEF Decode, F!UntypedFields
<1>6. ASSUME NEW x \in Offsets
      PROVE  [r EXCEPT !.arg2 = get(@, BIT_SIZE) + x * FREE_UNIT] = UntypedCap(b, d, x)
  <2>1. b + x * FREE_UNIT = Low6(b, x)
    BY <1>1, WordAssumption, SMT DEF Low6, FREE_UNIT
  <2> QED BY <1>2, <2>1 DEF UntypedCap, CapRaw
<1> QED BY <1>5, <1>6, Zenon

\* The getters of a CNode.
LEMMA DecodeCNode ==
    ASSUME NEW r \in Bits6, NEW n \in Bits6, NEW g
    PROVE  /\ Decode(CNodeCap(r, n, g)) = F!CNodeFields(r, n, g)
           /\ CNodeCap(r, n, g).type = "CNode"
<1> DEFINE k == CNodeCap(r, n, g)
           w == Low6(n, r)
<1>1. r \in Nat /\ n \in Nat /\ r < 64 /\ n < 64
  BY SMT DEF Bits6
<1>2. get(w, GUARD) = n /\ get(w, RADIX) = r
  BY <1>1, LowArith, SMT
<1>3. k.type = "CNode" /\ k.arg1 = w /\ k.arg2 = g
  BY Zenon DEF CNodeCap, CapRaw
<1>4. radix_bits(k) = r /\ guard_bits(k) = n /\ guard(k) = g
  BY <1>2, <1>3, Zenon DEF radix_bits, guard_bits, guard
<1> QED BY <1>3, <1>4, Zenon DEF Decode, F!CNodeFields

\* A null slot has no fields.
LEMMA DecodeNull == Decode(Null) = F!NullFields /\ Null.type = "NullObj"
  BY Zenon DEF Decode, Null, CapRaw, F!NullFields

(***************************************************************************)
(* The simulation.                                                         *)
(***************************************************************************)
\* The type tells which words a capability has.
LEMMA Shape ==
    ASSUME Packed
    PROVE  /\ raw.type = "Frame" => IsFrame
           /\ raw.type = "VSpace" => IsVSpace
           /\ raw.type = "Untyped" => IsUntyped
           /\ raw.type \in Types
<1>1. raw = Null => raw.type = "NullObj"
  BY DEF Null, CapRaw
<1>2. IsFrame => raw.type = "Frame"
  BY DEF IsFrame, FrameRaw, CapRaw
<1>3. IsVSpace => raw.type = "VSpace"
  BY DEF IsVSpace, VSpaceCap, CapRaw
<1>4. IsUntyped => raw.type = "Untyped"
  BY DEF IsUntyped, UntypedCap, CapRaw
<1>5. IsCNode => raw.type = "CNode"
  BY DEF IsCNode, CNodeCap, CapRaw
<1> QED BY <1>1, <1>2, <1>3, <1>4, <1>5, Zenon DEF Packed, Types

\* The mint functions make a capability with the fields they were given.
LEMMA MintSteps ==
    ASSUME Packed, raw = Null
    PROVE  /\ \A b \in FrameSize, d \in BOOLEAN, c \in Policy :
                 raw' = CapRaw("Frame", FrameWord(b, d, c), 0)
                    => IsFrame' /\ F!Create
           /\ \A a \in Asids : MintVSpace(a) => IsVSpace' /\ F!Create
           /\ \A b \in UntypedBits, d \in BOOLEAN :
                 MintUntyped(b, d) => IsUntyped' /\ F!Create
           /\ \A r \in Bits6, n \in Bits6, g \in Guards :
                 raw' = CNodeCap(r, n, g) /\ r + n <= CNODE_DEPTH
                    => IsCNode' /\ F!Create
<1>1. Decode(raw) = F!NullFields
  BY DecodeNull, Zenon
<1>2. ASSUME NEW b \in FrameSize, NEW d \in BOOLEAN, NEW c \in Policy,
             raw' = CapRaw("Frame", FrameWord(b, d, c), 0)
      PROVE  IsFrame' /\ F!Create
  <2>1. FrameWord(b, d, c) = FrameArg(b, Bool(d), c, 0)
    BY SMT DEF FrameWord, FrameArg, FrameSize, Policy, Bool,
               SIZE_BITS, IS_DEVICE, CACHE_POLICY
  <2>2. Bool(d) \in Bit /\ (Bool(d) # 0) = d
    BY Ranges, Zenon
  <2>3. raw' = FrameRaw(b, Bool(d), c, 0, 0)
    BY <1>2, <2>1, Zenon DEF FrameRaw
  <2>4. Decode(raw)' = F!FrameFields(b, d, c, <<0, 0>>)
    BY Ranges, <2>2, <2>3, DecodeFrame
  <2>5. IsFrame'
    BY Ranges, <2>2, <2>3, Zenon DEF IsFrame
  <2> QED BY <1>1, <2>4, <2>5, Zenon DEF F!Create
<1>3. ASSUME NEW a \in Asids, MintVSpace(a)
      PROVE  IsVSpace' /\ F!Create
  <2>1. raw' = VSpaceCap(a, 0)
    <3>1. a * 1 = a + 65536 * 0
      BY WordAssumption, SMT
    <3> QED BY <1>3, <3>1 DEF MintVSpace, Insert, VSpaceCap, VSpaceArg, ASID
  <2>2. Decode(raw)' = F!VSpaceFields(a, FALSE)
    BY Ranges, <2>1, DecodeVSpace, Zenon
  <2>3. IsVSpace'
    BY Ranges, <2>1, Zenon DEF IsVSpace
  <2> QED BY <1>1, <2>2, <2>3, Zenon DEF F!Create
<1>4. ASSUME NEW b \in UntypedBits, NEW d \in BOOLEAN, MintUntyped(b, d)
      PROVE  IsUntyped' /\ F!Create
  <2>1. b \in Bits6 /\ b % 64 = b + 64 * 0
    BY WordAssumption, SMT DEF Bits6
  <2>2. Bool(d) \in Bit /\ (Bool(d) # 0) = d
    BY Ranges, Zenon
  <2>3. raw' = UntypedCap(b, Bool(d), 0)
    BY <1>4, <2>1, Zenon DEF MintUntyped, Insert, UntypedCap, Low6, BIT_SIZE
  <2>4. Decode(raw)' = F!UntypedFields(b, d, 0)
    BY Ranges, <2>1, <2>2, <2>3, DecodeUntyped
  <2>5. IsUntyped'
    BY Ranges, <2>1, <2>2, <2>3, Zenon DEF IsUntyped
  <2> QED BY Ranges, <1>1, <2>1, <2>4, <2>5, Zenon DEF F!Create, Bits6
<1>5. ASSUME NEW r \in Bits6, NEW n \in Bits6, NEW g \in Guards,
             raw' = CNodeCap(r, n, g), r + n <= CNODE_DEPTH
      PROVE  IsCNode' /\ F!Create
  <2>1. Decode(raw)' = F!CNodeFields(r, n, g)
    BY <1>5, DecodeCNode, Zenon
  <2>2. IsCNode'
    BY <1>5, Zenon DEF IsCNode
  <2> QED BY <1>1, <1>5, <2>1, <2>2, Zenon DEF F!Create, Bits6
<1> QED BY <1>2, <1>3, <1>4, <1>5, Zenon

\* A setter of a frame changes its field.
LEMMA FrameSteps ==
    ASSUME Packed, raw.type = "Frame"
    PROVE  /\ \A c \in Policy : SetCachePolicy(c) => IsFrame' /\ F!SetCache
           /\ \A a \in Asids, v \in Vaddrs : SetMapped(a, v) => IsFrame' /\ F!Map
           /\ ClearMapped => IsFrame' /\ F!Unmap
<1>1. PICK b \in FrameSize, d \in Bit, c \in Policy :
         \E a \in MaybeAsid, v \in MaybeVaddr :
            raw = FrameRaw(b, d, c, a, v) /\ (a = 0 => v = 0)
  BY Shape, Zenon DEF IsFrame
<1>2. PICK a \in MaybeAsid, v \in MaybeVaddr :
         raw = FrameRaw(b, d, c, a, v) /\ (a = 0 => v = 0)
  BY <1>1, Zenon
<1>3. Decode(raw) = F!FrameFields(b, d # 0, c, <<a, v>>)
  BY <1>2, DecodeFrame
<1>4. ASSUME NEW x \in Policy, SetCachePolicy(x)
      PROVE  IsFrame' /\ F!SetCache
  <2>1. raw' = FrameRaw(b, d, x, a, v)
    <3>1. raw' = [raw EXCEPT !.arg1 = put(@, CACHE_POLICY, x)]
      BY <1>4, Zenon DEF SetCachePolicy, Update
    <3>2. [raw EXCEPT !.arg1 = put(@, CACHE_POLICY, x)] = FrameRaw(b, d, x, a, v)
      BY <1>2, PutCache
    <3> QED BY <3>1, <3>2, Zenon
  <2>2. Decode(raw)' = F!FrameFields(b, d # 0, x, <<a, v>>)
    BY <2>1, DecodeFrame
  <2>3. IsFrame'
    BY <1>2, <2>1, Zenon DEF IsFrame
  <2> QED BY <1>3, <2>2, <2>3 DEF F!SetCache, F!FrameFields
<1>5. ASSUME NEW x \in Asids, NEW y \in Vaddrs, SetMapped(x, y)
      PROVE  IsFrame' /\ F!Map
  <2>1. a = 0 /\ v = 0
    <3>1. mapped_asid(raw) = a
      BY <1>2, GetMapped
    <3>2. mapped_asid(raw) = 0
      BY <1>5, Zenon DEF SetMapped, is_mapped
    <3> QED BY <1>2, <3>1, <3>2, Zenon
  <2>2. raw' = FrameRaw(b, d, c, x, y)
    <3>1. raw' = CapRaw("Frame", put(raw.arg1, MAPPED_ASID, x), y)
      BY <1>5, Zenon DEF SetMapped, Update
    <3>2. CapRaw("Frame", put(raw.arg1, MAPPED_ASID, x), y) = FrameRaw(b, d, c, x, y)
      BY Ranges, <1>2, PutMapped
    <3> QED BY <3>1, <3>2, Zenon
  <2>3. Decode(raw)' = F!FrameFields(b, d # 0, c, <<x, y>>)
    BY Ranges, <2>2, DecodeFrame
  <2>4. x # 0
    BY WordAssumption
  <2>5. IsFrame'
    BY Ranges, <2>2, <2>4, Zenon DEF IsFrame
  <2> QED BY <1>3, <2>1, <2>3, <2>5 DEF F!Map, F!FrameFields
<1>6. ASSUME ClearMapped
      PROVE  IsFrame' /\ F!Unmap
  <2>1. raw' = FrameRaw(b, d, c, 0, 0)
    <3>1. raw' = CapRaw("Frame", put(raw.arg1, MAPPED_ASID, 0), 0)
      BY <1>6, Zenon DEF ClearMapped, Update
    <3>2. CapRaw("Frame", put(raw.arg1, MAPPED_ASID, 0), 0) = FrameRaw(b, d, c, 0, 0)
      BY Ranges, <1>2, PutMapped
    <3> QED BY <3>1, <3>2, Zenon
  <2>2. Decode(raw)' = F!FrameFields(b, d # 0, c, <<0, 0>>)
    BY Ranges, <2>1, DecodeFrame
  <2>3. IsFrame'
    BY Ranges, <2>1, Zenon DEF IsFrame
  <2> QED BY <1>3, <2>2, <2>3 DEF F!Unmap, F!FrameFields
<1> QED BY <1>4, <1>5, <1>6, Zenon

\* So do those of a VSpace and an Untyped.
LEMMA OtherSteps ==
    ASSUME Packed
    PROVE  /\ \A b \in BOOLEAN : SetActive(b) => IsVSpace' /\ F!SetActive
           /\ \A o \in Offsets : SetFreeOffset(o) => IsUntyped' /\ F!SetOffset
<1>1. ASSUME NEW b \in BOOLEAN, SetActive(b)
      PROVE  IsVSpace' /\ F!SetActive
  <2>1. PICK a \in Asids, on \in Bit : raw = VSpaceCap(a, on)
    BY <1>1, Shape, Zenon DEF SetActive, Update, IsVSpace
  <2>2. Bool(b) \in Bit /\ (Bool(b) # 0) = b
    BY Ranges, Zenon
  <2>3. raw' = VSpaceCap(a, Bool(b))
    <3>1. raw' = [raw EXCEPT !.arg1 = put(@, IS_ACTIVE, Bool(b))]
      BY <1>1, Zenon DEF SetActive, Update
    <3>2. [VSpaceCap(a, on) EXCEPT !.arg1 = put(@, IS_ACTIVE, Bool(b))]
             = VSpaceCap(a, Bool(b))
      BY <2>2, DecodeVSpace, Zenon
    <3> QED BY <2>1, <3>1, <3>2, Zenon
  <2>4. Decode(raw) = F!VSpaceFields(a, on # 0) /\ Decode(raw)' = F!VSpaceFields(a, b)
    BY <2>1, <2>2, <2>3, DecodeVSpace, Zenon
  <2>5. IsVSpace'
    BY <2>2, <2>3, Zenon DEF IsVSpace
  <2> QED BY <2>4, <2>5 DEF F!SetActive, F!VSpaceFields
<1>2. ASSUME NEW x \in Offsets, SetFreeOffset(x)
      PROVE  IsUntyped' /\ F!SetOffset
  <2>1. PICK b \in Bits6, d \in Bit, o \in Offset0 :
           raw = UntypedCap(b, d, o)
    BY <1>2, Shape, Zenon DEF SetFreeOffset, Update, IsUntyped
  <2>2. raw' = UntypedCap(b, d, x)
    <3>1. raw' = [raw EXCEPT !.arg2 = get(@, BIT_SIZE) + x * FREE_UNIT]
      BY <1>2, Zenon DEF SetFreeOffset, Update
    <3>2. [raw EXCEPT !.arg2 = get(@, BIT_SIZE) + x * FREE_UNIT] = UntypedCap(b, d, x)
      BY <2>1, DecodeUntyped, Zenon
    <3> QED BY <3>1, <3>2, Zenon
  <2>3. Decode(raw) = F!UntypedFields(b, d # 0, o)
        /\ Decode(raw)' = F!UntypedFields(b, d # 0, x)
    BY Ranges, <2>1, <2>2, DecodeUntyped
  <2>4. IsUntyped'
    BY Ranges, <2>2, Zenon DEF IsUntyped
  <2> QED BY <2>3, <2>4 DEF F!SetOffset, F!UntypedFields
<1> QED BY <1>1, <1>2, Zenon

\* Every step keeps the words packed and is a step of the fields, or none.
LEMMA Simulates ==
    ASSUME Packed, WordsNext
    PROVE  Packed' /\ (F!FieldsNext \/ UNCHANGED Decode(raw))
<1>1. CASE \E b \in FrameSize, d \in BOOLEAN : MintFrame(b, d)
  <2>1. PICK b \in FrameSize, d \in BOOLEAN : MintFrame(b, d)
    BY <1>1, Zenon
  <2>2. PICK c \in Policy : raw' = CapRaw("Frame", FrameWord(b, d, c), 0)
    BY <2>1 DEF MintFrame, Insert, Policy, Uncacheable, WriteBack
  <2>3. raw = Null
    BY <2>1, Zenon DEF MintFrame, Insert
  <2> QED BY <2>2, <2>3, MintSteps, Zenon DEF Packed, F!FieldsNext
<1>2. CASE \E b \in FrameSize, d \in BOOLEAN, c \in Policy : MintFrameWithCache(b, d, c)
  <2>1. PICK b \in FrameSize, d \in BOOLEAN, c \in Policy :
           raw = Null /\ raw' = CapRaw("Frame", FrameWord(b, d, c), 0)
    BY <1>2, Zenon DEF MintFrameWithCache, Insert
  <2> QED BY <2>1, MintSteps, Zenon DEF Packed, F!FieldsNext
<1>3. CASE \E a \in Asids : MintVSpace(a)
  <2>1. raw = Null
    BY <1>3, Zenon DEF MintVSpace, Insert
  <2> QED BY <1>3, <2>1, MintSteps, Zenon DEF Packed, F!FieldsNext
<1>4. CASE \E b \in UntypedBits, d \in BOOLEAN : MintUntyped(b, d)
  <2>1. raw = Null
    BY <1>4, Zenon DEF MintUntyped, Insert
  <2> QED BY <1>4, <2>1, MintSteps, Zenon DEF Packed, F!FieldsNext
<1>5. CASE \E r, n \in CNodeBits, g \in Guards : MintCNode(r, n, g)
  <2>1. PICK r \in CNodeBits, n \in CNodeBits, g \in Guards : MintCNode(r, n, g)
    BY <1>5, Zenon
  <2> DEFINE radix_sz == r % 64
             guard_sz == n % 64
  <2>2. radix_sz \in Bits6 /\ guard_sz \in Bits6
    BY WordAssumption, SMT DEF Bits6
  <2>3. CASE radix_sz + guard_sz <= CNODE_DEPTH
    <3>1. raw = Null /\ raw' = CapRaw("CNode", guard_sz * 1 + radix_sz * 64, g)
      BY <2>1, <2>3, Zenon DEF MintCNode, Insert, GUARD, RADIX
    <3>2. guard_sz * 1 + radix_sz * 64 = Low6(guard_sz, radix_sz)
      BY <2>2, SMT DEF Low6, Bits6
    <3>3. raw' = CNodeCap(radix_sz, guard_sz, g)
      BY <3>1, <3>2, Zenon DEF CNodeCap
    <3> QED BY <2>2, <2>3, <3>1, <3>3, MintSteps, Zenon DEF Packed, F!FieldsNext
  <2>4. CASE ~ (radix_sz + guard_sz <= CNODE_DEPTH)
    <3>1. raw' = raw
      BY <2>1, <2>4, Zenon DEF MintCNode, GUARD, RADIX
    <3> QED BY <3>1, Zenon DEF Packed, IsFrame, IsVSpace, IsUntyped, IsCNode
  <2> QED BY <2>3, <2>4, Zenon
<1>6. CASE \E c \in Policy : SetCachePolicy(c)
  <2>1. raw.type = "Frame"
    BY <1>6, Zenon DEF SetCachePolicy, Update
  <2> QED BY <1>6, <2>1, FrameSteps, Zenon DEF Packed, F!FieldsNext
<1>7. CASE \E a \in Asids, v \in Vaddrs : SetMapped(a, v)
  <2>1. raw.type = "Frame"
    BY <1>7, Zenon DEF SetMapped, Update
  <2> QED BY <1>7, <2>1, FrameSteps, Zenon DEF Packed, F!FieldsNext
<1>8. CASE ClearMapped
  <2>1. raw.type = "Frame"
    BY <1>8, Zenon DEF ClearMapped, Update
  <2> QED BY <1>8, <2>1, FrameSteps, Zenon DEF Packed, F!FieldsNext
<1>9. CASE \E b \in BOOLEAN : SetActive(b)
  BY <1>9, OtherSteps, Zenon DEF Packed, F!FieldsNext
<1>10. CASE \E o \in Offsets : SetFreeOffset(o)
  BY <1>10, OtherSteps, Zenon DEF Packed, F!FieldsNext
<1>11. CASE Erase
  <2>1. raw' = Null
    BY <1>11, Zenon DEF Erase
  <2>2. Decode(raw)' = F!NullFields
    BY <2>1, DecodeNull, Zenon
  <2> QED BY <2>1, <2>2, Zenon DEF Packed, F!FieldsNext, F!Delete
<1> QED BY <1>1, <1>2, <1>3, <1>4, <1>5, <1>6, <1>7, <1>8, <1>9, <1>10, <1>11, Zenon DEF WordsNext

\* The words implement a record of fields (KeepsFields): whatever is minted,
\* set and erased, in any order, a setter changes the field its getter reads
\* and no other (set_cache_policy, set_mapped, clear_mapped, set_active,
\* set_free_offset), for all ASIDs, addresses, offsets, sizes and guards.
THEOREM CapWordsKeepFields == WordsSpec => KeepsFields
<1>1. WordsInit => Packed
  BY Zenon DEF WordsInit, Packed
<1>2. Packed /\ [WordsNext]_wordVars => Packed'
  <2>1. ASSUME Packed, UNCHANGED wordVars PROVE Packed'
    BY <2>1, Zenon DEF wordVars, Packed, IsFrame, IsVSpace, IsUntyped, IsCNode
  <2> QED BY <2>1, Simulates, Zenon
<1>3. WordsInit => F!FieldsInit
  BY DecodeNull, Zenon DEF WordsInit, F!FieldsInit
<1>4. Packed /\ [WordsNext]_wordVars => [F!FieldsNext]_(Decode(raw))
  <2>1. ASSUME UNCHANGED wordVars PROVE UNCHANGED Decode(raw)
    <3>1. raw' = raw
      BY <2>1, Zenon DEF wordVars
    <3> QED BY <3>1, Zenon
  <2> QED BY <2>1, Simulates, Zenon
<1> QED BY <1>1, <1>2, <1>3, <1>4, PTL DEF WordsSpec, KeepsFields, F!FieldsSpec

\* A capability has a type of the kernel and two words (TypeOK): no mint and no
\* setter makes a negative word, whose fields would have no meaning.
THEOREM CapWordsTypeOK == WordsSpec => []TypeOK
<1> DEFINE Inv == Packed /\ panicked \in BOOLEAN
<1>1. WordsInit => Inv
  BY Zenon DEF WordsInit, Packed
<1>2. Inv /\ [WordsNext]_wordVars => Inv'
  <2>1. ASSUME Packed, UNCHANGED wordVars PROVE Packed'
    BY <2>1, Zenon DEF wordVars, Packed, IsFrame, IsVSpace, IsUntyped, IsCNode
  <2>2. ASSUME Inv, [WordsNext]_wordVars PROVE panicked' \in BOOLEAN
    <3>1. panicked' = panicked \/ panicked' = TRUE
      BY <2>2, Zenon DEF wordVars, WordsNext, Insert, Update, MintFrame,
            MintFrameWithCache, MintVSpace, MintUntyped, MintCNode,
            SetCachePolicy, SetMapped, ClearMapped, SetActive, SetFreeOffset, Erase
    <3> QED BY <2>2, <3>1, Zenon
  <2> QED BY <2>1, <2>2, Simulates, Zenon
<1>3. Inv => TypeOK
  <2>1. \A t \in Types, w \in Nat, v \in Nat :
           CapRaw(t, w, v) \in [type : Types, arg1 : Nat, arg2 : Nat]
    BY Zenon DEF CapRaw
  <2>2. CASE raw = Null
    BY <2>1, <2>2, Zenon DEF Null, Types, TypeOK
  <2>3. CASE IsFrame
    <3>1. PICK b \in FrameSize, d \in Bit, c \in Policy, a \in MaybeAsid,
               v \in MaybeVaddr : raw = FrameRaw(b, d, c, a, v)
      BY <2>3, Zenon DEF IsFrame
    <3>2. FrameArg(b, d, c, a) \in Nat
      BY InFrame, FrameArith
    <3>3. v \in Nat
      BY WordAssumption DEF MaybeVaddr
    <3> QED BY <2>1, <3>1, <3>2, <3>3, Zenon DEF FrameRaw, Types, TypeOK
  <2>4. CASE IsVSpace
    <3>1. PICK a \in Asids, on \in Bit : raw = VSpaceCap(a, on)
      BY <2>4, Zenon DEF IsVSpace
    <3>2. VSpaceArg(a, on) \in Nat
      BY WordAssumption, SMT DEF VSpaceArg, Bit
    <3> QED BY <2>1, <3>1, <3>2, Zenon DEF VSpaceCap, Types, TypeOK
  <2>5. CASE IsUntyped
    <3>1. PICK b \in Bits6, d \in Bit, o \in Offset0 : raw = UntypedCap(b, d, o)
      BY <2>5, Zenon DEF IsUntyped
    <3>2. Low6(b, o) \in Nat /\ d \in Nat
      BY WordAssumption, SMT DEF Low6, Bits6, Bit, Offset0
    <3> QED BY <2>1, <3>1, <3>2, Zenon DEF UntypedCap, Types, TypeOK
  <2>6. CASE IsCNode
    <3>1. PICK r \in Bits6, n \in Bits6, g \in Guards : raw = CNodeCap(r, n, g)
      BY <2>6, Zenon DEF IsCNode
    <3>2. Low6(n, r) \in Nat /\ g \in Nat
      BY WordAssumption, SMT DEF Low6, Bits6
    <3> QED BY <2>1, <3>1, <3>2, Zenon DEF CNodeCap, Types, TypeOK
  <2> QED BY <2>2, <2>3, <2>4, <2>5, <2>6, Zenon DEF Packed
<1> QED BY <1>1, <1>2, <1>3, PTL DEF WordsSpec

(***************************************************************************)
(* Address spaces.                                                         *)
(***************************************************************************)
(***************************************************************************)
(* The walk, level by level.                                               *)
(***************************************************************************)
\* The recursion equation of TableAt.
Unfolded ==
    \A u : /\ TableAt(u, 4) = Root
           /\ TableAt(u, 3) = next_table(u, 4)[TableAt(u, 4)]
           /\ TableAt(u, 2) = next_table(u, 3)[TableAt(u, 3)]
           /\ TableAt(u, 1) = next_table(u, 2)[TableAt(u, 2)]

\* The walk takes the tables one after another (walk).
LEMMA Unfolds == Unfolded
<1> SUFFICES ASSUME NEW u
             PROVE  /\ TableAt(u, 4) = Root
                    /\ TableAt(u, 3) = next_table(u, 4)[TableAt(u, 4)]
                    /\ TableAt(u, 2) = next_table(u, 3)[TableAt(u, 3)]
                    /\ TableAt(u, 1) = next_table(u, 2)[TableAt(u, 2)]
  BY Zenon DEF Unfolded
<1> DEFINE down[k \in 1 .. 4] == IF k = 4 THEN Root
                                 ELSE next_table(u, k + 1)[down[k + 1]]
           c == next_table(u, 4)[Root]
           b == next_table(u, 3)[c]
           a == next_table(u, 2)[b]
           f == [k \in 1 .. 4 |-> IF k = 4 THEN Root ELSE IF k = 3 THEN c
                                  ELSE IF k = 2 THEN b ELSE a]
<1>1. f = [k \in 1 .. 4 |-> IF k = 4 THEN Root ELSE next_table(u, k + 1)[f[k + 1]]]
  <2>1. f[4] = Root /\ f[3] = c /\ f[2] = b /\ f[1] = a
    OBVIOUS
  <2>2. f = [k \in 1 .. 4 |-> f[k]]
    BY Zenon
  <2> HIDE DEF f
  <2>3. ASSUME NEW k \in 1 .. 4
        PROVE  f[k] = IF k = 4 THEN Root ELSE next_table(u, k + 1)[f[k + 1]]
    <3>1. k = 4 \/ k = 3 \/ k = 2 \/ k = 1
      OBVIOUS
    <3> HIDE DEF a, b, c
    <3>2. CASE k = 4
      BY <2>1, <3>2, Zenon
    <3>3. CASE k = 3
      BY <2>1, <3>3 DEF c
    <3>4. CASE k = 2
      BY <2>1, <3>4 DEF b
    <3>5. CASE k = 1
      BY <2>1, <3>5 DEF a
    <3> QED
      BY <3>1, <3>2, <3>3, <3>4, <3>5, Zenon
  <2> QED
    BY <2>2, <2>3, Zenon
<1> HIDE DEF f
<1>2. down = [k \in 1 .. 4 |-> IF k = 4 THEN Root ELSE next_table(u, k + 1)[down[k + 1]]]
  BY <1>1, Zenon DEF down
<1>3. \A l : TableAt(u, l) = down[l]
  BY Zenon DEF TableAt, down
<1> HIDE DEF down
<1>4. /\ down[4] = Root /\ down[3] = next_table(u, 4)[down[4]]
      /\ down[2] = next_table(u, 3)[down[3]] /\ down[1] = next_table(u, 2)[down[2]]
  BY <1>2
<1> QED
  BY <1>3, <1>4, Zenon

\* The same after the step.
LEMMA UnfoldsNext == Unfolded'
BY Unfolds, PTL

Flag == {"WRITABLE", "USER", "GLOBAL", "NO_EXECUTE", "WRITE_THROUGH", "CACHE_DISABLE"}

\* What an entry may hold.  Nothing points back to the root.
Entry == {Invalid} \cup {new_table(t) : t \in Table \ {Root}}
         \cup [kind : {"page"}, to : Nat, flags : SUBSET Flag]

Typed == mem \in [Table -> [Index -> Entry]]

\* An entry is empty, leads to a table or maps a frame, and only one of these.
LEMMA EntryKinds ==
  ASSUME NEW e \in Entry
  PROVE  /\ is_table(e) => e.to \in Table /\ e.to # Root /\ e = new_table(e.to)
         /\ is_page(e) => e.to \in Nat
         /\ is_present(e) <=> is_table(e) \/ is_page(e)
         /\ ~ is_present(e) <=> e = Invalid
         /\ ~ (is_table(e) /\ is_page(e))
BY DEF Entry, is_table, is_page, is_present, new_table, Invalid

\* A page has an index for every level, and the root is a table.
LEMMA Pages ==
  /\ Root \in Table /\ None \notin Table
  /\ \A u \in Page : \A k \in 1 .. 4 : u[k] \in Index
  /\ \A u \in Page : u \in [1 .. 4 -> Index]
BY TableAssumption, Zenon DEF Page

\* One level of the walk.
Stepped ==
    Typed => \A u \in Page, l \in 1 .. 3 :
        LET t == TableAt(u, l + 1)
        IN  /\ t \in Table /\ is_table(EntryIn(t, u, l + 1)) =>
                   TableAt(u, l) = EntryIn(t, u, l + 1).to
            /\ ~ (t \in Table /\ is_table(EntryIn(t, u, l + 1))) => TableAt(u, l) = None

\* The walk goes down a level just where the entry leads to a table.
LEMMA StepsDown == Stepped
<1>1. ASSUME Typed, NEW u \in Page, NEW l \in 1 .. 3,
             TableAt(u, l + 1) \in Table \cup {None}
      PROVE  LET t == TableAt(u, l + 1)
             IN  /\ t \in Table /\ is_table(EntryIn(t, u, l + 1)) =>
                        TableAt(u, l) = EntryIn(t, u, l + 1).to
                 /\ ~ (t \in Table /\ is_table(EntryIn(t, u, l + 1))) => TableAt(u, l) = None
                 /\ TableAt(u, l) \in Table \cup {None}
  <2> DEFINE t == TableAt(u, l + 1)
  <2>1. TableAt(u, l) = next_table(u, l + 1)[t]
    <3>1. l = 1 \/ l = 2 \/ l = 3
      OBVIOUS
    <3>2. /\ TableAt(u, 3) = next_table(u, 4)[TableAt(u, 4)]
          /\ TableAt(u, 2) = next_table(u, 3)[TableAt(u, 3)]
          /\ TableAt(u, 1) = next_table(u, 2)[TableAt(u, 2)]
      BY Unfolds, Zenon DEF Unfolded
    <3> QED
      BY <3>1, <3>2
  <2>2. TableAt(u, l) = IF t # None /\ is_table(EntryIn(t, u, l + 1))
                        THEN EntryIn(t, u, l + 1).to ELSE None
    BY <1>1, <2>1, Zenon DEF next_table
  <2>3. t \in Table => EntryIn(t, u, l + 1) \in Entry
    BY <1>1, Pages DEF EntryIn, Typed
  <2>4. t \in Table /\ is_table(EntryIn(t, u, l + 1)) =>
            EntryIn(t, u, l + 1).to \in Table
    BY <2>3, EntryKinds, Zenon
  <2> HIDE DEF t
  <2>5. t \in Table <=> t # None
    BY <1>1, Pages, Zenon DEF t
  <2>6. /\ t \in Table /\ is_table(EntryIn(t, u, l + 1)) =>
               TableAt(u, l) = EntryIn(t, u, l + 1).to
        /\ ~ (t \in Table /\ is_table(EntryIn(t, u, l + 1))) => TableAt(u, l) = None
        /\ TableAt(u, l) \in Table \cup {None}
    BY <2>2, <2>4, <2>5, Zenon
  <2> QED
    BY <2>6, Zenon DEF t
<1>2. ASSUME Typed, NEW u \in Page
      PROVE  /\ TableAt(u, 4) \in Table \cup {None}
             /\ TableAt(u, 3) \in Table \cup {None}
             /\ TableAt(u, 2) \in Table \cup {None}
  <2>1. TableAt(u, 4) \in Table \cup {None}
    BY Unfolds, Pages, Zenon DEF Unfolded
  <2>2. TableAt(u, 3) \in Table \cup {None}
    BY <1>1, <1>2, <2>1
  <2>3. TableAt(u, 2) \in Table \cup {None}
    BY <1>1, <1>2, <2>2
  <2> QED
    BY <2>1, <2>2, <2>3, Zenon
<1>3. ASSUME Typed, NEW u \in Page, NEW l \in 1 .. 3
      PROVE  TableAt(u, l + 1) \in Table \cup {None}
  BY <1>2, <1>3
<1> QED
  BY <1>1, <1>3, Zenon DEF Stepped

\* The same after the step.
LEMMA StepsDownNext == Stepped'
BY StepsDown, PTL

\* The walk meets tables or nothing, and what it meets is in use.
Met ==
    Typed => \A u \in Page :
        /\ TableAt(u, 4) = Root
        /\ \A l \in 1 .. 4 : /\ TableAt(u, l) \in Table \cup {None}
                             /\ TableAt(u, l) # None => InUse(TableAt(u, l))

\* The walk starts at the root, and the tables it meets are in use.
LEMMA Meets == Met
<1> SUFFICES ASSUME Typed, NEW u \in Page
             PROVE  /\ TableAt(u, 4) = Root
                    /\ \A l \in 1 .. 4 : /\ TableAt(u, l) \in Table \cup {None}
                                         /\ TableAt(u, l) # None => InUse(TableAt(u, l))
  BY Zenon DEF Met
<1>1. TableAt(u, 4) = Root
  BY Unfolds, Zenon DEF Unfolded
<1>2. ASSUME NEW l \in 1 .. 3
      PROVE  /\ TableAt(u, l) \in Table \cup {None}
             /\ TableAt(u, l) # None => InUse(TableAt(u, l))
  <2> DEFINE t == TableAt(u, l + 1)
             e == EntryIn(t, u, l + 1)
  <2>1. CASE t \in Table /\ is_table(e)
    <3>1. TableAt(u, l) = e.to
      BY <2>1, StepsDown, Zenon DEF Stepped
    <3>2. u[l + 1] \in Index
      BY Pages
    <3>3. e \in Entry
      BY <2>1, <3>2, Zenon DEF EntryIn, Typed
    <3>4. e.to \in Table /\ e = new_table(e.to)
      BY <2>1, <3>3, EntryKinds, Zenon
    <3>5. InUse(e.to)
      <4>1. mem[t][u[l + 1]] = new_table(e.to)
        BY <3>4, Zenon DEF EntryIn
      <4> QED
        BY <2>1, <3>2, <4>1, Zenon DEF InUse
    <3> QED
      BY <3>1, <3>4, <3>5, Zenon
  <2>2. CASE ~ (t \in Table /\ is_table(e))
    BY <2>2, StepsDown, Zenon DEF Stepped
  <2> QED
    BY <2>1, <2>2, Zenon
<1>3. Root \in Table /\ InUse(Root)
  BY Pages, Zenon DEF InUse
<1>4. \A l \in 1 .. 4 : l = 4 \/ l \in 1 .. 3
  OBVIOUS
<1> QED
  BY <1>1, <1>2, <1>3, <1>4, Zenon

\* The same after the step.
LEMMA MeetsNext == Met'
BY Meets, PTL

\* The way to a table depends on the indices above it only.
SamePath ==
    Typed => \A u, v \in Page, l \in 1 .. 4 :
        (\A k \in l + 1 .. 4 : u[k] = v[k]) => TableAt(u, l) = TableAt(v, l)

\* The walk to a level depends on the indices above it only.
LEMMA SamePaths == SamePath
<1>1. ASSUME Typed, NEW u \in Page, NEW v \in Page, NEW l \in 1 .. 3, u[l + 1] = v[l + 1],
             TableAt(u, l + 1) = TableAt(v, l + 1)
      PROVE  TableAt(u, l) = TableAt(v, l)
  <2> DEFINE t == TableAt(u, l + 1)
  <2>1. EntryIn(t, u, l + 1) = EntryIn(t, v, l + 1)
    BY <1>1, Zenon DEF EntryIn
  <2>2. CASE t \in Table /\ is_table(EntryIn(t, u, l + 1))
    BY <1>1, <2>1, <2>2, StepsDown, Zenon DEF Stepped
  <2>3. CASE ~ (t \in Table /\ is_table(EntryIn(t, u, l + 1)))
    BY <1>1, <2>1, <2>3, StepsDown, Zenon DEF Stepped
  <2> QED
    BY <2>2, <2>3, Zenon
<1> SUFFICES ASSUME Typed, NEW u \in Page, NEW v \in Page, NEW l \in 1 .. 4,
                    \A k \in l + 1 .. 4 : u[k] = v[k]
             PROVE  TableAt(u, l) = TableAt(v, l)
  BY Zenon DEF SamePath
<1>2. TableAt(u, 4) = TableAt(v, 4)
  BY Meets, Zenon DEF Met
<1>3. l <= 3 => u[4] = v[4]
  OBVIOUS
<1>4. l <= 2 => u[3] = v[3]
  OBVIOUS
<1>5. l <= 1 => u[2] = v[2]
  OBVIOUS
<1>6. l <= 3 => TableAt(u, 3) = TableAt(v, 3)
  BY <1>1, <1>2, <1>3
<1>7. l <= 2 => TableAt(u, 2) = TableAt(v, 2)
  BY <1>1, <1>4, <1>6
<1>8. l <= 1 => TableAt(u, 1) = TableAt(v, 1)
  BY <1>1, <1>5, <1>7
<1>9. l = 1 \/ l = 2 \/ l = 3 \/ l = 4
  OBVIOUS
<1> QED
  BY <1>2, <1>6, <1>7, <1>8, <1>9

\* The same after the step.
LEMMA SamePathsNext == SamePath'
BY SamePaths, PTL

\* The walk to u ends at level l.
End(u, l) == /\ TableAt(u, l) # None
             /\ l > 1 => ~ is_table(EntryIn(TableAt(u, l), u, l))

\* It ends at one level, with tables above and nothing below.
Ended ==
    Typed => \A u \in Page :
        /\ \E l \in 1 .. 4 : End(u, l)
        /\ \A l \in 1 .. 4 : End(u, l) =>
               /\ walk(u) = [level |-> l, entry |-> EntryIn(TableAt(u, l), u, l)]
               /\ \A k \in l .. 4 : TableAt(u, k) \in Table
               /\ \A k \in l + 1 .. 4 : is_table(EntryIn(TableAt(u, k), u, k))

\* Every walk ends at one level.
LEMMA Ends == Ended
<1> SUFFICES ASSUME Typed, NEW u \in Page
             PROVE  /\ \E l \in 1 .. 4 : End(u, l)
                    /\ \A l \in 1 .. 4 : End(u, l) =>
                          /\ walk(u) = [level |-> l, entry |-> EntryIn(TableAt(u, l), u, l)]
                          /\ \A k \in l .. 4 : TableAt(u, k) \in Table
                          /\ \A k \in l + 1 .. 4 : is_table(EntryIn(TableAt(u, k), u, k))
  BY Zenon DEF Ended
<1>1. TableAt(u, 4) = Root /\ Root # None /\ \A k \in 1 .. 4 : TableAt(u, k) \in Table \cup {None}
  BY Meets, Pages, Zenon DEF Met
<1>2. \A k \in 1 .. 3 : TableAt(u, k) # None =>
          TableAt(u, k + 1) # None /\ is_table(EntryIn(TableAt(u, k + 1), u, k + 1))
  BY StepsDown, Pages, Zenon DEF Stepped
<1>3. ASSUME NEW k \in 1 .. 3, TableAt(u, k + 1) # None, TableAt(u, k) = None
      PROVE  ~ is_table(EntryIn(TableAt(u, k + 1), u, k + 1))
  <2> DEFINE t == TableAt(u, k + 1)
             e == EntryIn(t, u, k + 1)
  <2>1. t \in Table
    BY <1>1, <1>3
  <2>2. e \in Entry
    BY <2>1, Pages DEF EntryIn, Typed
  <2>3. is_table(e) => e.to \in Table /\ TableAt(u, k) = e.to
    BY <2>1, <2>2, EntryKinds, StepsDown, Zenon DEF Stepped
  <2> QED
    BY <1>3, <2>3, Pages, Zenon
<1>4. \E l \in 1 .. 4 : End(u, l)
  <2>1. CASE TableAt(u, 1) # None
    BY <2>1 DEF End
  <2>2. CASE TableAt(u, 1) = None /\ TableAt(u, 2) # None
    <3>1. ~ is_table(EntryIn(TableAt(u, 2), u, 2))
      BY <1>3, <2>2
    <3> QED
      BY <2>2, <3>1 DEF End
  <2>3. CASE TableAt(u, 2) = None /\ TableAt(u, 3) # None
    <3>1. ~ is_table(EntryIn(TableAt(u, 3), u, 3))
      BY <1>3, <2>3
    <3> QED
      BY <2>3, <3>1 DEF End
  <2>4. CASE TableAt(u, 3) = None
    <3>1. ~ is_table(EntryIn(TableAt(u, 4), u, 4))
      BY <1>1, <1>3, <2>4
    <3> QED
      BY <1>1, <3>1 DEF End
  <2> QED
    BY <2>1, <2>2, <2>3, <2>4, Zenon
<1>5. ASSUME NEW l \in 1 .. 4, NEW m \in 1 .. 4, l < m, TableAt(u, l) # None
      PROVE  TableAt(u, m) # None /\ is_table(EntryIn(TableAt(u, m), u, m))
  <2>1. \A k \in 1 .. 3 : TableAt(u, k) # None => TableAt(u, k + 1) # None
    BY <1>2, Zenon
  <2>2. m - 1 \in 1 .. 3 /\ (m - 1) + 1 = m
    BY <1>5
  <2>3. TableAt(u, m - 1) # None
    <3>1. l = 1 \/ l = 2 \/ l = 3
      BY <1>5
    <3>2. l = 1 => TableAt(u, 2) # None
      BY <1>5, <2>1
    <3>3. l <= 2 => TableAt(u, 2) # None
      BY <1>5, <3>1, <3>2
    <3>4. l <= 2 => TableAt(u, 3) # None
      BY <2>1, <3>3
    <3>5. l <= 3 => TableAt(u, 3) # None
      BY <1>5, <3>1, <3>4
    <3>6. m - 1 = l \/ (m - 1 = 2 /\ l <= 2) \/ (m - 1 = 3 /\ l <= 3)
      BY <1>5, <2>2
    <3> QED
      BY <1>5, <3>3, <3>5, <3>6, Zenon
  <2> QED
    BY <1>2, <2>2, <2>3, Zenon
<1>6. ASSUME NEW l \in 1 .. 4, End(u, l)
      PROVE  /\ walk(u) = [level |-> l, entry |-> EntryIn(TableAt(u, l), u, l)]
             /\ \A k \in l .. 4 : TableAt(u, k) \in Table
             /\ \A k \in l + 1 .. 4 : is_table(EntryIn(TableAt(u, k), u, k))
  <2>1. ASSUME NEW m \in 1 .. 4, End(u, m) PROVE m = l
    <3>1. ~ (m < l) /\ ~ (l < m)
      BY <1>5, <1>6, <2>1 DEF End
    <3> QED
      BY <3>1
  <2> DEFINE c == CHOOSE k \in 1 .. 4 :
                      /\ TableAt(u, k) # None
                      /\ k > 1 => ~ is_table(EntryIn(TableAt(u, k), u, k))
  <2>2. c \in 1 .. 4 /\ End(u, c)
    BY <1>6, Zenon DEF End
  <2>3. walk(u) = [level |-> c, entry |-> EntryIn(TableAt(u, c), u, c)]
    BY Zenon DEF walk
  <2> HIDE DEF c
  <2>4. c = l
    BY <2>1, <2>2, Zenon
  <2>5. ASSUME NEW k \in l .. 4 PROVE TableAt(u, k) \in Table
    <3>1. k \in 1 .. 4 /\ (k = l \/ l < k)
      BY <2>5
    <3> QED
      BY <1>1, <1>5, <1>6, <3>1, Zenon DEF End
  <2>6. ASSUME NEW k \in l + 1 .. 4 PROVE is_table(EntryIn(TableAt(u, k), u, k))
    BY <1>5, <1>6, <2>6 DEF End
  <2> QED
    BY <2>3, <2>4, <2>5, <2>6, Zenon
<1> QED
  BY <1>4, <1>6, Zenon

\* The same after the step.
LEMMA EndsNext == Ended'
BY Ends, PTL

(***************************************************************************)
(* What a page is translated to.                                           *)
(***************************************************************************)
\* The access a page entry gives by itself: the tables above restrict nothing.
LeafAccess(e) == [write |-> "WRITABLE" \in e.flags,
                  user |-> "USER" \in e.flags,
                  execute |-> "NO_EXECUTE" \notin e.flags,
                  cache |-> CacheOf(e.flags)]

LeafPiece(e, u, l) == [to |-> e.to + Offset(u, l), size |-> l, access |-> LeafAccess(e)]

Read ==
    Typed => \A u \in Page, l \in 1 .. 4 : End(u, l) =>
        /\ is_page(EntryIn(TableAt(u, l), u, l)) =>
               Translate(u) = LeafPiece(EntryIn(TableAt(u, l), u, l), u, l)
        /\ ~ is_page(EntryIn(TableAt(u, l), u, l)) => Translate(u) = None

\* A right is what every entry of the path says of it, and the last one decides.
LEMMA LastDecides ==
  ASSUME NEW path, NEW e \in path,
         \A y \in path : y # e => y.flags = {"WRITABLE", "USER"}
  PROVE  AccessOn(path, e) = LeafAccess(e)
<1>1. (\A y \in path : "WRITABLE" \in y.flags) = ("WRITABLE" \in e.flags)
  <2>1. CASE "WRITABLE" \in e.flags
    <3>1. \A y \in path : "WRITABLE" \in y.flags
      BY <2>1, Zenon
    <3>2. (\A y \in path : "WRITABLE" \in y.flags) = TRUE /\ ("WRITABLE" \in e.flags) = TRUE
      BY <2>1, <3>1, Zenon
    <3> QED
      BY <3>2, Zenon
  <2>2. CASE ~ ("WRITABLE" \in e.flags)
    <3>1. ~ (\A y \in path : "WRITABLE" \in y.flags)
      BY <2>2, Zenon
    <3>2. (\A y \in path : "WRITABLE" \in y.flags) = FALSE /\ ("WRITABLE" \in e.flags) = FALSE
      BY <2>2, <3>1
    <3> QED
      BY <3>2, Zenon
  <2> QED
    BY <2>1, <2>2, Zenon
<1>2. (\A y \in path : "USER" \in y.flags) = ("USER" \in e.flags)
  <2>1. CASE "USER" \in e.flags
    <3>1. \A y \in path : "USER" \in y.flags
      BY <2>1, Zenon
    <3>2. (\A y \in path : "USER" \in y.flags) = TRUE /\ ("USER" \in e.flags) = TRUE
      BY <2>1, <3>1, Zenon
    <3> QED
      BY <3>2, Zenon
  <2>2. CASE ~ ("USER" \in e.flags)
    <3>1. ~ (\A y \in path : "USER" \in y.flags)
      BY <2>2, Zenon
    <3>2. (\A y \in path : "USER" \in y.flags) = FALSE /\ ("USER" \in e.flags) = FALSE
      BY <2>2, <3>1
    <3> QED
      BY <3>2, Zenon
  <2> QED
    BY <2>1, <2>2, Zenon
<1>3. (\A y \in path : "NO_EXECUTE" \notin y.flags) = ("NO_EXECUTE" \notin e.flags)
  <2>1. CASE "NO_EXECUTE" \notin e.flags
    <3>1. \A y \in path : "NO_EXECUTE" \notin y.flags
      BY <2>1
    <3>2. (\A y \in path : "NO_EXECUTE" \notin y.flags) = TRUE /\ ("NO_EXECUTE" \notin e.flags) = TRUE
      BY <2>1, <3>1, Zenon
    <3> QED
      BY <3>2, Zenon
  <2>2. CASE ~ ("NO_EXECUTE" \notin e.flags)
    <3>1. ~ (\A y \in path : "NO_EXECUTE" \notin y.flags)
      BY <2>2, Zenon
    <3>2. (\A y \in path : "NO_EXECUTE" \notin y.flags) = FALSE /\ ("NO_EXECUTE" \notin e.flags) = FALSE
      BY <2>2, <3>1, Zenon
    <3> QED
      BY <3>2, Zenon
  <2> QED
    BY <2>1, <2>2, Zenon
<1> QED
  BY <1>1, <1>2, <1>3, Zenon DEF AccessOn, LeafAccess

\* Translate reads the entry at which the walk ends.
LEMMA Reads == Read
<1> SUFFICES ASSUME Typed, NEW u \in Page, NEW l \in 1 .. 4, End(u, l)
             PROVE  /\ is_page(EntryIn(TableAt(u, l), u, l)) =>
                           Translate(u) = LeafPiece(EntryIn(TableAt(u, l), u, l), u, l)
                    /\ ~ is_page(EntryIn(TableAt(u, l), u, l)) => Translate(u) = None
  BY Zenon DEF Read
<1> DEFINE e == EntryIn(TableAt(u, l), u, l)
           path == Path(u, l)
<1>1. /\ walk(u) = [level |-> l, entry |-> e]
      /\ \A k \in l .. 4 : TableAt(u, k) \in Table
      /\ \A k \in l + 1 .. 4 : is_table(EntryIn(TableAt(u, k), u, k))
  BY Ends, Zenon DEF Ended
<1>2. /\ is_page(e) => Translate(u) = [to |-> e.to + Offset(u, l), size |-> l,
                                       access |-> AccessOn(path, e)]
      /\ ~ is_page(e) => Translate(u) = None
  BY <1>1 DEF Translate
<1>3. e \in path
  BY DEF Path
<1>4. ASSUME NEW x \in path, x # e PROVE x.flags = {"WRITABLE", "USER"}
  <2>1. PICK k \in l .. 4 : x = EntryIn(TableAt(u, k), u, k)
    BY <1>4, Zenon DEF Path
  <2>2. k \in l + 1 .. 4 /\ k \in 1 .. 4
    <3>1. k # l
      BY <1>4, <2>1, Zenon
    <3> QED
      BY <3>1
  <2>3. is_table(x) /\ x \in Entry
    BY <1>1, <2>1, <2>2, Pages, Zenon DEF EntryIn, Typed
  <2> QED
    BY <2>3, EntryKinds DEF new_table
<1> HIDE DEF e, path
<1>5. AccessOn(path, e) = LeafAccess(e)
  BY <1>3, <1>4, LastDecides, Zenon
<1>6. is_page(e) => Translate(u) = LeafPiece(e, u, l)
  BY <1>2, <1>5, Zenon DEF LeafPiece
<1> QED
  BY <1>2, <1>6, Zenon DEF e

\* The same after the step.
LEMMA ReadsNext == Read'
BY Reads, PTL

\* A page whose walk meets the entries it met before is translated as before.
LEMMA SameTranslation ==
  ASSUME Typed, Typed', NEW u \in Page,
         \A k \in 1 .. 4 : TableAt(u, k)' = TableAt(u, k),
         \A k \in 1 .. 4 : TableAt(u, k) # None =>
             mem'[TableAt(u, k)][u[k]] = mem[TableAt(u, k)][u[k]]
  PROVE  Translate(u)' = Translate(u)
<1>1. PICK l \in 1 .. 4 : End(u, l)
  BY Ends, Zenon DEF Ended
<1> DEFINE e == EntryIn(TableAt(u, l), u, l)
<1>2. EntryIn(TableAt(u, l), u, l)' = e
  BY <1>1 DEF EntryIn, End
<1>3. End(u, l)'
  BY <1>1, <1>2, Zenon DEF End
<1>4. /\ is_page(e) => Translate(u) = LeafPiece(e, u, l)
      /\ ~ is_page(e) => Translate(u) = None
  BY <1>1, Reads, Zenon DEF Read
<1>5. /\ is_page(e) => Translate(u)' = LeafPiece(e, u, l)
      /\ ~ is_page(e) => Translate(u)' = None
  <2>1. /\ is_page(EntryIn(TableAt(u, l), u, l)') =>
               Translate(u)' = LeafPiece(EntryIn(TableAt(u, l), u, l)', u, l)
        /\ ~ is_page(EntryIn(TableAt(u, l), u, l)') => Translate(u)' = None
    BY <1>3, ReadsNext, Zenon DEF Read
  <2> QED
    BY <1>2, <2>1, Zenon
<1> QED
  BY <1>4, <1>5, Zenon

(***************************************************************************)
(* The inductive invariant.                                                *)
(***************************************************************************)
\* A table not in use is clear, as install_table expects.
ClearInv == \A t \in Table : ~ InUse(t) => \A i \in Index : mem[t][i] = Invalid

\* A table in use is met by some walk.
MetInv == \A t \in Table : InUse(t) => \E u \in Page, l \in 1 .. 4 : TableAt(u, l) = t

\* Two walks that meet the same table meet it at the same level, by the same
\* way.
OnePath == \A u, v \in Page, l, m \in 1 .. 4 :
              TableAt(u, l) # None /\ TableAt(u, l) = TableAt(v, m) =>
                  l = m /\ \A k \in l + 1 .. 4 : u[k] = v[k]

\* No frame is as large as an entry of the root.
RootInv == \A i \in Index : ~ is_page(mem[Root][i])

TlbInv == \A c \in tlb : c.page \in Page /\ c.to = Translate(c.page)

TreeInv == Typed /\ ClearInv /\ MetInv /\ OnePath /\ RootInv

SpaceInv == TreeInv /\ TlbInv

(***************************************************************************)
(* map_frame and unmap write an entry that leads to no table, before or    *)
(* after.                                                                  *)
(***************************************************************************)
\* Entry e goes to the place of page v at level l, in table t.
Write(v, l, t, e) ==
    /\ t \in Table /\ t = TableAt(v, l)
    /\ e \in Entry /\ ~ is_table(e) /\ ~ is_table(mem[t][v[l]])
    /\ SetEntry(t, v[l], e)

\* Writing an entry changes that entry only.
LEMMA Written ==
  ASSUME TreeInv, NEW v \in Page, NEW l \in 1 .. 3, NEW t, NEW e, Write(v, l, t, e)
  PROVE  /\ Typed' /\ mem'[t][v[l]] = e
         /\ \A s \in Table, i \in Index : s # t \/ i # v[l] => mem'[s][i] = mem[s][i]
<1> USE DEF Write
<1>1. v[l] \in Index
  BY Pages
<1>2. mem' = [mem EXCEPT ![t][v[l]] = e] /\ mem \in [Table -> [Index -> Entry]]
  BY Zenon DEF SetEntry, TreeInv, Typed
<1> QED
  BY <1>1, <1>2, Zenon DEF Typed

\* No walk takes another way.
LEMMA WriteKeepsWalks ==
  ASSUME TreeInv, NEW v \in Page, NEW l \in 1 .. 3, NEW t, NEW e, Write(v, l, t, e),
         NEW u \in Page, NEW k \in 1 .. 4
  PROVE  TableAt(u, k)' = TableAt(u, k)
<1>1. /\ Typed /\ Typed' /\ mem'[t][v[l]] = e
      /\ \A s \in Table, i \in Index : s # t \/ i # v[l] => mem'[s][i] = mem[s][i]
      /\ ~ is_table(e) /\ ~ is_table(mem[t][v[l]]) /\ t \in Table
  BY Written DEF TreeInv, Write
<1>2. ASSUME NEW m \in 1 .. 3, TableAt(u, m + 1)' = TableAt(u, m + 1)
      PROVE  TableAt(u, m)' = TableAt(u, m)
  <2> DEFINE s == TableAt(u, m + 1)
             i == u[m + 1]
  <2>1. i \in Index
    BY Pages
  <2>2. /\ s \in Table /\ is_table(mem[s][i]) => TableAt(u, m) = mem[s][i].to
        /\ ~ (s \in Table /\ is_table(mem[s][i])) => TableAt(u, m) = None
    BY <1>1, StepsDown, Zenon DEF Stepped, EntryIn
  <2>3. /\ s \in Table /\ is_table(mem'[s][i]) => TableAt(u, m)' = mem'[s][i].to
        /\ ~ (s \in Table /\ is_table(mem'[s][i])) => TableAt(u, m)' = None
    BY <1>1, <1>2, StepsDownNext DEF Stepped, EntryIn
  <2> HIDE DEF s, i
  <2>4. CASE s \in Table /\ (s # t \/ i # v[l])
    BY <1>1, <2>1, <2>2, <2>3, <2>4, Zenon
  <2>5. CASE s = t /\ i = v[l]
    BY <1>1, <2>2, <2>3, <2>5, Zenon
  <2>6. CASE s \notin Table
    BY <2>2, <2>3, <2>6, Zenon
  <2> QED
    BY <2>4, <2>5, <2>6, Zenon
<1>3. TableAt(u, 4)' = TableAt(u, 4)
  BY <1>1, Meets, MeetsNext, Zenon DEF Met
<1>4. TableAt(u, 3)' = TableAt(u, 3)
  BY <1>2, <1>3
<1>5. TableAt(u, 2)' = TableAt(u, 2)
  BY <1>2, <1>4
<1>6. TableAt(u, 1)' = TableAt(u, 1)
  BY <1>2, <1>5
<1>7. k = 1 \/ k = 2 \/ k = 3 \/ k = 4
  OBVIOUS
<1> QED
  BY <1>3, <1>4, <1>5, <1>6, <1>7, Zenon

\* The tables in use stay the same.
LEMMA WriteKeepsTree ==
  ASSUME TreeInv, NEW v \in Page, NEW l \in 1 .. 3, NEW t, NEW e, Write(v, l, t, e)
  PROVE  TreeInv'
<1>1. /\ Typed /\ ClearInv /\ MetInv /\ OnePath /\ RootInv
      /\ Typed' /\ mem'[t][v[l]] = e
      /\ \A s \in Table, i \in Index : s # t \/ i # v[l] => mem'[s][i] = mem[s][i]
      /\ ~ is_table(e) /\ ~ is_table(mem[t][v[l]]) /\ t \in Table /\ t = TableAt(v, l)
  BY Written DEF TreeInv, Write
<1>2. \A u \in Page, k \in 1 .. 4 : TableAt(u, k)' = TableAt(u, k)
  BY WriteKeepsWalks, Zenon
<1>3. v[l] \in Index
  BY Pages
<1>4. \A s \in Table : InUse(s)' <=> InUse(s)
  <2>1. ASSUME NEW s \in Table, NEW r \in Table, NEW i \in Index
        PROVE  mem'[r][i] = new_table(s) <=> mem[r][i] = new_table(s)
    <3>1. is_table(new_table(s))
      BY Zenon DEF is_table, new_table
    <3> QED
      BY <1>1, <3>1, Zenon
  <2> QED
    BY <2>1, Zenon DEF InUse
<1>5. InUse(t) /\ t # Root
  <2>1. t # None /\ InUse(t)
    BY <1>1, Meets, Pages DEF Met
  <2>2. ASSUME t = Root PROVE FALSE
    <3>1. TableAt(v, 4) = TableAt(v, l) /\ l # 4 /\ TableAt(v, l) # None
      BY <1>1, <2>1, <2>2, Meets DEF Met
    <3> QED
      BY <1>1, <3>1 DEF OnePath
  <2> QED
    BY <2>1, <2>2, Zenon
<1>6. ClearInv'
  <2>1. ASSUME NEW s \in Table, ~ InUse(s)', NEW i \in Index PROVE mem'[s][i] = Invalid
    <3>1. s # t /\ ~ InUse(s)
      BY <1>4, <1>5, <2>1, Zenon
    <3> QED
      BY <1>1, <3>1, Zenon DEF ClearInv
  <2> QED
    BY <2>1, Zenon DEF ClearInv
<1>7. MetInv'
  BY <1>1, <1>2, <1>4 DEF MetInv
<1>8. OnePath'
  BY <1>1, <1>2 DEF OnePath
<1>9. RootInv'
  BY <1>1, <1>5, Pages, Zenon DEF RootInv
<1> QED
  BY <1>1, <1>6, <1>7, <1>8, <1>9, Zenon DEF TreeInv

\* Only pages of the frame are translated differently.
LEMMA WriteElsewhere ==
  ASSUME TreeInv, NEW v \in Page, NEW l \in 1 .. 3, NEW t, NEW e, Write(v, l, t, e),
         NEW u \in Page, u \notin Region(v, l)
  PROVE  Translate(u)' = Translate(u)
<1>1. /\ Typed /\ Typed' /\ OnePath /\ t = TableAt(v, l) /\ t \in Table
      /\ \A s \in Table, i \in Index : s # t \/ i # v[l] => mem'[s][i] = mem[s][i]
  BY Written DEF TreeInv, Write
<1>2. \A k \in 1 .. 4 : TableAt(u, k)' = TableAt(u, k)
  BY WriteKeepsWalks, Zenon
<1>3. ASSUME NEW k \in 1 .. 4, TableAt(u, k) # None
      PROVE  mem'[TableAt(u, k)][u[k]] = mem[TableAt(u, k)][u[k]]
  <2>1. u[k] \in Index /\ TableAt(u, k) \in Table
    BY <1>1, <1>3, Pages, Meets, Zenon DEF Met
  <2>2. ASSUME TableAt(u, k) = t, u[k] = v[l] PROVE FALSE
    <3>1. k = l /\ \A j \in k + 1 .. 4 : u[j] = v[j]
      BY <1>1, <1>3, <2>2 DEF OnePath
    <3>2. \A j \in l .. 4 : u[j] = v[j]
      BY <2>2, <3>1
    <3> QED
      BY <3>2, Zenon DEF Region
  <2> QED
    BY <1>1, <2>1, <2>2, Zenon
<1> QED
  BY <1>1, <1>2, <1>3, SameTranslation, Zenon

\* The pages of the frame are translated as the entry says, before and after.
LEMMA WriteWithin ==
  ASSUME TreeInv, NEW v \in Page, NEW l \in 1 .. 3, NEW t, NEW e, Write(v, l, t, e),
         NEW u \in Region(v, l)
  PROVE  /\ is_page(mem[t][v[l]]) => Translate(u) = LeafPiece(mem[t][v[l]], u, l)
         /\ ~ is_page(mem[t][v[l]]) => Translate(u) = None
         /\ is_page(e) => Translate(u)' = LeafPiece(e, u, l)
         /\ ~ is_page(e) => Translate(u)' = None
<1>1. /\ Typed /\ Typed' /\ mem'[t][v[l]] = e /\ t \in Table /\ t = TableAt(v, l)
      /\ ~ is_table(e) /\ ~ is_table(mem[t][v[l]])
  BY Written DEF TreeInv, Write
<1>2. u \in Page /\ \A k \in l .. 4 : u[k] = v[k]
  BY Zenon DEF Region
<1>3. u[l] = v[l] /\ \A k \in l + 1 .. 4 : u[k] = v[k]
  BY <1>2
<1>4. TableAt(u, l) = t
  BY <1>1, <1>2, <1>3, SamePaths DEF SamePath
<1>5. TableAt(u, l)' = t
  BY <1>2, <1>4, WriteKeepsWalks
<1>6. End(u, l) /\ EntryIn(TableAt(u, l), u, l) = mem[t][v[l]]
  BY <1>1, <1>3, <1>4, Pages, Zenon DEF End, EntryIn
<1>7. End(u, l)' /\ EntryIn(TableAt(u, l), u, l)' = e
  BY <1>1, <1>3, <1>5, Pages, Zenon DEF End, EntryIn
<1>8. /\ is_page(mem[t][v[l]]) => Translate(u) = LeafPiece(mem[t][v[l]], u, l)
      /\ ~ is_page(mem[t][v[l]]) => Translate(u) = None
  BY <1>1, <1>2, <1>6, Reads DEF Read
<1>9. /\ is_page(e) => Translate(u)' = LeafPiece(e, u, l)
      /\ ~ is_page(e) => Translate(u)' = None
  <2>1. /\ is_page(EntryIn(TableAt(u, l), u, l)') =>
               Translate(u)' = LeafPiece(EntryIn(TableAt(u, l), u, l)', u, l)
        /\ ~ is_page(EntryIn(TableAt(u, l), u, l)') => Translate(u)' = None
    BY <1>1, <1>2, <1>7, ReadsNext DEF Read
  <2> QED
    BY <1>7, <2>1, Zenon
<1> QED
  BY <1>8, <1>9, Zenon

(***************************************************************************)
(* install_table.                                                          *)
(***************************************************************************)
\* Table t goes below table up on the way to page v, at level m.
Install(v, m, up, t) ==
    /\ t \in Table /\ ~ InUse(t)
    /\ up \in Table /\ up = TableAt(v, m + 1)
    /\ mem[up][v[m + 1]] = Invalid
    /\ SetEntry(up, v[m + 1], new_table(t))

\* What is known before and after a table is installed.
LEMMA Installed ==
  ASSUME TreeInv, NEW v \in Page, NEW m \in 1 .. 3, NEW up, NEW t, Install(v, m, up, t)
  PROVE  /\ Typed /\ Typed' /\ ClearInv /\ MetInv /\ OnePath /\ RootInv
         /\ t \in Table /\ t # None /\ t # Root /\ ~ InUse(t) /\ up \in Table /\ up # t
         /\ up = TableAt(v, m + 1) /\ InUse(up)
         /\ v[m + 1] \in Index /\ mem[up][v[m + 1]] = Invalid
         /\ mem'[up][v[m + 1]] = new_table(t)
         /\ \A s \in Table, i \in Index : s # up \/ i # v[m + 1] => mem'[s][i] = mem[s][i]
         /\ \A i \in Index : mem[t][i] = Invalid /\ mem'[t][i] = Invalid
         /\ ~ is_table(Invalid) /\ ~ is_page(Invalid) /\ is_table(new_table(t))
         /\ new_table(t).to = t
<1> USE DEF Install
<1>1. v[m + 1] \in Index
  BY Pages
<1>2. /\ mem' = [mem EXCEPT ![up][v[m + 1]] = new_table(t)]
      /\ mem \in [Table -> [Index -> Entry]]
  BY Zenon DEF SetEntry, TreeInv, Typed
<1>3. t # Root /\ t # None /\ up # None
  BY Pages, Zenon DEF InUse
<1>4. new_table(t) \in Entry
  BY <1>3, Zenon DEF Entry
<1>5. /\ Typed' /\ mem'[up][v[m + 1]] = new_table(t)
      /\ \A s \in Table, i \in Index : s # up \/ i # v[m + 1] => mem'[s][i] = mem[s][i]
  BY <1>1, <1>2, <1>4, Zenon DEF Typed
<1>6. InUse(up)
  <2>1. m + 1 \in 1 .. 4 /\ Typed
    BY DEF TreeInv
  <2> QED
    BY <1>3, <2>1, Meets, Zenon DEF Met
<1>7. up # t
  BY <1>6, Zenon
<1>8. \A i \in Index : mem[t][i] = Invalid /\ mem'[t][i] = Invalid
  BY <1>5, <1>7 DEF TreeInv, ClearInv
<1>9. /\ ~ is_table(Invalid) /\ ~ is_page(Invalid) /\ is_table(new_table(t))
      /\ new_table(t).to = t
  BY Zenon DEF is_table, is_page, Invalid, new_table
<1>10. Typed /\ ClearInv /\ MetInv /\ OnePath /\ RootInv
  BY Zenon DEF TreeInv
<1> QED
  BY <1>1, <1>3, <1>5, <1>6, <1>7, <1>8, <1>9, <1>10, Zenon

\* A page below the new table.
Below(u, v, m) == \A j \in m + 1 .. 4 : u[j] = v[j]

\* Pages below the new table had none there before; the entry above was free.
LEMMA BelowBefore ==
  ASSUME TreeInv, NEW v \in Page, NEW m \in 1 .. 3, NEW up, NEW t, Install(v, m, up, t),
         NEW u \in Page, Below(u, v, m)
  PROVE  /\ TableAt(u, m + 1) = up /\ u[m + 1] = v[m + 1]
         /\ TableAt(u, m) = None
         /\ End(u, m + 1)
<1>1. /\ Typed /\ up = TableAt(v, m + 1) /\ up \in Table /\ mem[up][v[m + 1]] = Invalid
      /\ ~ is_table(Invalid) /\ m + 1 \in 1 .. 4
  BY Installed
<1>2. u[m + 1] = v[m + 1] /\ \A j \in (m + 1) + 1 .. 4 : u[j] = v[j]
  BY DEF Below
<1>3. TableAt(u, m + 1) = up
  BY <1>1, <1>2, SamePaths, Zenon DEF SamePath
<1>4. EntryIn(TableAt(u, m + 1), u, m + 1) = Invalid
  BY <1>1, <1>2, <1>3, Zenon DEF EntryIn
<1>5. TableAt(u, m) = None
  BY <1>1, <1>3, <1>4, StepsDown, Zenon DEF Stepped
<1>6. End(u, m + 1)
  BY <1>1, <1>3, <1>4, Pages, Zenon DEF End
<1> QED
  BY <1>2, <1>3, <1>5, <1>6, Zenon

\* A walk meets the place of the new entry only on the way to a page below it.
LEMMA MeetsPlace ==
  ASSUME TreeInv, NEW v \in Page, NEW m \in 1 .. 3, NEW up, NEW t, Install(v, m, up, t),
         NEW u \in Page, NEW k \in 1 .. 4, TableAt(u, k) = up, u[k] = v[m + 1]
  PROVE  k = m + 1 /\ Below(u, v, m)
<1>1. /\ OnePath /\ up = TableAt(v, m + 1) /\ up \in Table /\ up # None /\ m + 1 \in 1 .. 4
  BY Installed, Pages
<1>2. k = m + 1 /\ \A j \in k + 1 .. 4 : u[j] = v[j]
  BY <1>1 DEF OnePath
<1>3. \A j \in m + 1 .. 4 : u[j] = v[j]
  BY <1>2
<1> QED
  BY <1>2, <1>3, Zenon DEF Below

\* The walks to pages below the new table meet it, and nothing else changes.
LEMMA InstallWalks ==
  ASSUME TreeInv, NEW v \in Page, NEW m \in 1 .. 3, NEW up, NEW t, Install(v, m, up, t),
         NEW u \in Page, NEW k \in 1 .. 4
  PROVE  /\ k = m /\ Below(u, v, m) => TableAt(u, k)' = t
         /\ ~ (k = m /\ Below(u, v, m)) => TableAt(u, k)' = TableAt(u, k)
<1> DEFINE New(j) == j = m /\ Below(u, v, m)
           Good(j) == /\ New(j) => TableAt(u, j)' = t
                      /\ ~ New(j) => TableAt(u, j)' = TableAt(u, j)
<1>1. /\ Typed /\ Typed' /\ t \in Table /\ t # None /\ up \in Table
      /\ mem'[up][v[m + 1]] = new_table(t)
      /\ \A s \in Table, i \in Index : s # up \/ i # v[m + 1] => mem'[s][i] = mem[s][i]
      /\ \A i \in Index : mem'[t][i] = Invalid
      /\ ~ is_table(Invalid) /\ is_table(new_table(t)) /\ new_table(t).to = t
  BY Installed
<1>2. ASSUME NEW j \in 1 .. 3, Good(j + 1) PROVE Good(j)
  <2> DEFINE s == TableAt(u, j + 1)
             i == u[j + 1]
  <2>1. i \in Index
    BY Pages
  <2>2. /\ s \in Table /\ is_table(mem[s][i]) => TableAt(u, j) = mem[s][i].to
        /\ ~ (s \in Table /\ is_table(mem[s][i])) => TableAt(u, j) = None
    BY <1>1, StepsDown, Zenon DEF Stepped, EntryIn
  <2>3. \A r : TableAt(u, j + 1)' = r =>
            /\ r \in Table /\ is_table(mem'[r][i]) => TableAt(u, j)' = mem'[r][i].to
            /\ ~ (r \in Table /\ is_table(mem'[r][i])) => TableAt(u, j)' = None
    BY <1>1, StepsDownNext DEF Stepped, EntryIn
  <2>4. New(j) => s = up /\ i = v[m + 1]
    BY BelowBefore
  <2>5. s = up /\ i = v[m + 1] => New(j)
    <3>1. ASSUME s = up, i = v[m + 1] PROVE New(j)
      <4>1. j + 1 \in 1 .. 4
        OBVIOUS
      <4>2. j + 1 = m + 1 /\ Below(u, v, m)
        BY <3>1, <4>1, MeetsPlace, Zenon
      <4> QED
        BY <4>2
    <3> QED
      BY <3>1, Zenon
  <2>6. CASE New(j + 1)
    <3>1. TableAt(u, j + 1)' = t /\ ~ New(j)
      BY <1>2, <2>6
    <3>2. TableAt(u, j)' = None
      BY <1>1, <2>1, <2>3, <3>1, Zenon
    <3>3. TableAt(u, j + 1) = None
      BY <2>6, BelowBefore
    <3>4. TableAt(u, j) = None
      BY <2>2, <3>3, Pages, Zenon
    <3> QED
      BY <3>1, <3>2, <3>4, Zenon
  <2>7. CASE ~ New(j + 1)
    <3>1. TableAt(u, j + 1)' = s
      BY <1>2, <2>7, Zenon
    <3> HIDE DEF s, i, New
    <3>2. CASE s = up /\ i = v[m + 1]
      <4>1. TableAt(u, j)' = t
        BY <1>1, <2>3, <3>1, <3>2, Zenon
      <4> QED
        BY <2>5, <3>2, <4>1, Zenon
    <3>3. CASE ~ (s = up /\ i = v[m + 1])
      <4>1. s \in Table => mem'[s][i] = mem[s][i]
        BY <1>1, <2>1, <3>3, Zenon
      <4>2. TableAt(u, j)' = TableAt(u, j)
        BY <2>2, <2>3, <3>1, <4>1, Zenon
      <4> QED
        BY <2>4, <3>3, <4>2, Zenon
    <3> QED
      BY <3>2, <3>3, Zenon
  <2> QED
    BY <2>6, <2>7, Zenon
<1>3. Good(4)
  BY <1>1, Meets, MeetsNext DEF Met
<1> HIDE DEF Good
<1>4. Good(3)
  BY <1>2, <1>3
<1>5. Good(2)
  BY <1>2, <1>4
<1>6. Good(1)
  BY <1>2, <1>5
<1>7. k = 1 \/ k = 2 \/ k = 3 \/ k = 4
  OBVIOUS
<1>8. Good(k)
  BY <1>3, <1>4, <1>5, <1>6, <1>7, Zenon
<1> QED
  BY <1>8, Zenon DEF Good

\* install_table keeps the tables a tree.
LEMMA InstallKeepsTree ==
  ASSUME TreeInv, NEW v \in Page, NEW m \in 1 .. 3, NEW up, NEW t, Install(v, m, up, t)
  PROVE  TreeInv'
<1>1. /\ Typed /\ Typed' /\ ClearInv /\ MetInv /\ OnePath /\ RootInv
      /\ t \in Table /\ t # None /\ t # Root /\ ~ InUse(t) /\ up \in Table /\ up # t
      /\ InUse(up) /\ v[m + 1] \in Index /\ mem[up][v[m + 1]] = Invalid
      /\ mem'[up][v[m + 1]] = new_table(t)
      /\ \A s \in Table, i \in Index : s # up \/ i # v[m + 1] => mem'[s][i] = mem[s][i]
  BY Installed
<1>2. \A u \in Page, k \in 1 .. 4 :
          /\ k = m /\ Below(u, v, m) => TableAt(u, k)' = t
          /\ ~ (k = m /\ Below(u, v, m)) => TableAt(u, k)' = TableAt(u, k)
  BY InstallWalks
<1>3. \A u \in Page : Below(u, v, m) => TableAt(u, m) = None
  BY BelowBefore, Zenon
<1>4. \A u \in Page, k \in 1 .. 4 : TableAt(u, k) \in Table \cup {None} /\ TableAt(u, k) # t
  BY <1>1, Meets, Zenon DEF Met
<1>5. \A s \in Table : InUse(s)' <=> (InUse(s) \/ s = t)
  <2>1. ASSUME NEW s \in Table, NEW r \in Table, NEW i \in Index, mem'[r][i] = new_table(s)
        PROVE  mem[r][i] = new_table(s) \/ s = t
    <3>1. CASE r = up /\ i = v[m + 1]
      BY <1>1, <2>1, <3>1 DEF new_table
    <3>2. CASE ~ (r = up /\ i = v[m + 1])
      BY <1>1, <2>1, <3>2, Zenon
    <3> QED
      BY <3>1, <3>2, Zenon
  <2>2. ASSUME NEW s \in Table, NEW r \in Table, NEW i \in Index, mem[r][i] = new_table(s)
        PROVE  mem'[r][i] = new_table(s)
    BY <1>1, <2>2 DEF new_table, Invalid
  <2>3. \E r \in Table, i \in Index : mem'[r][i] = new_table(t)
    BY <1>1, Zenon
  <2> QED
    BY <2>1, <2>2, <2>3 DEF InUse
<1>6. ClearInv'
  <2>1. ASSUME NEW s \in Table, ~ InUse(s)', NEW i \in Index PROVE mem'[s][i] = Invalid
    <3>1. s # up /\ ~ InUse(s)
      BY <1>1, <1>5, <2>1, Zenon
    <3> QED
      BY <1>1, <3>1 DEF ClearInv
  <2> QED
    BY <2>1, Zenon DEF ClearInv
<1>7. MetInv'
  <2>1. ASSUME NEW s \in Table, InUse(s)'
        PROVE  \E u \in Page, l \in 1 .. 4 : TableAt(u, l)' = s
    <3>1. CASE s = t
      <4>1. Below(v, v, m) /\ m \in 1 .. 4
        BY DEF Below
      <4> QED
        BY <1>2, <3>1, <4>1, Zenon
    <3>2. CASE s # t
      <4>1. PICK u \in Page, l \in 1 .. 4 : TableAt(u, l) = s
        BY <1>1, <1>5, <2>1, <3>2, Zenon DEF MetInv
      <4>2. ~ (l = m /\ Below(u, v, m))
        BY <1>3, <4>1, Pages, Zenon
      <4> QED
        BY <1>2, <4>1, <4>2, Zenon
    <3> QED
      BY <3>1, <3>2, Zenon
  <2> QED
    BY <2>1, Zenon DEF MetInv
<1>8. OnePath'
  <2>1. ASSUME NEW u \in Page, NEW w \in Page, NEW l \in 1 .. 4, NEW k \in 1 .. 4,
               TableAt(u, l)' # None, TableAt(u, l)' = TableAt(w, k)'
        PROVE  l = k /\ \A j \in l + 1 .. 4 : u[j] = w[j]
    <3>1. CASE l = m /\ Below(u, v, m)
      <4>1. k = m /\ Below(w, v, m)
        BY <1>2, <1>4, <2>1, <3>1
      <4> QED
        BY <3>1, <4>1, Zenon DEF Below
    <3>2. CASE ~ (l = m /\ Below(u, v, m))
      <4>1. ~ (k = m /\ Below(w, v, m))
        BY <1>2, <1>4, <2>1, <3>2
      <4>2. TableAt(u, l) # None /\ TableAt(u, l) = TableAt(w, k)
        BY <1>2, <2>1, <3>2, <4>1, Zenon
      <4> QED
        BY <1>1, <4>2 DEF OnePath
    <3> QED
      BY <3>1, <3>2, Zenon
  <2> QED
    BY <2>1 DEF OnePath
<1>9. RootInv'
  <2>1. ~ is_page(new_table(t))
    BY Zenon DEF is_page, new_table
  <2> QED
    BY <1>1, <2>1, Pages, Zenon DEF RootInv
<1> QED
  BY <1>1, <1>6, <1>7, <1>8, <1>9, Zenon DEF TreeInv

\* A new table is empty: no page is translated differently.
LEMMA InstallTranslates ==
  ASSUME TreeInv, NEW v \in Page, NEW m \in 1 .. 3, NEW up, NEW t, Install(v, m, up, t),
         NEW u \in Page
  PROVE  Translate(u)' = Translate(u)
<1>1. /\ Typed /\ Typed' /\ t \in Table /\ t # None /\ up \in Table
      /\ mem[up][v[m + 1]] = Invalid /\ \A i \in Index : mem'[t][i] = Invalid
      /\ \A s \in Table, i \in Index : s # up \/ i # v[m + 1] => mem'[s][i] = mem[s][i]
      /\ ~ is_table(Invalid) /\ ~ is_page(Invalid)
  BY Installed
<1>2. CASE Below(u, v, m)
  <2>1. /\ TableAt(u, m + 1) = up /\ u[m + 1] = v[m + 1] /\ End(u, m + 1)
        /\ m \in 1 .. 4 /\ m + 1 \in 1 .. 4
    BY <1>2, BelowBefore
  <2>2. Translate(u) = None
    BY <1>1, <2>1, Reads, Zenon DEF Read, EntryIn
  <2>3. TableAt(u, m)' = t
    BY <1>2, <2>1, InstallWalks
  <2>4. EntryIn(TableAt(u, m), u, m)' = Invalid
    BY <1>1, <2>1, <2>3, Pages, Zenon DEF EntryIn
  <2>5. End(u, m)'
    BY <1>1, <2>3, <2>4, Zenon DEF End
  <2>6. Translate(u)' = None
    <3>1. ~ is_page(EntryIn(TableAt(u, m), u, m)') => Translate(u)' = None
      BY <1>1, <2>1, <2>5, ReadsNext, Zenon DEF Read
    <3> QED
      BY <1>1, <2>4, <3>1, Zenon
  <2> QED
    BY <2>2, <2>6, Zenon
<1>3. CASE ~ Below(u, v, m)
  <2>1. \A k \in 1 .. 4 : TableAt(u, k)' = TableAt(u, k)
    BY <1>3, InstallWalks
  <2>2. ASSUME NEW k \in 1 .. 4, TableAt(u, k) # None
        PROVE  mem'[TableAt(u, k)][u[k]] = mem[TableAt(u, k)][u[k]]
    <3>1. u[k] \in Index /\ TableAt(u, k) \in Table
      BY <1>1, <2>2, Pages, Meets, Zenon DEF Met
    <3>2. ~ (TableAt(u, k) = up /\ u[k] = v[m + 1])
      BY <1>3, MeetsPlace, Zenon
    <3> QED
      BY <1>1, <3>1, <3>2, Zenon
  <2> QED
    BY <1>1, <2>1, <2>2, SameTranslation, Zenon
<1> QED
  BY <1>2, <1>3, Zenon

(***************************************************************************)
(* The operations.                                                         *)
(***************************************************************************)
\* An entry has one cache policy.
LEMMA CachePolicies ==
  ASSUME NEW x
  PROVE  /\ CacheOf(x) \in CachePolicy
         /\ \A c \in CachePolicy :
                x \cap {"WRITE_THROUGH", "CACHE_DISABLE"} = CacheFlags(c) => CacheOf(x) = c
<1> DEFINE y == x \cap {"WRITE_THROUGH", "CACHE_DISABLE"}
<1>1. /\ CacheFlags("WriteBack") = {} /\ CacheFlags("WriteThrough") = {"WRITE_THROUGH"}
      /\ CacheFlags("Uncacheable") = {"CACHE_DISABLE"}
      /\ CacheFlags("WriteCombining") = {"WRITE_THROUGH", "CACHE_DISABLE"}
  BY Zenon DEF CacheFlags
<1>2. \A c \in CachePolicy : c = "WriteBack" \/ c = "WriteThrough" \/ c = "Uncacheable"
                                \/ c = "WriteCombining"
  BY Zenon DEF CachePolicy
<1>3. \A c, d \in CachePolicy : CacheFlags(c) = CacheFlags(d) => c = d
  <2>1. {} # {"WRITE_THROUGH"} /\ {} # {"CACHE_DISABLE"}
        /\ {} # {"WRITE_THROUGH", "CACHE_DISABLE"} /\ {"WRITE_THROUGH"} # {"CACHE_DISABLE"}
    BY Zenon
  <2>2. /\ {"WRITE_THROUGH"} # {"WRITE_THROUGH", "CACHE_DISABLE"}
        /\ {"CACHE_DISABLE"} # {"WRITE_THROUGH", "CACHE_DISABLE"}
    OBVIOUS
  <2> QED
    BY <1>1, <1>2, <2>1, <2>2, Zenon
<1>4. \E c \in CachePolicy : CacheFlags(c) = y
  <2>1. CASE "WRITE_THROUGH" \in x /\ "CACHE_DISABLE" \in x
    <3>1. y = {"WRITE_THROUGH", "CACHE_DISABLE"}
      BY <2>1, Zenon
    <3> QED
      BY <1>1, <3>1, Zenon DEF CachePolicy
  <2>2. CASE "WRITE_THROUGH" \in x /\ "CACHE_DISABLE" \notin x
    <3>1. y = {"WRITE_THROUGH"}
      BY <2>2, Zenon
    <3> QED
      BY <1>1, <3>1, Zenon DEF CachePolicy
  <2>3. CASE "WRITE_THROUGH" \notin x /\ "CACHE_DISABLE" \in x
    <3>1. y = {"CACHE_DISABLE"}
      BY <2>3, Zenon
    <3> QED
      BY <1>1, <3>1, Zenon DEF CachePolicy
  <2>4. CASE "WRITE_THROUGH" \notin x /\ "CACHE_DISABLE" \notin x
    <3>1. y = {}
      BY <2>4, Zenon
    <3> QED
      BY <1>1, <3>1, Zenon DEF CachePolicy
  <2> QED
    BY <2>1, <2>2, <2>3, <2>4, Zenon
<1>5. CacheOf(x) \in CachePolicy /\ CacheFlags(CacheOf(x)) = y
  BY <1>4, Zenon DEF CacheOf
<1> QED
  BY <1>3, <1>5, Zenon

\* The flags that map_frame gives an entry grant what the capability grants.
LEMMA FlagsGrant ==
  ASSUME NEW f \in FrameCap, NEW user \in BOOLEAN, NEW e,
         e = new_page(f.paddr, build_flags(vm_attributes(f, user)))
  PROVE  /\ e \in Entry /\ ~ is_table(e) /\ is_page(e) /\ e.to = f.paddr
         /\ LeafAccess(e) = Space!Granted(f, user)
<1> DEFINE fl == build_flags(vm_attributes(f, user))
<1>1. /\ f.paddr \in Nat /\ f.level \in 1 .. 3 /\ f.cache \in CachePolicy
      /\ f.rights \subseteq {"READ", "WRITE", "EXECUTE"}
  BY PaddrAssumption, Zenon
<1>2. CacheFlags(f.cache) \subseteq {"WRITE_THROUGH", "CACHE_DISABLE"}
  BY <1>1, Zenon DEF CacheFlags, CachePolicy
<1>3. /\ fl \subseteq Flag
      /\ "WRITABLE" \in fl <=> "WRITE" \in f.rights
      /\ "USER" \in fl <=> user
      /\ "NO_EXECUTE" \in fl <=> "EXECUTE" \notin f.rights
      /\ fl \cap {"WRITE_THROUGH", "CACHE_DISABLE"} = CacheFlags(f.cache)
  BY <1>1, <1>2, Zenon DEF build_flags, vm_attributes, vm_rights_from_cap, Flag
<1>4. e = [kind |-> "page", to |-> f.paddr, flags |-> fl]
  BY Zenon DEF new_page
<1> HIDE DEF fl
<1>5. e \in Entry /\ ~ is_table(e) /\ is_page(e) /\ e.to = f.paddr /\ e.flags = fl
  BY <1>1, <1>3, <1>4 DEF Entry, is_table, is_page
<1>6. CacheOf(fl) = f.cache
  BY <1>1, <1>3, CachePolicies, Zenon
<1>7. ("WRITABLE" \in fl) = ("WRITE" \in f.rights)
  <2>1. CASE "WRITE" \in f.rights
    <3>1. ("WRITABLE" \in fl) = TRUE /\ ("WRITE" \in f.rights) = TRUE
      BY <1>3, <2>1, Zenon
    <3> QED
      BY <3>1, Zenon
  <2>2. CASE ~ ("WRITE" \in f.rights)
    <3>1. ("WRITABLE" \in fl) = FALSE /\ ("WRITE" \in f.rights) = FALSE
      BY <1>3, <2>2
    <3> QED
      BY <3>1, Zenon
  <2> QED
    BY <2>1, <2>2, Zenon
<1>8. ("NO_EXECUTE" \notin fl) = ("EXECUTE" \in f.rights)
  <2>1. CASE "EXECUTE" \in f.rights
    <3>1. ("NO_EXECUTE" \notin fl) = TRUE /\ ("EXECUTE" \in f.rights) = TRUE
      BY <1>3, <2>1, Zenon
    <3> QED
      BY <3>1, Zenon
  <2>2. CASE ~ ("EXECUTE" \in f.rights)
    <3>1. ("NO_EXECUTE" \notin fl) = FALSE /\ ("EXECUTE" \in f.rights) = FALSE
      BY <1>3, <2>2
    <3> QED
      BY <3>1, Zenon
  <2> QED
    BY <2>1, <2>2, Zenon
<1>9. ("USER" \in fl) = user
  <2>1. CASE user = TRUE
    <3>1. ("USER" \in fl) = TRUE
      BY <1>3, <2>1, Zenon
    <3> QED
      BY <2>1, <3>1, Zenon
  <2>2. CASE user = FALSE
    <3>1. ("USER" \in fl) = FALSE
      BY <1>3, <2>2
    <3> QED
      BY <2>2, <3>1, Zenon
  <2> QED
    BY <2>1, <2>2, Zenon
<1>10. LeafAccess(e) = Space!Granted(f, user)
  <2>1. LeafAccess(e) = [write |-> "WRITABLE" \in fl, user |-> "USER" \in fl,
                         execute |-> "NO_EXECUTE" \notin fl, cache |-> CacheOf(fl)]
    BY <1>5, Zenon DEF LeafAccess
  <2>2. LeafAccess(e) = [write |-> "WRITE" \in f.rights, user |-> user,
                         execute |-> "EXECUTE" \in f.rights, cache |-> f.cache]
    BY <1>6, <1>7, <1>8, <1>9, <2>1, Zenon
  <2>3. [write |-> "WRITE" \in f.rights, user |-> user,
         execute |-> "EXECUTE" \in f.rights, cache |-> f.cache]
          = [write |-> "WRITE" \in f.rights, execute |-> "EXECUTE" \in f.rights,
             user |-> user, cache |-> f.cache]
    BY Zenon
  <2> QED
    BY <2>2, <2>3, Zenon DEF Space!Granted
<1> QED
  BY <1>5, <1>10, Zenon

\* Pages of the frame at v, which starts where v has no offset in it.
LEMMA Regions ==
  ASSUME NEW v \in Page, NEW l \in 1 .. 3
  PROVE  /\ Region(v, l) \subseteq Page /\ v \in Region(v, l)
         /\ \A u \in Page : Offset(u, l) \in Nat
         /\ (\A k \in 1 .. l - 1 : v[k] = 0) => Offset(v, l) = 0
<1>1. FANOUT \in Nat /\ Index \subseteq Nat
  BY PaddrAssumption DEF Index
<1>2. \A u \in Page : u[1] \in Nat /\ u[2] \in Nat
  <2>1. 1 \in 1 .. 4 /\ 2 \in 1 .. 4
    OBVIOUS
  <2>2. \A u \in Page : u[1] \in Index /\ u[2] \in Index
    BY <2>1, Pages, Zenon
  <2> QED
    BY <1>1, <2>2, Zenon
<1>3. \A u \in Page : FANOUT * u[2] \in Nat
  <2>1. \A x, y \in Nat : x * y \in Nat
    OBVIOUS
  <2> QED
    BY <1>1, <1>2, <2>1, Zenon
<1>4. \A u \in Page : Offset(u, l) \in Nat
  BY <1>2, <1>3 DEF Offset
<1>5. ASSUME \A k \in 1 .. l - 1 : v[k] = 0
      PROVE  Offset(v, l) = 0
  <2>1. l = 1 \/ l = 2 \/ l = 3
    OBVIOUS
  <2>2. FANOUT * 0 = 0
    BY <1>1
  <2> QED
    BY <1>5, <2>1, <2>2 DEF Offset
<1> QED
  BY <1>4, <1>5, Zenon DEF Region

\* A piece of a frame is a translation, never None.
LEMMA PiecesTranslate ==
  ASSUME NEW e \in Entry, is_page(e), NEW l \in 1 .. 3, NEW u \in Page
  PROVE  LeafPiece(e, u, l) \in Translation /\ LeafPiece(e, u, l) # None
<1>1. e.to \in Nat /\ Offset(u, l) \in Nat
  BY EntryKinds, Regions, Zenon
<1>2. CacheOf(e.flags) \in CachePolicy
  BY CachePolicies, Zenon
<1>3. LeafAccess(e) \in [write : BOOLEAN, user : BOOLEAN, execute : BOOLEAN, cache : CachePolicy]
  BY <1>2 DEF LeafAccess
<1>4. e.to + Offset(u, l) \in Nat
  BY <1>1
<1>5. LeafPiece(e, u, l) \in Translation
  BY <1>3, <1>4, Zenon DEF LeafPiece, Translation
<1> QED
  BY <1>5, NoneAssumption, Zenon

\* map_frame writes a page entry over a free one.
LEMMA MapWrites ==
  ASSUME TreeInv, NEW v \in Vaddr, NEW f \in FrameCap, NEW user \in BOOLEAN,
         map_frame(v, f, user)
  PROVE  \E t, e : /\ v.page \in Page /\ f.level \in 1 .. 3
                   /\ Write(v.page, f.level, t, e)
                   /\ is_page(e) /\ ~ is_page(mem[t][v.page[f.level]])
                   /\ e.to = f.paddr /\ LeafAccess(e) = Space!Granted(f, user)
                   /\ \A k \in 1 .. f.level - 1 : v.page[k] = 0
                   /\ flush_page(v.page, f.level)
<1> DEFINE l == f.level
           t == TableAt(v.page, l)
           e == new_page(f.paddr, build_flags(vm_attributes(f, user)))
<1>1. v.page \in Page /\ l \in 1 .. 3 /\ l \in 1 .. 4
  BY NamedAssumption, PaddrAssumption DEF Vaddr
<1>2. /\ e \in Entry /\ ~ is_table(e) /\ is_page(e) /\ e.to = f.paddr
      /\ LeafAccess(e) = Space!Granted(f, user)
  BY FlagsGrant, Zenon
<1>3. /\ t # None /\ ~ is_present(EntryIn(t, v.page, l)) /\ SetEntry(t, v.page[l], e)
      /\ flush_page(v.page, l) /\ \A k \in 1 .. l - 1 : v.page[k] = 0
  BY Zenon DEF map_frame, vaddr_aligned
<1>4. t \in Table
  BY <1>1, <1>3, Meets, Zenon DEF Met, TreeInv
<1> HIDE DEF e
<1>5. mem[t][v.page[l]] \in Entry /\ ~ is_present(mem[t][v.page[l]])
  BY <1>1, <1>3, <1>4, Pages, Zenon DEF EntryIn, TreeInv, Typed
<1>6. ~ is_table(mem[t][v.page[l]]) /\ ~ is_page(mem[t][v.page[l]])
  BY <1>5, EntryKinds, Zenon
<1>7. Write(v.page, l, t, e)
  BY <1>2, <1>3, <1>4, <1>6, Zenon DEF Write
<1> HIDE DEF l, t
<1>8. /\ v.page \in Page /\ l \in 1 .. 3
      /\ Write(v.page, l, t, e)
      /\ is_page(e) /\ ~ is_page(mem[t][v.page[l]])
      /\ e.to = f.paddr /\ LeafAccess(e) = Space!Granted(f, user)
      /\ \A k \in 1 .. l - 1 : v.page[k] = 0
      /\ flush_page(v.page, l)
  BY <1>1, <1>2, <1>3, <1>6, <1>7, Zenon
<1> QED
  BY <1>8, Zenon DEF l

\* unmap writes an invalid entry over a page entry.
LEMMA UnmapWrites ==
  ASSUME TreeInv, NEW v \in Vaddr, unmap(v)
  PROVE  \E l \in 1 .. 3 : \E t : /\ v.page \in Page
                                  /\ Write(v.page, l, t, Invalid)
                                  /\ is_page(mem[t][v.page[l]]) /\ ~ is_page(Invalid)
                                  /\ mem[t][v.page[l]] \in Entry
                                  /\ flush_page(v.page, l)
<1> DEFINE u == v.page
<1>1. u \in Page /\ Typed
  BY NamedAssumption, Zenon DEF Vaddr, TreeInv
<1> HIDE DEF u
<1>2. PICK l \in 1 .. 4 : End(u, l)
  BY <1>1, Ends, Zenon DEF Ended
<1> DEFINE t == TableAt(u, l)
           e == mem[t][u[l]]
<1>3. /\ walk(u) = [level |-> l, entry |-> EntryIn(t, u, l)]
      /\ t \in Table
  BY <1>1, <1>2, Ends DEF Ended
<1>4. walk(u).level = l /\ walk(u).entry = e
  BY <1>3 DEF EntryIn
<1>5. is_page(e) /\ SetEntry(t, u[l], Invalid) /\ flush_page(u, l)
  BY <1>4, Zenon DEF unmap, u
<1>6. u[l] \in Index /\ e \in Entry
  BY <1>1, <1>3, Pages, Zenon DEF Typed
<1>7. ~ is_table(e)
  BY <1>5, <1>6, EntryKinds, Zenon
<1>8. l # 4
  <2>1. TableAt(u, 4) = Root
    BY <1>1, Meets, Zenon DEF Met
  <2> QED
    BY <1>5, <1>6, <2>1, Zenon DEF TreeInv, RootInv
<1>9. Invalid \in Entry /\ ~ is_table(Invalid) /\ ~ is_page(Invalid)
  BY Zenon DEF Entry, Invalid, is_table, is_page
<1>10. Write(u, l, t, Invalid)
  BY <1>3, <1>5, <1>7, <1>9, Zenon DEF Write
<1>11. l \in 1 .. 3
  BY <1>8
<1> HIDE DEF t
<1>12. /\ u \in Page /\ Write(u, l, t, Invalid) /\ is_page(mem[t][u[l]])
       /\ ~ is_page(Invalid) /\ mem[t][u[l]] \in Entry /\ flush_page(u, l)
  BY <1>1, <1>5, <1>6, <1>9, <1>10, Zenon
<1> QED
  BY <1>11, <1>12, Zenon DEF u

\* install_table installs a table that was not in use below one that is.
LEMMA InstallInstalls ==
  ASSUME TreeInv, NEW v \in Vaddr, NEW level \in 1 .. 3, NEW t \in Table,
         install_table(v, level, t)
  PROVE  \E up : v.page \in Page /\ Install(v.page, level, up, t) /\ UNCHANGED tlb
<1> DEFINE u == v.page
           up == TableAt(u, level + 1)
<1>1. u \in Page /\ Typed /\ level + 1 \in 1 .. 4
  BY NamedAssumption DEF Vaddr, TreeInv
<1>2. /\ up # None /\ ~ InUse(t) /\ ~ is_present(mem[up][u[level + 1]])
      /\ SetEntry(up, u[level + 1], new_table(t)) /\ UNCHANGED tlb
  BY Zenon DEF install_table, EntryIn
<1>3. up \in Table
  BY <1>1, <1>2, Meets, Zenon DEF Met
<1>4. mem[up][u[level + 1]] \in Entry
  BY <1>1, <1>3, Pages, Zenon DEF Typed
<1>5. mem[up][u[level + 1]] = Invalid
  BY <1>2, <1>4, EntryKinds, Zenon
<1> QED
  BY <1>1, <1>2, <1>3, <1>5, Zenon DEF Install

\* Without a write nothing moves.
LEMMA SameMemory ==
  ASSUME TreeInv, UNCHANGED mem
  PROVE  TreeInv' /\ \A u \in Page : Translate(u)' = Translate(u)
<1>1. \A u, l : next_table(u, l)' = next_table(u, l)
  BY Zenon DEF next_table, EntryIn
<1>2. ASSUME NEW u \in Page, NEW l \in 1 .. 4
      PROVE  TableAt(u, l)' = TableAt(u, l)
  <2>1. l = 1 \/ l = 2 \/ l = 3 \/ l = 4
    OBVIOUS
  <2>2. /\ TableAt(u, 4) = Root
        /\ TableAt(u, 3) = next_table(u, 4)[TableAt(u, 4)]
        /\ TableAt(u, 2) = next_table(u, 3)[TableAt(u, 3)]
        /\ TableAt(u, 1) = next_table(u, 2)[TableAt(u, 2)]
    BY Unfolds, Zenon DEF Unfolded
  <2>3. /\ TableAt(u, 4)' = Root
        /\ TableAt(u, 3)' = next_table(u, 4)'[TableAt(u, 4)']
        /\ TableAt(u, 2)' = next_table(u, 3)'[TableAt(u, 3)']
        /\ TableAt(u, 1)' = next_table(u, 2)'[TableAt(u, 2)']
    BY UnfoldsNext, Zenon DEF Unfolded
  <2> QED
    BY <1>1, <2>1, <2>2, <2>3, Zenon
<1>3. Typed /\ Typed'
  BY Zenon DEF TreeInv, Typed
<1>4. \A u \in Page : Translate(u)' = Translate(u)
  BY <1>2, <1>3, SameTranslation, Zenon
<1>5. \A t : InUse(t)' <=> InUse(t)
  BY Zenon DEF InUse
<1>6. TreeInv'
  <2>1. ClearInv' /\ RootInv'
    BY <1>5, Zenon DEF TreeInv, ClearInv, RootInv
  <2>2. MetInv'
    BY <1>2, <1>5, Zenon DEF TreeInv, MetInv
  <2>3. OnePath'
    BY <1>2 DEF TreeInv, OnePath
  <2> QED
    BY <1>3, <2>1, <2>2, <2>3, Zenon DEF TreeInv
<1> QED
  BY <1>4, <1>6, Zenon

\* A write whose frame is flushed leaves the TLB coherent.
LEMMA WriteFlushes ==
  ASSUME SpaceInv, NEW v \in Page, NEW l \in 1 .. 3, NEW t, NEW e, Write(v, l, t, e),
         flush_page(v, l)
  PROVE  SpaceInv'
<1>1. TreeInv'
  BY WriteKeepsTree, Zenon DEF SpaceInv
<1>2. ASSUME NEW c \in tlb'
      PROVE  c.page \in Page /\ c.to = Translate(c.page)'
  <2>1. c \in tlb /\ c.page \notin Region(v, l)
    BY <1>2, Zenon DEF flush_page
  <2>2. c.page \in Page /\ c.to = Translate(c.page)
    BY <2>1, Zenon DEF SpaceInv, TlbInv
  <2>3. \A u \in Page : u \notin Region(v, l) => Translate(u)' = Translate(u)
    BY WriteElsewhere, Zenon DEF SpaceInv
  <2> QED
    BY <2>1, <2>2, <2>3, Zenon
<1>3. TlbInv'
  BY <1>2, Zenon DEF TlbInv
<1> QED
  BY <1>1, <1>3, Zenon DEF SpaceInv

\* Where no translation changes, what the TLB holds stays right.
LEMMA SameTlb ==
  ASSUME TlbInv, \A u \in Page : Translate(u)' = Translate(u), UNCHANGED tlb
  PROVE  TlbInv'
<1>1. ASSUME NEW c \in tlb'
      PROVE  c.page \in Page /\ c.to = Translate(c.page)'
  <2>1. c.page \in Page /\ c.to = Translate(c.page)
    BY Zenon DEF TlbInv
  <2> QED
    BY <2>1, Zenon
<1> QED
  BY <1>1, Zenon DEF TlbInv

\* The processor caches what the tables say.
LEMMA FillGood ==
  ASSUME SpaceInv, NEW u \in Page, Fill(u)
  PROVE  SpaceInv'
<1>1. TreeInv' /\ Translate(u)' = Translate(u)
  BY SameMemory, Zenon DEF SpaceInv, Fill
<1>2. \A c \in tlb' : c = [page |-> u, to |-> Translate(u)]
  BY Zenon DEF Fill
<1>3. ASSUME NEW c \in tlb'
      PROVE  c.page \in Page /\ c.to = Translate(c.page)'
  <2>1. c.page = u /\ c.to = Translate(u)
    BY <1>2
  <2> QED
    BY <1>1, <2>1, Zenon
<1>4. TlbInv'
  BY <1>3, Zenon DEF TlbInv
<1> QED
  BY <1>1, <1>4, Zenon DEF SpaceInv

\* In a clear root every walk ends at once.
LEMMA InitSpaceInv ==
  ASSUME Init
  PROVE  SpaceInv /\ \A u \in Page : Translate(u) = None
<1>1. Invalid \in Entry /\ ~ is_table(Invalid) /\ ~ is_page(Invalid)
      /\ \A t : Invalid # new_table(t)
  BY Zenon DEF Entry, Invalid, is_table, is_page, new_table
<1>2. Typed /\ \A t \in Table, i \in Index : mem[t][i] = Invalid
  BY <1>1, Zenon DEF Init, Typed
<1>3. \A t \in Table : InUse(t) => t = Root
  BY <1>1, <1>2, Zenon DEF InUse
<1>4. \A u \in Page : TableAt(u, 4) = Root
  BY <1>2, Meets, Zenon DEF Met
<1>5. \A u \in Page : EntryIn(Root, u, 4) = Invalid
  BY <1>2, Pages DEF EntryIn
<1>6. Root # None
  BY Pages, Zenon
<1>7. \A u \in Page : End(u, 4)
  BY <1>1, <1>4, <1>5, <1>6, Zenon DEF End
<1>8. \A u \in Page : Translate(u) = None
  BY <1>1, <1>2, <1>4, <1>5, <1>7, Reads DEF Read
<1>9. \A u \in Page, l \in 1 .. 3 : TableAt(u, l) = None
  <2>1. \A u \in Page, l \in 1 .. 3 : TableAt(u, l) \in Table \cup {None}
    BY <1>2, Meets DEF Met
  <2>2. \A u \in Page, l \in 1 .. 4 : TableAt(u, l) \in Table => ~ is_table(EntryIn(TableAt(u, l), u, l))
    BY <1>1, <1>2, Pages, Zenon DEF EntryIn
  <2>3. \A l \in 1 .. 3 : l + 1 \in 1 .. 4
    OBVIOUS
  <2> QED
    BY <1>2, <2>1, <2>2, <2>3, StepsDown, Zenon DEF Stepped
<1>10. ClearInv /\ RootInv
  BY <1>1, <1>2, Pages, Zenon DEF ClearInv, RootInv
<1>11. OnePath
  <2>1. SUFFICES ASSUME NEW u \in Page, NEW v \in Page, NEW l \in 1 .. 4, NEW m \in 1 .. 4,
                        TableAt(u, l) # None, TableAt(u, l) = TableAt(v, m)
                 PROVE  l = m /\ \A k \in l + 1 .. 4 : u[k] = v[k]
    BY DEF OnePath
  <2>2. l = 4 /\ m = 4
    BY <1>9, <2>1
  <2> QED
    BY <2>2
<1>12. \E u : u \in Page
  <2>1. PICK i \in Pml4Index : TRUE
    BY PaddrAssumption, Zenon
  <2>2. [k \in 1 .. 4 |-> i] \in Page
    BY PaddrAssumption DEF Page, Index
  <2> QED
    BY <2>2, Zenon
<1>13. MetInv
  BY <1>3, <1>4, <1>12 DEF MetInv
<1>14. TlbInv
  BY Zenon DEF Init, TlbInv
<1> QED
  BY <1>2, <1>8, <1>10, <1>11, <1>13, <1>14, Zenon DEF SpaceInv, TreeInv

\* Every step keeps the invariant.
LEMMA NextSpaceInv ==
  ASSUME SpaceInv, [Next]_spaceVars
  PROVE  SpaceInv'
<1>1. ASSUME NEW v \in Vaddr, NEW f \in FrameCap, NEW user \in BOOLEAN, map_frame(v, f, user)
      PROVE  SpaceInv'
  <2>1. PICK t, e : /\ v.page \in Page /\ f.level \in 1 .. 3
                    /\ Write(v.page, f.level, t, e) /\ flush_page(v.page, f.level)
    BY <1>1, MapWrites, Zenon DEF SpaceInv
  <2> QED
    BY <2>1, WriteFlushes, Zenon
<1>2. ASSUME NEW v \in Vaddr, unmap(v)
      PROVE  SpaceInv'
  <2>1. PICK l \in 1 .. 3 : \E t : /\ v.page \in Page /\ Write(v.page, l, t, Invalid)
                                   /\ flush_page(v.page, l)
    BY <1>2, UnmapWrites, Zenon DEF SpaceInv
  <2> QED
    BY <2>1, WriteFlushes, Zenon
<1>3. ASSUME NEW v \in Vaddr, NEW t \in Table, NEW level \in 1 .. 3, install_table(v, level, t)
      PROVE  SpaceInv'
  <2>1. PICK up : v.page \in Page /\ Install(v.page, level, up, t) /\ UNCHANGED tlb
    BY <1>3, InstallInstalls, Zenon DEF SpaceInv
  <2>2. TreeInv'
    BY <2>1, InstallKeepsTree, Zenon DEF SpaceInv
  <2>3. \A u \in Page : Translate(u)' = Translate(u)
    BY <2>1, InstallTranslates, Zenon DEF SpaceInv
  <2>4. TlbInv'
    BY <2>1, <2>3, SameTlb, Zenon DEF SpaceInv
  <2> QED
    BY <2>2, <2>4, Zenon DEF SpaceInv
<1>4. CASE UNCHANGED spaceVars
  BY <1>4, SameMemory, SameTlb, Zenon DEF spaceVars, SpaceInv
<1> QED
  BY <1>1, <1>2, <1>3, <1>4, FillGood, Zenon DEF Next

\* SpaceInv holds in every reachable state.
LEMMA SpaceInductive == Spec => []SpaceInv
<1>1. Init => SpaceInv
  BY InitSpaceInv, Zenon
<1>2. SpaceInv /\ [Next]_spaceVars => SpaceInv'
  BY NextSpaceInv, Zenon
<1> QED
  BY <1>1, <1>2, PTL DEF Spec

\* The TLB never holds a translation the tables do not give: every operation of
\* objects/vspace.rs flushes what it changes, whatever the size of the frame.
THEOREM SpaceTlbCoherent == Spec => []TlbCoherent
<1>1. SpaceInv => TlbCoherent
  BY Zenon DEF SpaceInv, TlbInv, TlbCoherent
<1> QED
  BY <1>1, SpaceInductive, PTL

\* install_table leaves every table in use on exactly one path from the root.
THEOREM SpaceTablesReachable == Spec => []TablesReachable
<1>1. ASSUME SpaceInv, NEW t \in Table, InUse(t)
      PROVE  \E l \in 1 .. 4 :
                 /\ \E u \in Page : TableAt(u, l) = t
                 /\ \A u, v \in Page : TableAt(u, l) = t /\ TableAt(v, l) = t =>
                       \A k \in l + 1 .. 4 : u[k] = v[k]
  <2>1. PICK w \in Page, l \in 1 .. 4 : TableAt(w, l) = t
    BY <1>1, Zenon DEF SpaceInv, TreeInv, MetInv
  <2>2. t # None
    BY Pages, Zenon
  <2>3. \A u, v \in Page : TableAt(u, l) = t /\ TableAt(v, l) = t =>
            \A k \in l + 1 .. 4 : u[k] = v[k]
    BY <1>1, <2>2 DEF SpaceInv, TreeInv, OnePath
  <2> QED
    BY <2>1, <2>3, Zenon
<1>2. SpaceInv => TablesReachable
  BY <1>1, Zenon DEF TablesReachable
<1> QED
  BY <1>2, SpaceInductive, PTL

(***************************************************************************)
(* The tables implement the map of AddressSpace.                           *)
(***************************************************************************)
MapStep == Space!SpaceNext

\* map_frame fills the free region of the frame.
LEMMA MapMapsRegion ==
  ASSUME SpaceInv, NEW v \in Vaddr, NEW f \in FrameCap, NEW user \in BOOLEAN,
         map_frame(v, f, user)
  PROVE  MapStep
<1> DEFINE p == v.page
           l == f.level
           mapping == [u \in Page |-> Translate(u)]
<1>1. PICK t, e : /\ p \in Page /\ l \in 1 .. 3
                  /\ Write(p, l, t, e)
                  /\ is_page(e) /\ ~ is_page(mem[t][p[l]])
                  /\ e.to = f.paddr /\ LeafAccess(e) = Space!Granted(f, user)
                  /\ \A k \in 1 .. l - 1 : p[k] = 0
  BY MapWrites, Zenon DEF SpaceInv
<1> HIDE DEF p, l
<1>2. /\ Region(p, l) \subseteq Page /\ p \in Region(p, l) /\ Offset(p, l) = 0
  BY <1>1, Regions, Zenon
<1>3. \A u \in Region(p, l) : Translate(u) = None /\ Translate(u)' = LeafPiece(e, u, l)
  BY <1>1, WriteWithin, Zenon DEF SpaceInv
<1>4. \A u \in Page \ Region(p, l) : Translate(u)' = Translate(u)
  BY <1>1, WriteElsewhere, Zenon DEF SpaceInv
<1>5. \A u \in Page : LeafPiece(e, u, l) # None
  BY <1>1, PiecesTranslate, Zenon DEF Write
<1>6. \A u : LeafPiece(e, u, l) = Space!Piece(u, f.paddr, l, Space!Granted(f, user))
  BY <1>1, Zenon DEF LeafPiece, Space!Piece
<1>7. \A u \in Page : mapping[u] = Translate(u) /\ mapping'[u] = Translate(u)'
  BY Zenon
<1> HIDE DEF mapping
<1>8. p \in {u \in Page : mapping'[u] # mapping[u]}
  BY <1>2, <1>3, <1>5, <1>7
<1>9. \A u \in Region(p, l) :
          mapping[u] = None /\ mapping'[u] = Space!Piece(u, f.paddr, l, Space!Granted(f, user))
  BY <1>2, <1>3, <1>6, <1>7, Zenon
<1>10. \A u \in Page \ Region(p, l) : mapping'[u] = mapping[u]
  BY <1>4, <1>7, Zenon
<1>11. Space!MapRegion(p, f, user)
  BY <1>9, <1>10, Zenon DEF Space!MapRegion, Space!OthersKept, l, mapping
<1> QED
  BY <1>2, <1>8, <1>11, Zenon DEF MapStep, Space!SpaceNext, l, mapping

\* unmap frees the region of the frame that holds the address.
LEMMA UnmapFreesRegion ==
  ASSUME SpaceInv, NEW v \in Vaddr, unmap(v)
  PROVE  MapStep
<1> DEFINE p == v.page
           mapping == [u \in Page |-> Translate(u)]
<1>1. PICK l \in 1 .. 3 : \E t : /\ p \in Page
                                 /\ Write(p, l, t, Invalid)
                                 /\ is_page(mem[t][p[l]]) /\ ~ is_page(Invalid)
                                 /\ mem[t][p[l]] \in Entry
  BY UnmapWrites, Zenon DEF SpaceInv
<1>2. PICK t : /\ p \in Page
               /\ Write(p, l, t, Invalid)
               /\ is_page(mem[t][p[l]]) /\ ~ is_page(Invalid)
               /\ mem[t][p[l]] \in Entry
  BY <1>1, Zenon
<1> HIDE DEF p
<1>3. PICK e : e = mem[t][p[l]]
  BY Zenon
\* The start of the frame.
<1>4. PICK s \in Page : /\ \A k \in 1 .. l - 1 : s[k] = 0
                        /\ \A k \in l .. 4 : s[k] = p[k]
  <2> DEFINE s == [k \in 1 .. 4 |-> IF k < l THEN 0 ELSE p[k]]
  <2>1. 0 \in Index /\ p \in [1 .. 4 -> Index] /\ p[4] \in Pml4Index
    BY <1>2, PaddrAssumption DEF Page, Index
  <2>2. s \in Page
    BY <2>1 DEF Page
  <2> QED
    BY <2>2
<1>5. Region(s, l) = Region(p, l)
  BY <1>4, Zenon DEF Region
<1>6. /\ Region(s, l) \subseteq Page /\ s \in Region(s, l) /\ Offset(s, l) = 0
  BY <1>4, Regions, Zenon
<1>7. \A u \in Region(s, l) : Translate(u) = LeafPiece(e, u, l) /\ Translate(u)' = None
  BY <1>2, <1>3, <1>5, WriteWithin DEF SpaceInv
<1>8. \A u \in Page \ Region(s, l) : Translate(u)' = Translate(u)
  BY <1>2, <1>5, WriteElsewhere, Zenon DEF SpaceInv
<1>9. \A u \in Page : LeafPiece(e, u, l) # None
  BY <1>2, <1>3, PiecesTranslate, Zenon
<1>10. e.to \in Nat
  BY <1>2, <1>3, EntryKinds, Zenon
<1>11. \A u : LeafPiece(e, u, l) = Space!Piece(u, e.to, l, LeafAccess(e))
  BY Zenon DEF LeafPiece, Space!Piece
<1>12. LeafPiece(e, s, l) = [to |-> e.to, size |-> l, access |-> LeafAccess(e)]
  BY <1>6, <1>10 DEF LeafPiece
<1>13. \A u \in Page : mapping[u] = Translate(u) /\ mapping'[u] = Translate(u)'
  BY Zenon
<1> HIDE DEF mapping
<1>14. s \in {u \in Page : mapping'[u] # mapping[u]} /\ mapping[s] # None
  BY <1>6, <1>7, <1>9, <1>13, Zenon
<1>15. mapping[s].to = e.to /\ mapping[s].size = l /\ mapping[s].access = LeafAccess(e)
  BY <1>6, <1>7, <1>12, <1>13
<1>16. \A u \in Region(s, l) :
          mapping[u] = Space!Piece(u, e.to, l, LeafAccess(e)) /\ mapping'[u] = None
  BY <1>6, <1>7, <1>11, <1>13, Zenon
<1>17. \A u \in Page \ Region(s, l) : mapping'[u] = mapping[u]
  BY <1>8, <1>13, Zenon
<1>18. /\ mapping[s] # None
       /\ Offset(s, mapping[s].size) = 0
       /\ \A u \in Region(s, mapping[s].size) :
             /\ mapping[u] = Space!Piece(u, mapping[s].to, mapping[s].size, mapping[s].access)
             /\ mapping'[u] = None
       /\ \A u \in Page \ Region(s, mapping[s].size) : mapping'[u] = mapping[u]
  BY <1>6, <1>14, <1>15, <1>16, <1>17, Zenon
<1>19. Space!UnmapRegion(s)
  BY <1>18, Zenon DEF Space!UnmapRegion, Space!OthersKept, mapping
<1> QED
  BY <1>14, <1>19, Zenon DEF MapStep, Space!SpaceNext, mapping

\* Four levels of page tables implement a map from pages to physical pages: a
\* frame is mapped over free pages only, whole, with the access its capability
\* grants, unmap frees the whole frame, and install_table changes no translation.
THEOREM SpaceMapsRegions == Spec => MapsRegions
<1> DEFINE mapping == [u \in Page |-> Translate(u)]
<1>1. Init => mapping = [u \in Page |-> None]
  BY InitSpaceInv, Zenon
<1>2. ASSUME SpaceInv, [Next]_spaceVars
      PROVE  MapStep \/ mapping' = mapping
  <2>1. ASSUME \A u \in Page : Translate(u)' = Translate(u)
        PROVE  mapping' = mapping
    BY <2>1, Zenon
  <2>2. ASSUME NEW v \in Vaddr, NEW t \in Table, NEW level \in 1 .. 3,
               install_table(v, level, t)
        PROVE  mapping' = mapping
    <3>1. PICK up : v.page \in Page /\ Install(v.page, level, up, t)
      BY <1>2, <2>2, InstallInstalls, Zenon DEF SpaceInv
    <3>2. \A u \in Page : Translate(u)' = Translate(u)
      BY <1>2, <3>1, InstallTranslates, Zenon DEF SpaceInv
    <3> QED
      BY <2>1, <3>2, Zenon
  <2>3. ASSUME UNCHANGED mem
        PROVE  mapping' = mapping
    BY <1>2, <2>1, <2>3, SameMemory, Zenon DEF SpaceInv
  <2> HIDE DEF mapping
  <2>4. ASSUME NEW u \in Page, Fill(u)
        PROVE  mapping' = mapping
    BY <2>3, <2>4, Zenon DEF Fill
  <2>5. CASE UNCHANGED spaceVars
    BY <2>3, <2>5, Zenon DEF spaceVars
  <2> QED
    BY <1>2, <2>2, <2>4, <2>5, MapMapsRegion, UnmapFreesRegion, Zenon DEF Next
<1>3. Init => Space!SpaceInit
  BY <1>1, Zenon DEF Space!SpaceInit
<1>4. SpaceInv /\ [Next]_spaceVars => [Space!SpaceNext]_mapping
  BY <1>2, Zenon DEF MapStep
<1> QED
  BY <1>3, <1>4, SpaceInductive, PTL DEF Spec, MapsRegions, Space!SpaceSpec
=============================================================================
