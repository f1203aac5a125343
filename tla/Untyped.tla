------------------------------ MODULE Untyped -------------------------------
(***************************************************************************)
(* Allocation of kernel objects from untyped memory: CapRef<UntypedObj> of *)
(* kernel/src/objects/untyped.rs, with the mint functions of the objects   *)
(* it makes.  Capabilities lie in the slots of one CNode; a slice of slots *)
(* is an interval.  retype runs in the kernel with nothing beside it and   *)
(* is one step; a call that returns an error changes nothing and is a      *)
(* stuttering step, its conditions are guards here.                        *)
(***************************************************************************)
EXTENDS Integers

CONSTANTS
    SLOTS,               \* slots of the CNode
    Bytes,               \* Bytes[b]: 1 << b
    Boot,                \* the untyped capabilities the system starts with
    BitSize,             \* the sizes a caller may ask for
    MIN_BIT_SIZE, CNODE_ENTRY_BIT_SZ, PAGE_BITS_4K, TCB_BITS,
    FrameBits,           \* sizes of frames
    MAX_BITS,            \* largest CNode or Untyped
    CNODE_DEPTH,         \* most bits a CNode may resolve
    WORD_BITS,           \* width of a word, and modulus of the CNode fields
    ASIDS                \* number of ASIDs

VARIABLES
    cap,        \* cap[s]: the capability in slot s
    panicked    \* an assertion failed

untypedVars == <<cap, panicked>>

Slot == 1 .. SLOTS

ASSUME SizeAssumption ==
    /\ SLOTS \in Nat /\ BitSize \subseteq Nat
    /\ MIN_BIT_SIZE \in Nat /\ CNODE_ENTRY_BIT_SZ \in Nat
    /\ MAX_BITS \in Nat /\ CNODE_DEPTH \in Nat
    /\ PAGE_BITS_4K \in 0 .. MAX_BITS /\ TCB_BITS \in 0 .. MAX_BITS
    /\ FrameBits \subseteq 0 .. MAX_BITS
    /\ WORD_BITS \in Nat \ {0} /\ ASIDS \in Nat \ {0}

\* All that is used of powers of two: the smaller divides the larger.
ASSUME BytesAssumption ==
    /\ Bytes \in [0 .. MAX_BITS -> Nat \ {0}]
    /\ \A b, c \in 0 .. MAX_BITS :
          Bytes[b] <= Bytes[c] => Bytes[c] % Bytes[b] = 0

Types == {"Untyped", "CNode", "Tcb", "Frame", "VSpace", "Endpoint"}

\* arg: free_offset of an Untyped, ASID of a VSpace, bits a CNode resolves.
Cap == [type : Types, paddr : Nat, bits : 0 .. MAX_BITS, device : BOOLEAN, arg : Nat]
Null == [type |-> "NullObj", paddr |-> 0, bits |-> 0, device |-> FALSE, arg |-> 0]

IsUntyped(s) == cap[s].type = "Untyped"

\* Boot untypeds are aligned to their size and do not overlap.
ASSUME BootAssumption ==
    /\ DOMAIN Boot \subseteq Slot
    /\ \A s \in DOMAIN Boot :
          /\ Boot[s] \in Cap /\ Boot[s].type = "Untyped" /\ Boot[s].arg = 0
          /\ Boot[s].paddr % Bytes[Boot[s].bits] = 0
    /\ \A s, t \in DOMAIN Boot : s # t =>
          \/ Boot[s].paddr + Bytes[Boot[s].bits] <= Boot[t].paddr
          \/ Boot[t].paddr + Bytes[Boot[t].bits] <= Boot[s].paddr

size(s) == Bytes[cap[s].bits]
free_offset(s) == cap[s].arg

\* The plausible slip of rounding down.
AlignDown(n, b) == LET m == Bytes[b] IN (n \div m) * m

\* alignup!: the next multiple of 2^b from n on.
alignup(n, b) == LET m == Bytes[b] IN ((n + m - 1) \div m) * m

\* No alignment of the offset.
AlignmentNone(type, b) == 0

object_alignment(type, b) == CASE type = "VSpace" -> PAGE_BITS_4K
                               [] type = "Tcb" -> TCB_BITS
                               [] OTHER -> b

\* The sizes object_size accepts, and what it returns for them.
SizeOk(type, b) ==
    CASE type = "Frame" -> b \in FrameBits
      [] type = "CNode" -> b \in CNODE_ENTRY_BIT_SZ .. MAX_BITS
      [] type = "Untyped" -> b \in MIN_BIT_SIZE .. MAX_BITS
      [] OTHER -> type \in {"VSpace", "Tcb"}

ObjectBits(type, b) == CASE type = "VSpace" -> PAGE_BITS_4K
                         [] type = "Tcb" -> TCB_BITS
                         [] OTHER -> b

object_size(type, b) == Bytes[ObjectBits(type, b)]

\* The ASID of the VSpace at addr: 0 is reserved.
Asid(addr) == LET a == (addr \div Bytes[PAGE_BITS_4K]) % ASIDS
              IN  IF a = 0 THEN 1 ELSE a

\* The fields of a new CNode as CNodeCap::mint masks them.
RadixOf(b) == (b - CNODE_ENTRY_BIT_SZ) % WORD_BITS
GuardOf(b) == (WORD_BITS - (b - CNODE_ENTRY_BIT_SZ)) % WORD_BITS

\* The assertion of CNodeCap::mint fails.
MintPanics(type, b) == type = "CNode" /\ RadixOf(b) + GuardOf(b) > CNODE_DEPTH

\* A mint that forgets that the memory is a device's.
MintAsRam(type, addr, b, dev) ==
    [type |-> type, paddr |-> addr, bits |-> ObjectBits(type, b),
     device |-> FALSE, arg |-> 0]

mint(type, addr, b, dev) ==
    [type |-> type, paddr |-> addr, bits |-> ObjectBits(type, b),
     device |-> dev,
     arg |-> CASE type = "VSpace" -> Asid(addr)
               [] type = "CNode" -> RadixOf(b) + GuardOf(b)
               [] OTHER -> 0]

(***************************************************************************)
(* retype(s, type, b, lo, hi): fill the slots lo .. hi with objects from   *)
(* the untyped in slot s.                                                  *)
(***************************************************************************)
Count(lo, hi) == IF lo <= hi THEN hi - lo + 1 ELSE 0

\* Where the first object goes, and where the last one ends.
Start(s, type, b) == alignup(free_offset(s), object_alignment(type, b))
Required(s, type, b, n) == Start(s, type, b) + n * object_size(type, b)

\* The checks before anything is written.
RetypeOk(s, type, b, lo, hi) ==
    /\ IsUntyped(s)
    /\ \A t \in lo .. hi : cap[t] = Null
    /\ cap[s].device => type \in {"Frame", "Untyped"}
    /\ SizeOk(type, b)
    /\ Required(s, type, b, Count(lo, hi)) <= size(s)

\* Fill the slots; the free offset is moved last.
Fill(s, type, b, lo, hi) ==
    cap' = [t \in Slot |->
        IF t \in lo .. hi
        THEN mint(type, cap[s].paddr + Start(s, type, b)
                           + (t - lo) * object_size(type, b), b, cap[s].device)
        ELSE IF t = s
        THEN [cap[s] EXCEPT !.arg = Required(s, type, b, Count(lo, hi))]
        ELSE cap[t]]

\* No object of type Tcb or Endpoint is made: the loop returns InvalidValue at
\* the first slot.
retype(s, type, b, lo, hi) ==
    /\ ~ panicked
    /\ RetypeOk(s, type, b, lo, hi)
    /\ lo <= hi => type \notin {"Tcb", "Endpoint"}
    /\ IF lo <= hi /\ MintPanics(type, b)
       THEN panicked' = TRUE /\ UNCHANGED cap
       ELSE Fill(s, type, b, lo, hi) /\ UNCHANGED panicked

\* CNodeEntry::revoke erases a capability of its chain.
Erase(s) == /\ ~ panicked
            /\ cap[s] # Null
            /\ cap' = [cap EXCEPT ![s] = Null]
            /\ UNCHANGED panicked

Init == /\ cap = [s \in Slot |-> IF s \in DOMAIN Boot THEN Boot[s] ELSE Null]
        /\ panicked = FALSE

Next == \/ \E s, lo \in Slot : \E hi \in lo - 1 .. SLOTS, type \in Types, b \in BitSize :
              retype(s, type, b, lo, hi)
        \/ \E s \in Slot : Erase(s)

Spec == Init /\ [][Next]_untypedVars

(***************************************************************************)
(* Properties.                                                             *)
(***************************************************************************)
TypeOK == /\ cap \in [Slot -> Cap \cup {Null}]
          /\ panicked \in BOOLEAN

Mem(s) == cap[s].paddr .. cap[s].paddr + size(s) - 1
Used(s) == cap[s].paddr .. cap[s].paddr + free_offset(s) - 1

Live == {s \in Slot : cap[s] # Null}

\* retype hands out memory once: two objects share memory only if one is the
\* untyped the other was made from, and then the shared part is below that
\* untyped's free offset, so it is never handed out again.
Exclusive == \A s, t \in Live : s # t =>
    \/ Mem(s) \cap Mem(t) = {}
    \/ IsUntyped(s) /\ Mem(t) \subseteq Used(s)
    \/ IsUntyped(t) /\ Mem(s) \subseteq Used(t)

\* Every object is aligned to its size, though retype aligns only the offset
\* into the untyped, and untypeds are made from untypeds.
ObjectsAligned == \A s \in Live : cap[s].paddr % size(s) = 0

\* Tables and CNodes, which the kernel itself reads, are never in device
\* memory, however many untypeds are made in between.
KernelObjectsInRam ==
    \A s, t \in Live : IsUntyped(s) /\ cap[s].device
                          /\ cap[t].type \in {"CNode", "VSpace"} =>
        Mem(s) \cap Mem(t) = {}
=============================================================================
