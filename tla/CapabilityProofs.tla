--------------------------- MODULE CapabilityProofs ---------------------------
(***************************************************************************)
(* Proofs about the capabilities in slots: what memory they stand for, and *)
(* how they are chained.                                                   *)
(*                                                                         *)
(* Untyped: memory is handed out once, aligned, and never as a kernel      *)
(* object in device memory, for any CNode, any untypeds at boot and any    *)
(* sizes.  Exclusive is inductive with the types: the objects of a retype  *)
(* lie in the untyped above its free offset (NewInside) and apart from     *)
(* each other (NewApart), so what was apart from the untyped or below its  *)
(* offset is apart from them.  The device flag needs more: memory that     *)
(* overlaps has the same flag (DeviceAgrees).                              *)
(*                                                                         *)
(* Mdb, for any finite set of entries: the chains of the mapping database  *)
(* stay well formed through every operation and every iteration of revoke, *)
(* and revoke erases exactly what followed its entry.                      *)
(***************************************************************************)
EXTENDS Untyped, Mdb, TLAPS

(***************************************************************************)
(* Untyped memory.                                                         *)
(***************************************************************************)
\* A retype that fills its slots.
Fills(s, type, b, lo, hi) ==
    /\ RetypeOk(s, type, b, lo, hi)
    /\ lo <= hi => type \notin {"Tcb", "Endpoint"} /\ ~ MintPanics(type, b)
    /\ Fill(s, type, b, lo, hi)

DeviceAgrees == \A s, t \in Live :
    Mem(s) \cap Mem(t) # {} => cap[s].device = cap[t].device

KernelCapsInRam == \A s \in Live :
    cap[s].type \in {"CNode", "VSpace"} => ~ cap[s].device

(***************************************************************************)
(* Arithmetic.                                                             *)
(***************************************************************************)
\* alignup! moves an offset up.
LEMMA AlignUp ==
    ASSUME NEW n \in Nat, NEW b \in 0 .. MAX_BITS
    PROVE  /\ alignup(n, b) \in Nat
           /\ alignup(n, b) >= n
           /\ alignup(n, b) % Bytes[b] = 0
<1> DEFINE m == Bytes[b]
           k == (n + m - 1) \div m
<1>1. m \in Nat /\ m > 0
  BY BytesAssumption, SizeAssumption
<1>2. k \in Nat
  BY <1>1
<1>3. k * m \in Nat /\ k * m >= n
  BY <1>1
<1>4. (k * m) % m = 0
  <2> HIDE DEF k, m
  <2> QED BY <1>1, <1>2
<1> QED BY <1>3, <1>4, Zenon DEF alignup

\* The i-th of n pieces of z bytes ends where the next begins, and before the
\* end of the last.
LEMMA Pieces ==
    ASSUME NEW z \in Nat, NEW i \in Nat, NEW n \in Nat, i < n
    PROVE  i * z \in Nat /\ n * z \in Nat /\ i * z + z <= n * z
  OBVIOUS

\* An interval within another, and beyond another.
LEMMA Intervals ==
    ASSUME NEW p \in Int, NEW m \in Int, NEW a \in Int, NEW z \in Int
    PROVE  /\ a >= p /\ a + z <= p + m
                 => (a .. a + z - 1) \subseteq (p .. p + m - 1)
           /\ a >= p + m => (a .. a + z - 1) \cap (p .. p + m - 1) = {}
  OBVIOUS

\* Sums of multiples.
LEMMA Multiples ==
    ASSUME NEW z \in Nat \ {0}, NEW x \in Nat, NEW y \in Nat, NEW i \in Nat,
           x % z = 0, y % z = 0
    PROVE  (x + y + i * z) % z = 0
<1>1. x = (x \div z) * z /\ y = (y \div z) * z
  OBVIOUS
<1>2. x \div z \in Nat /\ y \div z \in Nat
  OBVIOUS
<1>3. PICK j \in Nat, k \in Nat : x = j * z /\ y = k * z
  BY <1>1, <1>2, Zenon
<1>4. x + y + i * z = (j + k + i) * z
  BY <1>3
<1>5. ((j + k + i) * z) % z = 0
  <2>1. j + k + i \in Nat
    OBVIOUS
  <2> QED BY <2>1
<1> QED BY <1>4, <1>5, Zenon

\* A multiple of a multiple.
LEMMA MultipleOf ==
    ASSUME NEW x \in Nat, NEW y \in Nat \ {0}, NEW z \in Nat \ {0},
           x % y = 0, y % z = 0
    PROVE  x % z = 0
<1>1. x = (x \div y) * y /\ y = (y \div z) * z
  OBVIOUS
<1>2. x \div y \in Nat /\ y \div z \in Nat
  OBVIOUS
<1>3. PICK j \in Nat, k \in Nat : x = j * y /\ y = k * z
  BY <1>1, <1>2, Zenon
<1>4. x = (j * k) * z
  BY <1>3
<1>5. j * k \in Nat
  BY <1>3
<1>6. ((j * k) * z) % z = 0
  BY <1>5
<1> QED BY <1>4, <1>6, Zenon

(***************************************************************************)
(* What a retype writes.                                                   *)
(***************************************************************************)
\* The sizes and the start of the objects of a retype.
LEMMA Sizes ==
    ASSUME TypeOK, NEW s \in Slot, NEW lo \in Slot, NEW hi \in lo - 1 .. SLOTS,
           NEW type \in Types, NEW b \in BitSize,
           RetypeOk(s, type, b, lo, hi)
    PROVE  /\ ObjectBits(type, b) \in 0 .. MAX_BITS
           /\ object_alignment(type, b) \in 0 .. MAX_BITS
           /\ object_size(type, b) \in Nat \ {0}
           /\ cap[s] \in Cap /\ IsUntyped(s) /\ s \notin lo .. hi
           /\ Start(s, type, b) \in Nat
           /\ Start(s, type, b) >= free_offset(s)
           /\ free_offset(s) \in Nat /\ size(s) \in Nat
           /\ Count(lo, hi) \in Nat
<1>1. cap[s] \in Cap /\ IsUntyped(s) /\ s \notin lo .. hi
  BY DEF TypeOK, RetypeOk, IsUntyped, Null
<1>2. /\ ObjectBits(type, b) \in 0 .. MAX_BITS
      /\ object_alignment(type, b) \in 0 .. MAX_BITS
  BY SizeAssumption DEF RetypeOk, SizeOk, ObjectBits, object_alignment, Types
<1>3. object_size(type, b) \in Nat \ {0}
  BY <1>2, BytesAssumption, Zenon DEF object_size
<1>4. free_offset(s) \in Nat
  BY <1>1, Zenon DEF free_offset, Cap
<1>5. size(s) \in Nat
  BY <1>1, BytesAssumption, Zenon DEF size, Cap
<1>6. /\ Start(s, type, b) \in Nat
      /\ Start(s, type, b) >= free_offset(s)
  BY <1>2, <1>4, AlignUp, Zenon DEF Start
<1>7. Count(lo, hi) \in Nat
  BY SizeAssumption DEF Count, Slot
<1> QED BY <1>1, <1>2, <1>3, <1>4, <1>5, <1>6, <1>7, Zenon

\* The object in slot t of a retype, and where it lies.
LEMMA NewCap ==
    ASSUME TypeOK, NEW s \in Slot, NEW lo \in Slot, NEW hi \in lo - 1 .. SLOTS,
           NEW type \in Types, NEW b \in BitSize,
           Fills(s, type, b, lo, hi), NEW t \in lo .. hi
    PROVE  LET z    == object_size(type, b)
               addr == cap[s].paddr + Start(s, type, b) + (t - lo) * z
           IN  /\ t \in Slot
               /\ addr \in Nat
               /\ addr >= cap[s].paddr + free_offset(s)
               /\ addr + z <= cap[s].paddr + Required(s, type, b, Count(lo, hi))
               /\ addr + z <= cap[s].paddr + size(s)
               /\ cap'[t] = mint(type, addr, b, cap[s].device)
               /\ cap'[t].paddr = addr
               /\ cap'[t].bits = ObjectBits(type, b)
               /\ cap'[t].type = type
               /\ cap'[t].device = cap[s].device
               /\ type = "CNode" => cap'[t].arg = RadixOf(b) + GuardOf(b)
               /\ Mem(t)' = addr .. addr + z - 1
<1> DEFINE z == object_size(type, b)
           i == t - lo
           n == Count(lo, hi)
           addr == cap[s].paddr + Start(s, type, b) + (t - lo) * z
<1>1. RetypeOk(s, type, b, lo, hi)
  BY Zenon DEF Fills
<1>2. t \in Slot /\ i \in Nat /\ n \in Nat /\ i < n
  BY SizeAssumption DEF Slot, Count
<1>3. z \in Nat /\ cap[s].paddr \in Nat
  BY <1>1, Sizes, Zenon DEF Cap
<1>4. i * z \in Nat /\ n * z \in Nat /\ i * z + z <= n * z
  <2> HIDE DEF i, n, z
  <2> QED BY <1>2, <1>3, Pieces, Zenon
<1>5. Required(s, type, b, n) = Start(s, type, b) + n * z
  BY Zenon DEF Required
<1>6. Required(s, type, b, n) <= size(s)
  BY <1>1, Zenon DEF RetypeOk
<1>7. cap'[t] = mint(type, addr, b, cap[s].device)
  BY <1>2, Zenon DEF Fills, Fill
<1>8. /\ addr \in Nat
      /\ addr >= cap[s].paddr + free_offset(s)
      /\ addr + z <= cap[s].paddr + Required(s, type, b, n)
      /\ addr + z <= cap[s].paddr + size(s)
  <2>1. /\ Start(s, type, b) \in Nat /\ Start(s, type, b) >= free_offset(s)
        /\ free_offset(s) \in Nat /\ size(s) \in Nat
    BY <1>1, Sizes, Zenon
  <2>2. addr = cap[s].paddr + Start(s, type, b) + i * z
    BY Zenon
  <2> HIDE DEF i, n, z, addr
  <2> QED BY <2>1, <2>2, <1>3, <1>4, <1>5, <1>6
<1>9. /\ cap'[t].paddr = addr
      /\ cap'[t].bits = ObjectBits(type, b)
      /\ cap'[t].type = type
      /\ cap'[t].device = cap[s].device
      /\ type = "CNode" => cap'[t].arg = RadixOf(b) + GuardOf(b)
  BY <1>7 DEF mint
<1>10. Mem(t)' = addr .. addr + z - 1
  BY <1>9, Zenon DEF Mem, size, object_size
<1> QED BY <1>2, <1>7, <1>8, <1>9, <1>10, Zenon

\* New objects lie in the untyped, above its free offset and below the new one.
LEMMA NewInside ==
    ASSUME TypeOK, NEW s \in Slot, NEW lo \in Slot, NEW hi \in lo - 1 .. SLOTS,
           NEW type \in Types, NEW b \in BitSize,
           Fills(s, type, b, lo, hi), NEW t \in lo .. hi
    PROVE  /\ Mem(t)' \subseteq Mem(s)
           /\ Mem(t)' \cap Used(s) = {}
           /\ Mem(t)' \subseteq Used(s)'
<1>1. RetypeOk(s, type, b, lo, hi)
  BY Zenon DEF Fills
<1>2. /\ object_size(type, b) \in Nat /\ cap[s].paddr \in Nat
      /\ free_offset(s) \in Nat /\ size(s) \in Nat
      /\ s \notin lo .. hi
  BY <1>1, Sizes, Zenon DEF Cap
<1>3. PICK addr \in Nat :
         /\ addr >= cap[s].paddr + free_offset(s)
         /\ addr + object_size(type, b)
               <= cap[s].paddr + Required(s, type, b, Count(lo, hi))
         /\ addr + object_size(type, b) <= cap[s].paddr + size(s)
         /\ Mem(t)' = addr .. addr + object_size(type, b) - 1
  BY NewCap
<1>4. /\ cap'[s].paddr = cap[s].paddr
      /\ cap'[s].arg = Required(s, type, b, Count(lo, hi))
  <2>1. cap[s] \in Cap
    BY <1>1, Sizes, Zenon
  <2> QED BY <1>2, <2>1, Zenon DEF Fills, Fill, Cap
<1>5. Used(s)' = cap[s].paddr ..
                    cap[s].paddr + Required(s, type, b, Count(lo, hi)) - 1
  BY <1>4, Zenon DEF Used, free_offset
<1>6. Required(s, type, b, Count(lo, hi)) \in Int
  <2>1. Start(s, type, b) \in Nat /\ Count(lo, hi) \in Nat
    BY <1>1, Sizes, Zenon
  <2>2. Count(lo, hi) * object_size(type, b) \in Int
    BY <1>2, <2>1
  <2> QED BY <2>1, <2>2 DEF Required
<1> DEFINE z == object_size(type, b)
           p == cap[s].paddr
           m == size(s)
           f == free_offset(s)
           r == Required(s, type, b, Count(lo, hi))
<1>7. /\ Mem(s) = p .. p + m - 1 /\ Used(s) = p .. p + f - 1
      /\ Used(s)' = p .. p + r - 1
      /\ Mem(t)' = addr .. addr + z - 1
  BY <1>3, <1>5, Zenon DEF Mem, Used
<1>8. /\ p \in Int /\ m \in Int /\ f \in Int /\ r \in Int /\ z \in Int
      /\ addr >= p + f /\ addr >= p
      /\ addr + z <= p + r /\ addr + z <= p + m
  <2>1. p \in Nat /\ m \in Nat /\ f \in Nat /\ z \in Nat /\ r \in Int
    BY <1>2, <1>6, Zenon
  <2>2. addr >= p + f /\ addr + z <= p + r /\ addr + z <= p + m
    BY <1>3, Zenon
  <2> HIDE DEF z, p, m, f, r
  <2> QED BY <2>1, <2>2
<1> HIDE DEF z, p, m, f, r
<1>9. /\ (addr .. addr + z - 1) \subseteq (p .. p + m - 1)
      /\ (addr .. addr + z - 1) \subseteq (p .. p + r - 1)
      /\ (addr .. addr + z - 1) \cap (p .. p + f - 1) = {}
  BY <1>8, Intervals
<1> QED BY <1>7, <1>9, Zenon

\* New objects are apart.
LEMMA NewApart ==
    ASSUME TypeOK, NEW s \in Slot, NEW lo \in Slot, NEW hi \in lo - 1 .. SLOTS,
           NEW type \in Types, NEW b \in BitSize,
           Fills(s, type, b, lo, hi), NEW t \in lo .. hi, NEW u \in lo .. hi,
           t < u
    PROVE  Mem(t)' \cap Mem(u)' = {}
<1> DEFINE z == object_size(type, b)
           base == cap[s].paddr + Start(s, type, b)
           i == t - lo
           j == u - lo
<1>1. RetypeOk(s, type, b, lo, hi)
  BY Zenon DEF Fills
<1>2. z \in Nat /\ base \in Nat
  BY <1>1, Sizes DEF Cap
<1>3. i \in Nat /\ j \in Nat /\ i < j
  BY DEF Slot
<1>4. i * z \in Nat /\ j * z \in Nat /\ i * z + z <= j * z
  <2> HIDE DEF i, j, z
  <2> QED BY <1>2, <1>3, Pieces, Zenon
<1>5. /\ Mem(t)' = base + i * z .. base + i * z + z - 1
      /\ Mem(u)' = base + j * z .. base + j * z + z - 1
  BY NewCap
<1> HIDE DEF i, j, z, base
<1> QED BY <1>2, <1>4, <1>5

\* What a retype leaves alone.
LEMMA OldCaps ==
    ASSUME TypeOK, NEW s \in Slot, NEW lo \in Slot, NEW hi \in lo - 1 .. SLOTS,
           NEW type \in Types, NEW b \in BitSize,
           Fills(s, type, b, lo, hi), NEW t \in Live', t \notin lo .. hi
    PROVE  /\ t \in Live
           /\ Mem(t)' = Mem(t)
           /\ cap'[t].device = cap[t].device
           /\ cap'[t].type = cap[t].type
           /\ Used(t) \subseteq Used(t)'
<1>1. RetypeOk(s, type, b, lo, hi)
  BY Zenon DEF Fills
<1>2. cap[s] \in Cap /\ IsUntyped(s)
  BY <1>1, Sizes, Zenon
<1>3. t \in Slot
  BY Zenon DEF Live
<1>4. CASE t # s
  <2>1. cap'[t] = cap[t]
    BY <1>3, <1>4, Zenon DEF Fills, Fill
  <2> QED BY <1>3, <2>1, Zenon DEF Live, Mem, size, Used, free_offset
<1>5. CASE t = s
  <2>1. cap'[s] = [cap[s] EXCEPT !.arg = Required(s, type, b, Count(lo, hi))]
    BY <1>5, Zenon DEF Fills, Fill
  <2>2. /\ cap'[s].paddr = cap[s].paddr /\ cap'[s].bits = cap[s].bits
        /\ cap'[s].device = cap[s].device /\ cap'[s].type = cap[s].type
        /\ cap'[s].arg = Required(s, type, b, Count(lo, hi))
    BY <1>2, <2>1, Zenon DEF Cap
  <2>3. cap[s] # Null
    BY <1>2 DEF IsUntyped, Null
  <2>4. Mem(s)' = Mem(s)
    BY <2>2, Zenon DEF Mem, size
  <2>5. free_offset(s) <= Required(s, type, b, Count(lo, hi))
        /\ Required(s, type, b, Count(lo, hi)) \in Nat
    <3>1. /\ Start(s, type, b) \in Nat /\ Count(lo, hi) \in Nat
          /\ Start(s, type, b) >= free_offset(s) /\ free_offset(s) \in Nat
          /\ object_size(type, b) \in Nat
      BY <1>1, Sizes, Zenon
    <3>2. Count(lo, hi) * object_size(type, b) \in Nat
      BY <3>1
    <3> QED BY <3>1, <3>2 DEF Required
  <2>6. Used(s) \subseteq Used(s)'
    <3>1. cap[s].paddr \in Nat /\ free_offset(s) \in Nat
      BY <1>1, Sizes, Zenon DEF Cap
    <3> QED BY <2>2, <2>5, <3>1 DEF Used, free_offset
  <2> QED BY <1>5, <2>2, <2>3, <2>4, <2>6, Zenon DEF Live
<1> QED BY <1>4, <1>5, Zenon

(***************************************************************************)
(* The steps, and the invariants they keep.                                *)
(***************************************************************************)
\* A step fills slots, erases one, or leaves the capabilities alone.
LEMMA Steps ==
    ASSUME [Next]_untypedVars
    PROVE  \/ \E s, lo \in Slot : \E hi \in lo - 1 .. SLOTS, type \in Types, b \in BitSize :
                Fills(s, type, b, lo, hi) /\ UNCHANGED panicked
           \/ \E s \in Slot : Erase(s)
           \/ UNCHANGED cap /\ (UNCHANGED panicked \/ panicked' = TRUE)
<1>1. CASE UNCHANGED untypedVars
  BY <1>1, Zenon DEF untypedVars
<1>2. CASE \E s \in Slot : Erase(s)
  BY <1>2, Zenon
<1>3. CASE \E s, lo \in Slot : \E hi \in lo - 1 .. SLOTS, type \in Types, b \in BitSize :
              retype(s, type, b, lo, hi)
  <2>1. PICK s \in Slot, lo \in Slot : \E hi \in lo - 1 .. SLOTS, type \in Types, b \in BitSize :
              retype(s, type, b, lo, hi)
    BY <1>3, Zenon
  <2>2. PICK hi \in lo - 1 .. SLOTS, type \in Types, b \in BitSize :
              retype(s, type, b, lo, hi)
    BY <2>1, Zenon
  <2>3. CASE lo <= hi /\ MintPanics(type, b)
    BY <2>2, <2>3, Zenon DEF retype
  <2>4. CASE ~ (lo <= hi /\ MintPanics(type, b))
    <3>1. Fills(s, type, b, lo, hi) /\ UNCHANGED panicked
      BY <2>2, <2>4, Zenon DEF retype, Fills
    <3> QED BY <3>1, Zenon
  <2> QED BY <2>3, <2>4, Zenon
<1> QED BY <1>1, <1>2, <1>3, Zenon DEF Next

\* What Erase leaves alone.
LEMMA Kept ==
    ASSUME TypeOK, NEW s \in Slot, Erase(s), NEW t \in Live'
    PROVE  t \in Live /\ cap'[t] = cap[t]
<1>1. t \in Slot /\ cap'[t] # Null
  BY Zenon DEF Live
<1>2. t # s
  BY <1>1, Zenon DEF Erase, TypeOK
<1> QED BY <1>1, <1>2, Zenon DEF Live, Erase, TypeOK

\* A retype makes capabilities.
LEMMA FillsTypeOK ==
    ASSUME TypeOK, NEW s \in Slot, NEW lo \in Slot, NEW hi \in lo - 1 .. SLOTS,
           NEW type \in Types, NEW b \in BitSize,
           Fills(s, type, b, lo, hi), UNCHANGED panicked
    PROVE  TypeOK'
<1>1. RetypeOk(s, type, b, lo, hi)
  BY Zenon DEF Fills
<1>2. cap[s] \in Cap /\ ObjectBits(type, b) \in 0 .. MAX_BITS
  BY <1>1, Sizes, Zenon
<1>3. Required(s, type, b, Count(lo, hi)) \in Nat
  <2>1. /\ Start(s, type, b) \in Nat /\ Count(lo, hi) \in Nat
        /\ object_size(type, b) \in Nat
    BY <1>1, Sizes, Zenon
  <2>2. Count(lo, hi) * object_size(type, b) \in Nat
    BY <2>1
  <2> QED BY <2>1, <2>2 DEF Required
<1>4. ASSUME NEW t \in lo .. hi
      PROVE  cap'[t] \in Cap
  <2>1. PICK addr \in Nat : cap'[t] = mint(type, addr, b, cap[s].device)
    BY NewCap
  <2>2. Asid(addr) \in Nat
    <3>1. Bytes[PAGE_BITS_4K] \in Nat \ {0}
      BY BytesAssumption, SizeAssumption, Zenon
    <3>2. addr \div Bytes[PAGE_BITS_4K] \in Nat
      BY <3>1
    <3> QED BY <3>2, SizeAssumption DEF Asid
  <2>3. type = "CNode" => RadixOf(b) + GuardOf(b) \in Nat
    <3>1. b \in Nat
      BY SizeAssumption, Zenon
    <3> QED BY <3>1, SizeAssumption DEF RadixOf, GuardOf
  <2>4. cap[s].device \in BOOLEAN
    BY <1>2, Zenon DEF Cap
  <2> QED BY <2>1, <2>2, <2>3, <2>4, <1>2 DEF mint, Cap
<1>5. [cap[s] EXCEPT !.arg = Required(s, type, b, Count(lo, hi))] \in Cap
  BY <1>2, <1>3, Zenon DEF Cap
<1>6. cap' = [t \in Slot |-> cap'[t]]
  BY Zenon DEF Fills, Fill
<1>7. ASSUME NEW t \in Slot
      PROVE  cap'[t] \in Cap \cup {Null}
  <2>1. CASE t \in lo .. hi
    BY <1>4, <2>1, Zenon
  <2>2. CASE t \notin lo .. hi
    BY <1>5, <2>2, Zenon DEF Fills, Fill, TypeOK
  <2> QED BY <2>1, <2>2, Zenon
<1> QED BY <1>6, <1>7, Zenon DEF TypeOK

\* Every slot holds a capability or nothing, whatever is retyped and erased.
THEOREM UntypedTypeOK == Spec => []TypeOK
<1>1. Init => TypeOK
  BY BootAssumption, Zenon DEF Init, TypeOK
<1>2. TypeOK /\ [Next]_untypedVars => TypeOK'
  <2> SUFFICES ASSUME TypeOK, [Next]_untypedVars PROVE TypeOK'
    BY Zenon
  <2>1. CASE \E s, lo \in Slot : \E hi \in lo - 1 .. SLOTS, type \in Types, b \in BitSize :
                Fills(s, type, b, lo, hi) /\ UNCHANGED panicked
    BY <2>1, FillsTypeOK, Zenon
  <2>2. CASE \E s \in Slot : Erase(s)
    BY <2>2, Zenon DEF Erase, TypeOK
  <2>3. CASE UNCHANGED cap /\ (UNCHANGED panicked \/ panicked' = TRUE)
    BY <2>3, Zenon DEF TypeOK
  <2> QED BY <2>1, <2>2, <2>3, Steps, Zenon
<1> QED BY <1>1, <1>2, PTL DEF Spec

\* The memory of the boot untypeds is apart.
LEMMA BootApart ==
    ASSUME Init, NEW s \in Live, NEW t \in Live, s # t
    PROVE  Mem(s) \cap Mem(t) = {}
<1>1. /\ s \in DOMAIN Boot /\ t \in DOMAIN Boot
      /\ cap[s] = Boot[s] /\ cap[t] = Boot[t]
  BY Zenon DEF Init, Live
<1> DEFINE p == Boot[s].paddr
           m == Bytes[Boot[s].bits]
           q == Boot[t].paddr
           n == Bytes[Boot[t].bits]
<1>2. p \in Int /\ m \in Int /\ q \in Int /\ n \in Int
  BY <1>1, BootAssumption, BytesAssumption DEF Cap
<1>3. p + m <= q \/ q + n <= p
  BY <1>1, BootAssumption, Zenon
<1>4. Mem(s) = p .. p + m - 1 /\ Mem(t) = q .. q + n - 1
  BY <1>1, Zenon DEF Mem, size
<1> HIDE DEF p, m, q, n
<1> QED BY <1>2, <1>3, <1>4

\* One pair of Exclusive.
Pair(s, t) == \/ Mem(s) \cap Mem(t) = {}
              \/ IsUntyped(s) /\ Mem(t) \subseteq Used(s)
              \/ IsUntyped(t) /\ Mem(s) \subseteq Used(t)

\* retype hands out memory once: the induction step.
LEMMA FillsExclusive ==
    ASSUME TypeOK, Exclusive,
           NEW s \in Slot, NEW lo \in Slot, NEW hi \in lo - 1 .. SLOTS,
           NEW type \in Types, NEW b \in BitSize,
           Fills(s, type, b, lo, hi)
    PROVE  Exclusive'
<1>1. RetypeOk(s, type, b, lo, hi)
  BY Zenon DEF Fills
<1>2. IsUntyped(s) /\ s \in Live
  BY <1>1, Sizes DEF IsUntyped, Live, Null
<1>3. ASSUME NEW t \in lo .. hi, NEW u \in lo .. hi, t # u
      PROVE  Pair(t, u)'
  <2>1. t < u \/ u < t
    BY <1>3 DEF Slot
  <2> QED BY <2>1, NewApart, Zenon DEF Pair
<1>4. ASSUME NEW t \in lo .. hi, NEW u \in Live', u \notin lo .. hi
      PROVE  Pair(t, u)' /\ Pair(u, t)'
  <2>1. /\ u \in Live /\ Mem(u)' = Mem(u) /\ cap'[u].type = cap[u].type
        /\ Used(u) \subseteq Used(u)'
    BY <1>4, OldCaps, Zenon
  <2>2. /\ Mem(t)' \subseteq Mem(s) /\ Mem(t)' \cap Used(s) = {}
        /\ Mem(t)' \subseteq Used(s)'
    BY NewInside, Zenon
  <2>3. IsUntyped(u)' <=> IsUntyped(u)
    BY <2>1, Zenon DEF IsUntyped
  <2>4. CASE u = s
    BY <1>2, <2>2, <2>3, <2>4, Zenon DEF Pair
  <2>5. CASE u # s
    <3>1. Pair(s, u)
      BY <1>2, <2>1, <2>5, Zenon DEF Exclusive, Pair
    <3> QED BY <2>1, <2>2, <2>3, <3>1, Zenon DEF Pair
  <2> QED BY <2>4, <2>5, Zenon
<1>5. ASSUME NEW t \in Live', t \notin lo .. hi, NEW u \in Live', u \notin lo .. hi, t # u
      PROVE  Pair(t, u)'
  <2>1. /\ t \in Live /\ Mem(t)' = Mem(t) /\ cap'[t].type = cap[t].type
        /\ Used(t) \subseteq Used(t)'
    BY <1>5, OldCaps, Zenon
  <2>2. /\ u \in Live /\ Mem(u)' = Mem(u) /\ cap'[u].type = cap[u].type
        /\ Used(u) \subseteq Used(u)'
    BY <1>5, OldCaps, Zenon
  <2>3. Pair(t, u)
    BY <1>5, <2>1, <2>2, Zenon DEF Exclusive, Pair
  <2>4. (IsUntyped(t)' <=> IsUntyped(t)) /\ (IsUntyped(u)' <=> IsUntyped(u))
    BY <2>1, <2>2, Zenon DEF IsUntyped
  <2> QED BY <2>1, <2>2, <2>3, <2>4, Zenon DEF Pair
<1>6. \A t, u \in Live' : t # u => Pair(t, u)'
  BY <1>3, <1>4, <1>5, Zenon
<1> QED BY <1>6, Zenon DEF Exclusive, Pair

\* retype hands out memory once (Exclusive): for every CNode, every set of boot
\* untypeds apart from each other, and every sequence of retypes and erasures,
\* objects that share memory are an untyped and what was made from it, and the
\* shared part is never handed out again.
THEOREM UntypedExclusive == Spec => []Exclusive
<1>1. Init => Exclusive
  BY BootApart, Zenon DEF Exclusive
<1>2. TypeOK /\ Exclusive /\ [Next]_untypedVars => Exclusive'
  <2> SUFFICES ASSUME TypeOK, Exclusive, [Next]_untypedVars PROVE Exclusive'
    BY Zenon
  <2>1. CASE \E s, lo \in Slot : \E hi \in lo - 1 .. SLOTS, type \in Types, b \in BitSize :
                Fills(s, type, b, lo, hi) /\ UNCHANGED panicked
    BY <2>1, FillsExclusive, Zenon
  <2>2. CASE \E s \in Slot : Erase(s)
    BY <2>2, Kept DEF Exclusive, Mem, Used, IsUntyped, size, free_offset
  <2>3. CASE UNCHANGED cap /\ (UNCHANGED panicked \/ panicked' = TRUE)
    BY <2>3 DEF Exclusive, Live, Mem, Used, IsUntyped, size, free_offset
  <2> QED BY <2>1, <2>2, <2>3, Steps, Zenon
<1> QED BY <1>1, <1>2, UntypedTypeOK, PTL DEF Spec

\* An object of a retype is aligned to its size.
LEMMA FillsAligned ==
    ASSUME TypeOK, ObjectsAligned,
           NEW s \in Slot, NEW lo \in Slot, NEW hi \in lo - 1 .. SLOTS,
           NEW type \in Types, NEW b \in BitSize,
           Fills(s, type, b, lo, hi), NEW t \in lo .. hi
    PROVE  (cap[t].paddr % size(t) = 0)'
<1> DEFINE z == object_size(type, b)
           m == size(s)
           p == cap[s].paddr
           start == Start(s, type, b)
           i == t - lo
<1>1. RetypeOk(s, type, b, lo, hi)
  BY Zenon DEF Fills
<1>2. /\ cap[s] \in Cap /\ IsUntyped(s)
      /\ ObjectBits(type, b) \in 0 .. MAX_BITS
      /\ z \in Nat \ {0} /\ start \in Nat /\ free_offset(s) \in Nat
  BY <1>1, Sizes, Zenon
<1>3. p \in Nat /\ cap[s].bits \in 0 .. MAX_BITS /\ m \in Nat \ {0}
  BY <1>2, BytesAssumption, Zenon DEF Cap, size
<1>4. /\ p + start + i * z >= p + free_offset(s)
      /\ p + start + i * z + z <= p + m
      /\ cap'[t].paddr = p + start + i * z
      /\ cap'[t].bits = ObjectBits(type, b)
  BY NewCap
<1>5. i \in Nat
  BY DEF Slot
<1>6. z <= m
  <2>1. i * z \in Nat
    BY <1>2, <1>5
  <2> HIDE DEF z, m, p, start, i
  <2> QED BY <1>2, <1>3, <1>4, <2>1
<1>7. m % z = 0
  <2>1. Bytes[ObjectBits(type, b)] <= Bytes[cap[s].bits]
    BY <1>6, Zenon DEF size, object_size
  <2> QED BY <1>2, <1>3, <2>1, BytesAssumption, Zenon DEF size, object_size
<1>8. p % m = 0
  <2>1. s \in Live
    BY <1>2 DEF Live, IsUntyped, Null
  <2> QED BY <2>1, Zenon DEF ObjectsAligned
<1>9. p % z = 0
  <2> HIDE DEF z, m, p
  <2> QED BY <1>2, <1>3, <1>7, <1>8, MultipleOf, Zenon
<1>10. start % z = 0
  <2>1. object_alignment(type, b) = ObjectBits(type, b)
    BY Zenon DEF object_alignment, ObjectBits
  <2> QED BY <1>2, <2>1, AlignUp, Zenon DEF Start, object_size
<1>11. (p + start + i * z) % z = 0
  <2> HIDE DEF z, p, start, i
  <2> QED BY <1>2, <1>3, <1>5, <1>9, <1>10, Multiples, Zenon
<1>12. size(t)' = z
  BY <1>4, Zenon DEF size, object_size
<1> QED BY <1>4, <1>11, <1>12, Zenon

\* Every object is aligned to its size (ObjectsAligned), though retype aligns the
\* offset into the untyped only, however deep untypeds are made from untypeds.
THEOREM UntypedObjectsAligned == Spec => []ObjectsAligned
<1>1. Init => ObjectsAligned
  BY BootAssumption, Zenon DEF Init, ObjectsAligned, Live, size
<1>2. TypeOK /\ ObjectsAligned /\ [Next]_untypedVars => ObjectsAligned'
  <2> SUFFICES ASSUME TypeOK, ObjectsAligned, [Next]_untypedVars,
                      NEW t \in Live'
               PROVE  (cap[t].paddr % size(t) = 0)'
    BY Zenon DEF ObjectsAligned
  <2>1. ASSUME NEW s \in Slot, NEW lo \in Slot, NEW hi \in lo - 1 .. SLOTS,
               NEW type \in Types, NEW b \in BitSize, Fills(s, type, b, lo, hi)
        PROVE  (cap[t].paddr % size(t) = 0)'
    <3>1. CASE t \in lo .. hi
      BY <2>1, <3>1, FillsAligned, Zenon
    <3>2. CASE t \notin lo .. hi
      <4>1. t \in Live
        BY <2>1, <3>2, OldCaps, Zenon
      <4>2. cap'[t].paddr = cap[t].paddr /\ cap'[t].bits = cap[t].bits
        <5>1. t \in Slot /\ cap[t] \in Cap
          BY <4>1, Zenon DEF Live, TypeOK
        <5> QED BY <2>1, <3>2, <5>1, Zenon DEF Fills, Fill, Cap
      <4> QED BY <4>1, <4>2, Zenon DEF ObjectsAligned, size
    <3> QED BY <3>1, <3>2, Zenon
  <2>2. CASE \E s \in Slot : Erase(s)
    BY <2>2, Kept, Zenon DEF ObjectsAligned, size
  <2>3. CASE UNCHANGED cap /\ (UNCHANGED panicked \/ panicked' = TRUE)
    BY <2>3, Zenon DEF ObjectsAligned, Live, size
  <2> QED BY <2>1, <2>2, <2>3, Steps, Zenon
<1> QED BY <1>1, <1>2, UntypedTypeOK, PTL DEF Spec

\* The device flag along a retype.
LEMMA FillsDevice ==
    ASSUME TypeOK, DeviceAgrees, KernelCapsInRam,
           NEW s \in Slot, NEW lo \in Slot, NEW hi \in lo - 1 .. SLOTS,
           NEW type \in Types, NEW b \in BitSize,
           Fills(s, type, b, lo, hi)
    PROVE  DeviceAgrees' /\ KernelCapsInRam'
<1>1. RetypeOk(s, type, b, lo, hi)
  BY Zenon DEF Fills
<1>2. s \in Live
  BY <1>1, Sizes DEF IsUntyped, Live, Null
<1>3. ASSUME NEW t \in lo .. hi
      PROVE  cap'[t].device = cap[s].device /\ cap'[t].type = type
  BY NewCap
<1>4. ASSUME NEW t \in Live', t \notin lo .. hi
      PROVE  /\ t \in Live /\ Mem(t)' = Mem(t)
             /\ cap'[t].device = cap[t].device /\ cap'[t].type = cap[t].type
  BY <1>4, OldCaps, Zenon
<1>5. ASSUME NEW t \in lo .. hi, NEW u \in Live', u \notin lo .. hi,
             Mem(t)' \cap Mem(u)' # {}
      PROVE  cap'[t].device = cap'[u].device
  <2>1. u \in Live /\ Mem(u)' = Mem(u) /\ cap'[u].device = cap[u].device
    BY <1>4, <1>5, Zenon
  <2>2. Mem(s) \cap Mem(u) # {}
    BY <1>5, <2>1, NewInside, Zenon
  <2> QED BY <1>2, <1>3, <2>1, <2>2, Zenon DEF DeviceAgrees
<1>6. ASSUME NEW t \in Live', NEW u \in Live', Mem(t)' \cap Mem(u)' # {}
      PROVE  cap'[t].device = cap'[u].device
  <2>1. CASE t \in lo .. hi /\ u \in lo .. hi
    BY <1>3, <2>1, Zenon
  <2>2. CASE t \in lo .. hi /\ u \notin lo .. hi
    BY <1>5, <1>6, <2>2, Zenon
  <2>3. CASE t \notin lo .. hi /\ u \in lo .. hi
    <3>1. Mem(u)' \cap Mem(t)' # {}
      BY <1>6, Zenon
    <3> QED BY <1>5, <2>3, <3>1, Zenon
  <2>4. CASE t \notin lo .. hi /\ u \notin lo .. hi
    <3>1. /\ t \in Live /\ Mem(t)' = Mem(t) /\ cap'[t].device = cap[t].device
          /\ u \in Live /\ Mem(u)' = Mem(u) /\ cap'[u].device = cap[u].device
      BY <1>4, <2>4, Zenon
    <3> QED BY <1>6, <3>1, Zenon DEF DeviceAgrees
  <2> QED BY <2>1, <2>2, <2>3, <2>4, Zenon
<1>7. ASSUME NEW t \in Live', cap'[t].type \in {"CNode", "VSpace"}
      PROVE  ~ cap'[t].device
  <2>1. CASE t \in lo .. hi
    BY <1>1, <1>3, <1>7, <2>1, Zenon DEF RetypeOk
  <2>2. CASE t \notin lo .. hi
    BY <1>4, <1>7, <2>2, Zenon DEF KernelCapsInRam
  <2> QED BY <2>1, <2>2, Zenon
<1> QED BY <1>6, <1>7, Zenon DEF DeviceAgrees, KernelCapsInRam

\* Tables and CNodes never overlap a device untyped (KernelObjectsInRam): retype
\* refuses them by the flag of the untyped, and the flag is the same on all
\* capabilities to the same memory.
THEOREM UntypedKernelObjectsInRam == Spec => []KernelObjectsInRam
<1> DEFINE IInv == DeviceAgrees /\ KernelCapsInRam
<1>1. Init => IInv
  <2>1. Init => DeviceAgrees
    BY BootApart, Zenon DEF DeviceAgrees
  <2>2. Init => KernelCapsInRam
    BY BootAssumption, Zenon DEF Init, KernelCapsInRam, Live
  <2> QED BY <2>1, <2>2, Zenon
<1>2. TypeOK /\ IInv /\ [Next]_untypedVars => IInv'
  <2> SUFFICES ASSUME TypeOK, IInv, [Next]_untypedVars PROVE IInv'
    BY Zenon
  <2>1. CASE \E s, lo \in Slot : \E hi \in lo - 1 .. SLOTS, type \in Types, b \in BitSize :
                Fills(s, type, b, lo, hi) /\ UNCHANGED panicked
    BY <2>1, FillsDevice, Zenon
  <2>2. CASE \E s \in Slot : Erase(s)
    BY <2>2, Kept DEF DeviceAgrees, KernelCapsInRam, Mem, size
  <2>3. CASE UNCHANGED cap /\ (UNCHANGED panicked \/ panicked' = TRUE)
    BY <2>3, Zenon DEF DeviceAgrees, KernelCapsInRam, Live, Mem, size
  <2> QED BY <2>1, <2>2, <2>3, Steps, Zenon
<1>3. IInv => KernelObjectsInRam
  BY Zenon DEF DeviceAgrees, KernelCapsInRam, KernelObjectsInRam
<1> QED BY <1>1, <1>2, <1>3, UntypedTypeOK, PTL DEF Spec

(***************************************************************************)
(* The mapping database.                                                   *)
(***************************************************************************)
\* Acyclic read backwards: the order reaches no more than the prev links do.
BackReach ==
    \A a, b \in Entry : <<a, b>> \in after =>
        mdb_prev[b] # None /\ (mdb_prev[b] = a \/ <<a, mdb_prev[b]>> \in after)

\* The loop invariant of revoke: cur is what follows self; an entry that
\* followed self at the call still does, or has been erased, and what follows
\* self now is among those entries.
RevokeLoop ==
    op # None =>
        /\ op.cur = mdb_next[op.self]
        /\ \A s \in op.doomed : <<op.self, s>> \in after \/ is_null(s)
        /\ \A s \in Entry : <<op.self, s>> \in after => s \in op.doomed

Order == AdjacentLinked /\ Acyclic /\ BackReach

ChainInv == EntryTypeOK /\ Order /\ NullIsolated /\ RevokeLoop

\* Initially there are no links.
LEMMA InitChainInv == MdbInit => ChainInv
  BY EntryAssumption, Zenon DEF MdbInit, ChainInv, EntryTypeOK, Order, AdjacentLinked, Acyclic,
     BackReach, NullIsolated, RevokeLoop, is_null, mdb_isolated

\* What mdb_insert_after adds to the order, pair by pair.
LEMMA InsertOrder ==
  ASSUME EntryTypeOK, NEW src \in Entry, NEW dst \in Entry,
         mdb_insert_after(src, dst)
  PROVE  /\ after' \in SUBSET (Entry \X Entry)
         /\ \A a, b \in Entry : <<a, b>> \in after' <=>
               \/ <<a, b>> \in after
               \/ b = dst /\ (a = src \/ <<a, src>> \in after)
               \/ a = dst /\ <<src, b>> \in after
  BY Zenon DEF EntryTypeOK, mdb_insert_after, InsertedAfter

\* An isolated entry is in no chain.
LEMMA IsolatedNotInOrder ==
  ASSUME EntryTypeOK, Order, NEW s \in Entry, mdb_isolated(s)
  PROVE  \A a \in Entry : <<a, s>> \notin after /\ <<s, a>> \notin after
  BY Zenon DEF EntryTypeOK, Order, Acyclic, BackReach, mdb_isolated

\* Inserting an isolated entry after another keeps the chains well formed.
LEMMA InsertKeepsOrder ==
  ASSUME ChainInv, NEW src \in Entry, NEW dst \in Entry, mdb_insert_after(src, dst)
  PROVE  ChainInv'
<1> USE EntryAssumption DEF ChainInv
<1>1. /\ after' \in SUBSET (Entry \X Entry)
      /\ \A a, b \in Entry : <<a, b>> \in after' <=>
               \/ <<a, b>> \in after
               \/ b = dst /\ (a = src \/ <<a, src>> \in after)
               \/ a = dst /\ <<src, b>> \in after
  BY InsertOrder, Zenon
<1>2. src # dst /\ mdb_isolated(dst) /\ op = None /\ op' = op
  BY Zenon DEF mdb_insert_after
<1>3. \A a \in Entry : <<a, dst>> \notin after /\ <<dst, a>> \notin after
  BY <1>2, IsolatedNotInOrder, Zenon
<1>4. /\ mdb_next' = [mdb_next EXCEPT ![dst] = mdb_next[src], ![src] = dst]
      /\ mdb_prev' = IF mdb_next[src] = None
                     THEN [mdb_prev EXCEPT ![dst] = src]
                     ELSE [[mdb_prev EXCEPT ![dst] = src]
                              EXCEPT ![mdb_next[src]] = dst]
      /\ cap_type' = cap_type
  BY Zenon DEF mdb_insert_after, SetLink
<1>5. EntryTypeOK'
  BY <1>1, <1>2, <1>4, Zenon DEF EntryTypeOK
<1>6. mdb_next[src] # dst /\ mdb_prev[src] # dst
  BY <1>2 DEF Order, AdjacentLinked, mdb_isolated, EntryTypeOK
<1>7. /\ \A a \in Entry : mdb_next'[a] = IF a = src THEN dst
                           ELSE IF a = dst THEN mdb_next[src] ELSE mdb_next[a]
      /\ \A a \in Entry : mdb_prev'[a] = IF a = mdb_next[src] THEN dst
                           ELSE IF a = dst THEN src ELSE mdb_prev[a]
  BY <1>2, <1>4, <1>6, Zenon DEF EntryTypeOK
<1>8. AdjacentLinked'
  BY <1>2, <1>6, <1>7 DEF Order, AdjacentLinked, mdb_isolated, EntryTypeOK
<1> DEFINE n == mdb_next[src]
<1>a. n = None \/ n \in Entry
  BY Zenon DEF EntryTypeOK
<1>b. n # None => <<src, n>> \in after /\ mdb_prev[n] = src
  BY <1>a, Zenon DEF Order, AdjacentLinked, Acyclic
<1>9. Acyclic'
  <2>1. \A a \in Entry : <<a, a>> \notin after'
    BY <1>1, <1>2, <1>3, Zenon DEF Order, Acyclic
  <2>2. \A a, b, c \in Entry : <<a, b>> \in after' /\ <<b, c>> \in after'
                                => <<a, c>> \in after'
    BY <1>1, <1>2, <1>3, Zenon DEF Order, Acyclic
  <2>3. ASSUME NEW a \in Entry, mdb_next'[a] # None
        PROVE  <<a, mdb_next'[a]>> \in after'
    <3>1. CASE a = src
      BY <1>1, <1>2, <1>7, <3>1, Zenon
    <3>2. CASE a = dst
      BY <1>1, <1>2, <1>7, <1>a, <1>b, <2>3, <3>2, Zenon
    <3>3. CASE a # src /\ a # dst
      <4>1. mdb_next[a] \in Entry /\ <<a, mdb_next[a]>> \in after
        BY <1>7, <2>3, <3>3 DEF EntryTypeOK, Order, Acyclic
      <4> QED
        BY <1>1, <1>7, <3>3, <4>1, Zenon
    <3> QED
      BY <3>1, <3>2, <3>3, Zenon
  <2>4. ASSUME NEW a \in Entry, NEW b \in Entry, <<a, b>> \in after'
        PROVE  /\ mdb_next'[a] # None
               /\ mdb_next'[a] = b \/ <<mdb_next'[a], b>> \in after'
    <3>1. CASE a = src
      BY <1>1, <1>2, <1>3, <1>7, <2>4, <3>1, Zenon DEF Order, Acyclic
    <3>2. CASE a = dst
      <4>1. <<src, b>> \in after
        BY <1>1, <1>2, <1>3, <2>4, <3>2, Zenon DEF Order, Acyclic
      <4>2. n # None /\ (n = b \/ <<n, b>> \in after)
        BY <4>1, Zenon DEF Order, Acyclic
      <4> QED
        BY <1>1, <1>2, <1>7, <1>a, <4>2, <3>2, Zenon
    <3>3. CASE a # src /\ a # dst
      <4>0. <<a, b>> \in after \/ (b = dst /\ <<a, src>> \in after)
        BY <1>1, <2>4, <3>3, Zenon
      <4>1. PICK c \in Entry : <<a, c>> \in after /\ (c = b \/ (b = dst /\ c = src))
        BY <4>0, Zenon
      <4>2. /\ mdb_next[a] \in Entry
            /\ mdb_next[a] = c \/ <<mdb_next[a], c>> \in after
        BY <4>1, Zenon DEF Order, Acyclic, EntryTypeOK
      <4>3. mdb_next'[a] = mdb_next[a]
        BY <1>7, <3>3, Zenon
      <4>4. CASE c = b
        BY <1>1, <4>2, <4>3, <4>4, EntryAssumption, Zenon
      <4>5. CASE b = dst /\ c = src
        BY <1>1, <4>2, <4>3, <4>5, EntryAssumption, Zenon
      <4> QED
        BY <4>1, <4>4, <4>5, Zenon
    <3> QED
      BY <3>1, <3>2, <3>3, Zenon
  <2> QED
    BY <2>1, <2>2, <2>3, <2>4, Zenon DEF Acyclic
<1>10. BackReach'
  <2> SUFFICES ASSUME NEW a \in Entry, NEW b \in Entry, <<a, b>> \in after'
               PROVE  /\ mdb_prev'[b] # None
                      /\ mdb_prev'[b] = a \/ <<a, mdb_prev'[b]>> \in after'
    BY Zenon DEF BackReach
  <2>1. CASE b = dst
    BY <1>1, <1>2, <1>3, <1>6, <1>7, <2>1, Zenon
  <2>2. CASE b # dst /\ b = n
    <3>1. mdb_prev'[b] = dst
      BY <1>7, <2>2, Zenon
    <3>2. a = dst \/ a = src \/ <<a, src>> \in after
      <4>1. a = dst \/ <<a, b>> \in after
        BY <1>1, <2>2, Zenon
      <4>2. mdb_prev[b] = src
        BY <1>b, <2>2, Zenon
      <4> QED
        BY <4>1, <4>2, Zenon DEF Order, BackReach
    <3> QED
      BY <1>1, <3>1, <3>2, Zenon
  <2>3. CASE b # dst /\ b # n
    <3>1. mdb_prev'[b] = mdb_prev[b]
      BY <1>7, <2>3, Zenon
    <3>a. <<a, b>> \in after \/ (a = dst /\ <<src, b>> \in after)
      BY <1>1, <2>3, Zenon
    <3>2. PICK c \in Entry : <<c, b>> \in after /\ (c = a \/ (c = src /\ a = dst))
      BY <3>a, Zenon
    <3>3. /\ mdb_prev[b] \in Entry
          /\ mdb_prev[b] = c \/ <<c, mdb_prev[b]>> \in after
      BY <3>2, Zenon DEF Order, BackReach, EntryTypeOK
    <3>4. mdb_prev[b] # src
      BY <2>3, <3>3, Zenon DEF Order, AdjacentLinked
    <3> QED
      BY <1>1, <3>1, <3>2, <3>3, <3>4, Zenon
  <2> QED
    BY <2>1, <2>2, <2>3, Zenon
<1>11. NullIsolated'
  <2> SUFFICES ASSUME NEW s \in Entry, cap_type[s] = NullObj
               PROVE  mdb_prev'[s] = None /\ mdb_next'[s] = None
    BY <1>4, Zenon DEF NullIsolated, is_null, mdb_isolated
  <2>1. mdb_prev[s] = None /\ mdb_next[s] = None
    BY Zenon DEF NullIsolated, is_null, mdb_isolated
  <2>2. s # src /\ s # dst
    BY Zenon DEF mdb_insert_after, is_null
  <2>3. s # n
    BY <1>b, <2>1, Zenon
  <2> QED
    BY <1>7, <2>1, <2>2, <2>3, Zenon
<1> QED
  BY <1>2, <1>5, <1>8, <1>9, <1>10, <1>11, Zenon DEF Order, RevokeLoop

\* The effect of mdb_remove on the links and the order, entry by entry.
LEMMA UnlinkEffect ==
  ASSUME EntryTypeOK, Order, NEW s \in Entry, Unlink(s)
  PROVE  /\ mdb_next' \in [Entry -> Entry \cup {None}]
         /\ mdb_prev' \in [Entry -> Entry \cup {None}]
         /\ after' \in SUBSET (Entry \X Entry)
         /\ \A a \in Entry : mdb_next'[a] = IF a = s THEN None
                              ELSE IF a = mdb_prev[s] THEN mdb_next[s]
                              ELSE mdb_next[a]
         /\ \A a \in Entry : mdb_prev'[a] = IF a = s THEN None
                              ELSE IF a = mdb_next[s] THEN mdb_prev[s]
                              ELSE mdb_prev[a]
         /\ \A a, b \in Entry : <<a, b>> \in after' <=>
                                 <<a, b>> \in after /\ a # s /\ b # s
<1>1. (mdb_next[s] = None \/ mdb_next[s] \in Entry)
      /\ (mdb_prev[s] = None \/ mdb_prev[s] \in Entry)
  BY Zenon DEF EntryTypeOK
<1>2. after' \in SUBSET (Entry \X Entry)
      /\ \A a, b \in Entry : <<a, b>> \in after' <=>
                              <<a, b>> \in after /\ a # s /\ b # s
  BY Zenon DEF EntryTypeOK, Unlink
<1>3. mdb_next' \in [Entry -> Entry \cup {None}]
      /\ \A a \in Entry : mdb_next'[a] = IF a = s THEN None
                           ELSE IF a = mdb_prev[s] THEN mdb_next[s]
                           ELSE mdb_next[a]
  BY <1>1, EntryAssumption, Zenon DEF EntryTypeOK, Unlink, SetLink
<1>4. mdb_prev' \in [Entry -> Entry \cup {None}]
      /\ \A a \in Entry : mdb_prev'[a] = IF a = s THEN None
                           ELSE IF a = mdb_next[s] THEN mdb_prev[s]
                           ELSE mdb_prev[a]
  BY <1>1, EntryAssumption, Zenon DEF EntryTypeOK, Unlink, SetLink
<1> QED
  BY <1>2, <1>3, <1>4, Zenon

\* Taking an entry out of its chain keeps the chains well formed: its
\* neighbours become adjacent.
LEMMA UnlinkKeepsOrder ==
  ASSUME EntryTypeOK, Order, NEW s \in Entry, Unlink(s)
  PROVE  Order'
<1> USE EntryAssumption
<1> DEFINE n == mdb_next[s]
           p == mdb_prev[s]
<1>1. /\ \A a \in Entry : mdb_next'[a] = IF a = s THEN None
                           ELSE IF a = p THEN n ELSE mdb_next[a]
      /\ \A a \in Entry : mdb_prev'[a] = IF a = s THEN None
                           ELSE IF a = n THEN p ELSE mdb_prev[a]
      /\ \A a, b \in Entry : <<a, b>> \in after' <=>
                              <<a, b>> \in after /\ a # s /\ b # s
  BY UnlinkEffect, Zenon
<1>2. (n = None \/ n \in Entry) /\ (p = None \/ p \in Entry)
  BY Zenon DEF EntryTypeOK
<1>3. /\ n # None => <<s, n>> \in after /\ mdb_prev[n] = s
      /\ p # None => <<p, s>> \in after /\ mdb_next[p] = s
  BY <1>2 DEF Order, AdjacentLinked, Acyclic
<1>4. n # s /\ p # s
  BY <1>2, <1>3, Zenon DEF Order, Acyclic
<1> HIDE DEF n, p
<1>5. AdjacentLinked'
  BY <1>1, <1>2, <1>3, <1>4 DEF Order, AdjacentLinked, EntryTypeOK, n, p
<1>6. Acyclic'
  <2>1. \A a \in Entry : <<a, a>> \notin after'
    BY <1>1, Zenon DEF Order, Acyclic
  <2>2. \A a, b, c \in Entry : <<a, b>> \in after' /\ <<b, c>> \in after'
                                => <<a, c>> \in after'
    BY <1>1, Zenon DEF Order, Acyclic
  <2>3. ASSUME NEW a \in Entry, mdb_next'[a] # None
        PROVE  <<a, mdb_next'[a]>> \in after'
    <3>1. CASE a = p
      BY <1>1, <1>2, <1>3, <1>4, <2>3, <3>1, Zenon DEF Order, Acyclic
    <3>2. CASE a # p
      <4>1. a # s /\ mdb_next'[a] = mdb_next[a] /\ mdb_next[a] \in Entry
        BY <1>1, <2>3, <3>2, Zenon DEF EntryTypeOK
      <4>2. mdb_next[a] # s
        BY <3>2, <4>1, Zenon DEF Order, AdjacentLinked, p
      <4> QED
        BY <1>1, <2>3, <4>1, <4>2, Zenon DEF Order, Acyclic
    <3> QED
      BY <3>1, <3>2, Zenon
  <2>4. ASSUME NEW a \in Entry, NEW b \in Entry, <<a, b>> \in after'
        PROVE  /\ mdb_next'[a] # None
               /\ mdb_next'[a] = b \/ <<mdb_next'[a], b>> \in after'
    <3>1. <<a, b>> \in after /\ a # s /\ b # s
      BY <1>1, <2>4, Zenon
    <3>2. mdb_next[a] \in Entry /\ (mdb_next[a] = b \/ <<mdb_next[a], b>> \in after)
      BY <3>1, Zenon DEF Order, Acyclic, EntryTypeOK
    <3>3. CASE a = p
      <4>1. <<s, b>> \in after
        BY <1>3, <3>1, <3>2, <3>3, Zenon
      <4>2. n \in Entry /\ (n = b \/ <<n, b>> \in after)
        BY <1>2, <4>1, Zenon DEF Order, Acyclic, n
      <4> QED
        BY <1>1, <1>4, <3>1, <3>3, <4>2, Zenon
    <3>4. CASE a # p
      <4>1. mdb_next[a] # s
        BY <3>4, Zenon DEF Order, AdjacentLinked, p
      <4> QED
        BY <1>1, <3>1, <3>2, <3>4, <4>1, Zenon
    <3> QED
      BY <3>3, <3>4, Zenon
  <2> QED
    BY <2>1, <2>2, <2>3, <2>4, Zenon DEF Acyclic
<1>7. BackReach'
  <2> SUFFICES ASSUME NEW a \in Entry, NEW b \in Entry, <<a, b>> \in after'
               PROVE  /\ mdb_prev'[b] # None
                      /\ mdb_prev'[b] = a \/ <<a, mdb_prev'[b]>> \in after'
    BY Zenon DEF BackReach
  <2>1. <<a, b>> \in after /\ a # s /\ b # s
    BY <1>1, Zenon
  <2>2. mdb_prev[b] \in Entry /\ (mdb_prev[b] = a \/ <<a, mdb_prev[b]>> \in after)
    BY <2>1, Zenon DEF Order, BackReach, EntryTypeOK
  <2>3. CASE b = n
    <3>1. <<a, s>> \in after
      BY <1>3, <2>1, <2>2, <2>3, Zenon
    <3>2. p \in Entry /\ (p = a \/ <<a, p>> \in after)
      BY <1>2, <3>1, Zenon DEF Order, BackReach, p
    <3> QED
      BY <1>1, <1>4, <2>1, <2>3, <3>2, Zenon
  <2>4. CASE b # n
    <3>1. mdb_prev[b] # s
      BY <2>4, Zenon DEF Order, AdjacentLinked, n
    <3> QED
      BY <1>1, <2>1, <2>2, <2>4, <3>1, Zenon
  <2> QED
    BY <2>3, <2>4, Zenon
<1> QED
  BY <1>5, <1>6, <1>7, Zenon DEF Order

\* Unlinking an entry leaves a null slot isolated if it was.
LEMMA UnlinkKeepsIsolated ==
  ASSUME EntryTypeOK, Order, NEW s \in Entry, Unlink(s), NEW x \in Entry, mdb_isolated(x)
  PROVE  mdb_isolated(x)'
<1>1. /\ mdb_next'[x] = IF x = s THEN None
                        ELSE IF x = mdb_prev[s] THEN mdb_next[s] ELSE mdb_next[x]
      /\ mdb_prev'[x] = IF x = s THEN None
                        ELSE IF x = mdb_next[s] THEN mdb_prev[s] ELSE mdb_prev[x]
  BY UnlinkEffect, Zenon
<1>2. x # mdb_prev[s] /\ x # mdb_next[s]
  BY EntryAssumption, Zenon DEF Order, AdjacentLinked, mdb_isolated
<1> QED
  BY <1>1, <1>2, Zenon DEF mdb_isolated

\* mdb_remove keeps the invariant.
LEMMA RemoveKeepsChainInv ==
  ASSUME ChainInv, NEW s \in Entry, mdb_remove(s)
  PROVE  ChainInv'
<1> USE DEF ChainInv
<1>1. Unlink(s) /\ cap_type' = cap_type /\ op = None /\ op' = None
  BY Zenon DEF mdb_remove
<1>2. EntryTypeOK'
  BY <1>1, UnlinkEffect, Zenon DEF EntryTypeOK
<1>3. Order'
  BY <1>1, UnlinkKeepsOrder, Zenon
<1>4. NullIsolated'
  <2> SUFFICES ASSUME NEW x \in Entry, is_null(x)'
               PROVE  mdb_isolated(x)'
    BY Zenon DEF NullIsolated
  <2> QED
    BY <1>1, UnlinkKeepsIsolated, Zenon DEF NullIsolated, is_null
<1>5. RevokeLoop'
  BY <1>1, Zenon DEF RevokeLoop
<1> QED
  BY <1>2, <1>3, <1>4, <1>5, Zenon

\* An iteration of revoke keeps the invariant: the entry it unlinks comes right
\* after self, so its successor takes its place there.
LEMMA RevokeStepKeepsChainInv ==
  ASSUME ChainInv, RevokeStep
  PROVE  ChainInv'
<1> USE DEF ChainInv
<1> DEFINE s == op.cur
           self == op.self
<1>1. /\ op \in Revocation
      /\ op # None /\ s \in Entry /\ self \in Entry
  BY Zenon DEF Revocation, RevokeStep, EntryTypeOK
<1>2. /\ s = mdb_next[self]
      /\ \A x \in op.doomed : <<self, x>> \in after \/ is_null(x)
      /\ \A x \in Entry : <<self, x>> \in after => x \in op.doomed
  BY <1>1, Zenon DEF RevokeLoop
<1>3. Unlink(s) /\ op' = [op EXCEPT !.cur = mdb_next[s]]
      /\ cap_type' = [cap_type EXCEPT ![s] = NullObj]
  BY Zenon DEF RevokeStep
<1> HIDE DEF s, self
<1>4. mdb_prev[s] = self /\ s # self
  <2>1. mdb_next[self] # None
    BY <1>1, <1>2, EntryAssumption, Zenon
  <2>2. <<self, s>> \in after
    BY <1>1, <1>2, <2>1, Zenon DEF Order, Acyclic
  <2> QED
    BY <1>1, <1>2, <2>2, Zenon DEF Order, AdjacentLinked, Acyclic
<1>5. EntryTypeOK'
  <2>1. op' \in Revocation
    BY <1>1, <1>3, Zenon DEF Revocation, EntryTypeOK
  <2> QED
    BY <1>1, <1>3, <2>1, UnlinkEffect, Zenon DEF EntryTypeOK
<1>6. Order'
  BY <1>1, <1>3, UnlinkKeepsOrder, Zenon
<1>7. \A x \in Entry : cap_type'[x] = IF x = s THEN NullObj ELSE cap_type[x]
  BY <1>1, <1>3, Zenon DEF EntryTypeOK
<1>8. NullIsolated'
  <2> SUFFICES ASSUME NEW x \in Entry, is_null(x)'
               PROVE  mdb_isolated(x)'
    BY Zenon DEF NullIsolated
  <2>1. CASE x = s
    BY <1>1, <1>3, <2>1, UnlinkEffect, Zenon DEF mdb_isolated
  <2>2. CASE x # s
    BY <1>1, <1>3, <1>7, <2>2, UnlinkKeepsIsolated, Zenon DEF NullIsolated, is_null
  <2> QED
    BY <2>1, <2>2, Zenon
<1>9. RevokeLoop'
  <2>1. op'.self = self /\ op'.cur = mdb_next[s] /\ op'.doomed = op.doomed
    BY <1>1, <1>3 DEF self
  <2>2. mdb_next'[self] = mdb_next[s]
    BY <1>1, <1>3, <1>4, UnlinkEffect, Zenon
  <2>3. \A x \in Entry : <<self, x>> \in after' <=> <<self, x>> \in after /\ x # s
    BY <1>1, <1>3, <1>4, UnlinkEffect, Zenon
  <2>4. \A x \in op.doomed : x \in Entry
    BY <1>1, Zenon DEF Revocation
  <2>5. ASSUME NEW x \in op.doomed
        PROVE  <<self, x>> \in after' \/ is_null(x)'
    BY <1>2, <1>7, <2>3, <2>4, Zenon DEF is_null
  <2>6. \A x \in Entry : <<self, x>> \in after' => x \in op.doomed
    BY <1>2, <2>3, Zenon
  <2> QED
    BY <2>1, <2>2, <2>5, <2>6, Zenon DEF RevokeLoop, is_null
<1> QED
  BY <1>5, <1>6, <1>8, <1>9, Zenon

\* Every step of the mapping database keeps the invariant.
LEMMA NextChainInv == ChainInv /\ [MdbNext]_mdbVars => ChainInv'
<1> SUFFICES ASSUME ChainInv, [MdbNext]_mdbVars PROVE ChainInv'
  BY Zenon
<1>1. ASSUME NEW s \in Entry, NEW c \in ObjType, Insert(s, c)
      PROVE  ChainInv'
  <2>1. mdb_prev[s] = None /\ mdb_next[s] = None
    BY <1>1, Zenon DEF ChainInv, NullIsolated, mdb_isolated, Insert
  <2>2. mdb_next' = mdb_next /\ mdb_prev' = mdb_prev /\ after' = after /\ op' = op
    BY <1>1, <2>1, Zenon DEF Insert, ChainInv, EntryTypeOK
  <2>3. cap_type' \in [Entry -> ObjType \cup {NullObj}] /\ op = None
        /\ \A x \in Entry : is_null(x)' => is_null(x)
    BY <1>1, NullAssumption, Zenon DEF Insert, ChainInv, EntryTypeOK, is_null
  <2> QED
    BY <2>2, <2>3 DEF ChainInv, EntryTypeOK, Order, AdjacentLinked, Acyclic, BackReach,
       NullIsolated, mdb_isolated, RevokeLoop
<1>2. ASSUME NEW s \in Entry, NEW d \in Entry, mdb_insert_after(s, d)
      PROVE  ChainInv'
  BY <1>2, InsertKeepsOrder, Zenon
<1>3. ASSUME NEW s \in Entry, mdb_remove(s)
      PROVE  ChainInv'
  BY <1>3, RemoveKeepsChainInv, Zenon
<1>4. ASSUME NEW s \in Entry, revoke(s)
      PROVE  ChainInv'
  <2>1. UNCHANGED <<cap_type, mdb_next, mdb_prev, after>>
        /\ op' = [self |-> s, cur |-> mdb_next[s],
                  doomed |-> {b \in Entry : <<s, b>> \in after}]
    BY <1>4, Zenon DEF revoke
  <2>2. EntryTypeOK'
    BY <2>1, Zenon DEF Revocation, ChainInv, EntryTypeOK
  <2>3. RevokeLoop'
    BY <2>1, Zenon DEF RevokeLoop
  <2> QED
    BY <2>1, <2>2, <2>3, Zenon DEF ChainInv, Order, AdjacentLinked, Acyclic, BackReach,
       NullIsolated, is_null, mdb_isolated
<1>5. CASE RevokeStep
  BY <1>5, RevokeStepKeepsChainInv, Zenon
<1>6. CASE RevokeEnd
  BY <1>6 DEF RevokeEnd, ChainInv, EntryTypeOK, Order, AdjacentLinked, Acyclic, BackReach,
     NullIsolated, is_null, mdb_isolated, RevokeLoop
<1>7. CASE UNCHANGED mdbVars
  BY <1>7, Zenon DEF mdbVars, ChainInv, EntryTypeOK, Order, AdjacentLinked, Acyclic, BackReach,
     NullIsolated, is_null, mdb_isolated, RevokeLoop
<1> QED
  BY <1>1, <1>2, <1>3, <1>4, <1>5, <1>6, <1>7, Zenon DEF MdbNext

\* ChainInv holds in every reachable state.
LEMMA MdbInductive == MdbSpec => []ChainInv
  BY InitChainInv, NextChainInv, PTL DEF MdbSpec

\* The mapping database is well typed.
THEOREM MdbTypeOK == MdbSpec => []EntryTypeOK
  BY MdbInductive, PTL DEF ChainInv

\* next and prev are inverse to one another after every operation and between
\* the iterations of revoke, for any number of slots.
THEOREM MdbAdjacentLinked == MdbSpec => []AdjacentLinked
  BY MdbInductive, PTL DEF ChainInv, Order

\* No chain of links is cyclic, and the order is exactly what the links reach.
THEOREM MdbAcyclic == MdbSpec => []Acyclic
  BY MdbInductive, PTL DEF ChainInv, Order

\* No link leads from or to a null slot, so insert never cuts a chain.
THEOREM MdbNullIsolated == MdbSpec => []NullIsolated
  BY MdbInductive, PTL DEF ChainInv

\* revoke erases what followed its entry and nothing else.
THEOREM MdbRevokeExact == MdbSpec => RevokeExact
<1>1. ASSUME ChainInv, [MdbNext]_mdbVars, op # None
      PROVE  /\ op' = None => /\ mdb_next[op.self] = None
                              /\ \A s \in op.doomed : is_null(s)
             /\ \A s \in Entry \ op.doomed : cap_type'[s] = cap_type[s]
  <2>1. RevokeStep \/ RevokeEnd \/ UNCHANGED mdbVars
    BY <1>1, Zenon DEF MdbNext, Insert, mdb_insert_after, mdb_remove, revoke
  <2>2. /\ op \in Revocation
        /\ op.cur = mdb_next[op.self]
        /\ \A s \in op.doomed : <<op.self, s>> \in after \/ is_null(s)
        /\ \A s \in Entry : <<op.self, s>> \in after => s \in op.doomed
    BY <1>1, Zenon DEF ChainInv, EntryTypeOK, RevokeLoop
  <2>3. CASE RevokeStep
    <3>1. op.cur \in Entry /\ <<op.self, op.cur>> \in after
      BY <1>1, <2>2, <2>3, Zenon DEF Revocation, RevokeStep, ChainInv, Order, Acyclic
    <3>2. op' # None
      <4>1. op' = [op EXCEPT !.cur = mdb_next[op.cur]]
        BY <2>3, Zenon DEF RevokeStep
      <4>2. mdb_next[op.cur] \in Entry \cup {None}
        BY <1>1, <3>1, Zenon DEF ChainInv, EntryTypeOK
      <4>3. op' \in Revocation
        BY <2>2, <4>1, <4>2, Zenon DEF Revocation
      <4> QED
        BY <4>3, NoneAssumption, Zenon
    <3> QED
      BY <1>1, <2>2, <2>3, <3>1, <3>2, Zenon DEF RevokeStep, ChainInv, EntryTypeOK
  <2>4. CASE RevokeEnd
    <3>1. mdb_next[op.self] = None
      BY <2>2, <2>4, Zenon DEF RevokeEnd
    <3>2. \A s \in Entry : <<op.self, s>> \notin after
      BY <1>1, <2>2, <3>1, Zenon DEF Revocation, ChainInv, Order, Acyclic
    <3> QED
      BY <2>2, <2>4, <3>1, <3>2, Zenon DEF Revocation, RevokeEnd
  <2>5. CASE UNCHANGED mdbVars
    BY <1>1, <2>5, Zenon DEF mdbVars
  <2> QED
    BY <2>1, <2>3, <2>4, <2>5, Zenon
<1> QED
  BY <1>1, MdbInductive, PTL DEF RevokeExact, MdbSpec
=============================================================================
