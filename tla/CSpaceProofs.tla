---------------------------- MODULE CSpaceProofs ----------------------------
(***************************************************************************)
(* The lookup of kernel/src/cspace.rs finds the slot that an address       *)
(* spells, for every capability space whose CNodes resolve bits, cycles    *)
(* included, every address and depth, every radix and guard and every      *)
(* width of a word.                                                        *)
(***************************************************************************)
EXTENDS CSpace, TLAPS, WellFoundedInduction

(***************************************************************************)
(* The fields of an address, as the code cuts them out.                    *)
(***************************************************************************)
\* The quotient and the remainder are unique.
LEMMA Remainder ==
    ASSUME NEW n \in Nat \ {0}, NEW q \in Nat, NEW r \in 0 .. n - 1
    PROVE  (n * q + r) % n = r
  OBVIOUS

\* An address has a number of bits.
LEMMA DepthNat == CNODE_DEPTH \in Nat
  BY CNodeAssumption, PowerAssumption

\* The fields of a CNode capability.
LEMMA CapFacts ==
    ASSUME NEW c \in CNodeCap
    PROVE  /\ c.node \in CNode /\ radix_bits(c) \in 0 .. CNODE_DEPTH
           /\ guard_bits(c) \in 0 .. CNODE_DEPTH /\ guard(c) \in Nat
           /\ level_bits(c) \in Nat
           /\ level_bits(c) = guard_bits(c) + radix_bits(c)
           /\ size(c.node) = 2 ^ radix_bits(c) /\ size(c.node) \in Nat \ {0}
<1>1. c.node \in CNode /\ c.guard \in Guard
  BY Zenon DEF CNodeCap
<1>2. Radix[c.node] \in 0 .. CNODE_DEPTH
  BY <1>1, CNodeAssumption, Zenon
<1>3. c.guard[1] \in 0 .. CNODE_DEPTH /\ c.guard[2] \in Nat
  BY <1>1, CNodeAssumption, Zenon
<1>4. 2 ^ Radix[c.node] \in Nat \ {0}
  BY <1>2, PowerAssumption, Zenon
<1> QED
  BY <1>1, <1>2, <1>3, <1>4 DEF radix_bits, guard_bits, guard, level_bits, size

\* The first w of the last m bits of x, as the shift and the mask of the code
\* cut them out, and as a part of an address of n bits.
FieldOf(x, m, w) == (x \div 2 ^ (m - w)) % 2 ^ w
HasField(x, n, m, w, v) == \A k \in 1 .. w : Bits(x, n)[n - m + k] = Bits(v, w)[k]

\* A field fits its width.
LEMMA FieldType ==
    ASSUME NEW x \in Nat, NEW m \in 0 .. CNODE_DEPTH, NEW w \in 0 .. m
    PROVE  FieldOf(x, m, w) \in 0 .. 2 ^ w - 1
<1>1. m - w \in 0 .. CNODE_DEPTH /\ w \in 0 .. CNODE_DEPTH
  BY PowerAssumption, CNodeAssumption
<1>2. 2 ^ (m - w) \in Nat \ {0} /\ 2 ^ w \in Nat \ {0}
  BY <1>1, PowerAssumption, Zenon
<1> DEFINE y == x \div 2 ^ (m - w)
<1>3. y \in Nat
  BY <1>2
<1> HIDE DEF y
<1>4. y % 2 ^ w \in 0 .. 2 ^ w - 1
  BY <1>2, <1>3
<1> QED
  BY <1>4, Zenon DEF y, FieldOf

\* The guard and the index in the last m bits of x.
GuardOf(x, m, d) == FieldOf(x, m, guard_bits(d))
IndexOf(x, m, d) == FieldOf(x, m - guard_bits(d), radix_bits(d))

\* The bits left are enough for the CNode and start with its guard.
Matches(x, m, d) == level_bits(d) <= m /\ guard(d) = GuardOf(x, m, d)

\* The wrapping subtraction, the shifts and the masks of the code cut the guard
\* and the index out of the bits that are left.
LEMMA CodeFields ==
    ASSUME cptr \in Nat, n_bits \in 1 .. CNODE_DEPTH, NEW d \in CNodeCap
    PROVE  /\ Mismatch(d) <=> ~ Matches(cptr, n_bits, d)
           /\ ~ Mismatch(d) => IndexIn(d) = IndexOf(cptr, n_bits, d)
<1> DEFINE g == guard_bits(d)
           r == radix_bits(d)
           shift == (n_bits + WORD_BITS - g) % WORD_BITS
<1>1. /\ g \in 0 .. CNODE_DEPTH /\ r \in 0 .. CNODE_DEPTH /\ level_bits(d) = g + r
  BY CapFacts
<1>2. WORD_BITS \in Nat /\ CNODE_DEPTH \in 1 .. WORD_BITS - 1
  BY CNodeAssumption, PowerAssumption
<1>3. ASSUME NEW y \in Nat PROVE y % 2 ^ 0 = 0
  BY PowerAssumption
<1>4. ASSUME g <= n_bits PROVE GuardIn(d) = GuardOf(cptr, n_bits, d)
  <2>1. n_bits - g \in 0 .. CNODE_DEPTH
    <3> HIDE DEF g
    <3>1. g \in Nat /\ n_bits \in Nat /\ n_bits <= CNODE_DEPTH
      BY <1>1, DepthNat
    <3> QED
      BY <1>4, <3>1, DepthNat
  <2>2. 2 ^ (n_bits - g) \in Nat \ {0}
    BY <2>1, PowerAssumption
  <2>3. CASE g = 0
    <3>1. cptr \div 2 ^ (n_bits - g) \in Nat
      BY <2>2
    <3>2. (cptr \div 2 ^ (n_bits - g)) % 2 ^ g = 0
      BY <1>3, <2>3, <3>1
    <3> QED
      BY <2>3, <3>2, Zenon DEF GuardIn, GuardOf, FieldOf
  <2>4. CASE g # 0
    <3>1. shift = n_bits - g
      <4> DEFINE W == WORD_BITS
                 e == n_bits - g
      <4>1. W \in Nat \ {0} /\ e \in 0 .. W - 1 /\ n_bits + W - g = W * 1 + e /\ 1 \in Nat
        <5> HIDE DEF g, W
        <5>1. g \in Nat /\ g <= n_bits /\ n_bits <= CNODE_DEPTH /\ n_bits \in Nat
          BY <1>1, <1>4
        <5>2. W \in Nat /\ CNODE_DEPTH \in 1 .. W - 1
          BY <1>2 DEF W
        <5> QED
          BY <5>1, <5>2
      <4> HIDE DEF W, e
      <4>2. (W * 1 + e) % W = e
        BY <4>1, Remainder
      <4> QED
        BY <4>1, <4>2, Zenon DEF W, e
    <3> QED
      BY <2>4, <3>1, Zenon DEF GuardIn, GuardOf, FieldOf, LowBits
  <2> QED
    BY <2>3, <2>4
<1>5. ASSUME level_bits(d) <= n_bits PROVE IndexIn(d) = IndexOf(cptr, n_bits, d)
  <2>1. /\ n_bits - level_bits(d) \in 0 .. CNODE_DEPTH
        /\ (n_bits - g) - r = n_bits - level_bits(d)
    <3> HIDE DEF g, r
    <3>1. level_bits(d) \in Nat /\ g \in Nat /\ r \in Nat /\ level_bits(d) = g + r
      BY <1>1
    <3>2. n_bits \in Nat /\ n_bits <= CNODE_DEPTH
      BY DepthNat
    <3> QED
      BY <1>5, <3>1, <3>2, DepthNat
  <2>2. 2 ^ (n_bits - level_bits(d)) \in Nat \ {0}
    BY <2>1, PowerAssumption
  <2>3. IndexOf(cptr, n_bits, d) = (cptr \div 2 ^ (n_bits - level_bits(d))) % 2 ^ r
    BY <2>1, Zenon DEF IndexOf, FieldOf
  <2>4. CASE r = 0
    <3>1. cptr \div 2 ^ (n_bits - level_bits(d)) \in Nat
      BY <2>2
    <3>2. (cptr \div 2 ^ (n_bits - level_bits(d))) % 2 ^ r = 0
      BY <1>3, <2>4, <3>1
    <3> QED
      BY <2>3, <2>4, <3>2, Zenon DEF IndexIn
  <2>5. CASE r # 0
    BY <2>3, <2>5, Zenon DEF IndexIn, LowBits
  <2> QED
    BY <2>4, <2>5
<1>6. level_bits(d) <= n_bits => g <= n_bits
  <2> HIDE DEF g, r
  <2>1. g \in Nat /\ r \in Nat /\ level_bits(d) = g + r
    BY <1>1
  <2> QED
    BY <2>1
<1>7. /\ (level_bits(d) > n_bits) <=> ~ (level_bits(d) <= n_bits)
      /\ (g > n_bits) <=> ~ (g <= n_bits)
  BY <1>1
<1> QED
  BY <1>4, <1>5, <1>6, <1>7, Zenon DEF Mismatch, Matches

(***************************************************************************)
(* Induction, over sets of numbers.                                        *)
(***************************************************************************)
\* A set of numbers that has the first one of an interval, and the successor of
\* each one it has, has the interval.
LEMMA Climb ==
    ASSUME NEW m \in Nat, NEW n \in Nat, NEW S, m \in S,
           \A k \in m .. n - 1 : k \in S => k + 1 \in S
    PROVE  m .. n \subseteq S
<1> SUFFICES ASSUME NEW x \in m .. n, x \notin S PROVE FALSE
  BY Zenon
<1> DEFINE T == {k \in m .. n : k \notin S}
<1>1. T \in SUBSET Nat /\ x \in T
  OBVIOUS
<1>2. PICK y \in T : \A z \in T : ~ (<<z, y>> \in OpToRel(<, Nat))
  BY <1>1, NatLessThanWellFounded, WFMin, Zenon
<1>3. \A z \in T : ~ (z < y)
  BY <1>1, <1>2, Zenon DEF OpToRel
<1>4. y # m /\ y - 1 \in m .. n - 1
  OBVIOUS
<1>5. y - 1 \notin T
  BY <1>3, <1>4
<1> QED
  BY <1>4, <1>5

\* f starts with v, and F gives each next value from the one before it.
IsStep(F, n, V) == F \in [(1 .. n) \X V -> V]
Iterates(f, F, n, V, v) ==
    /\ f \in [1 .. n + 1 -> V] /\ f[1] = v
    /\ \A k \in 1 .. n : f[k + 1] = F[<<k, f[k]>>]

\* A function on an interval may be given by its first value and the step from
\* one value to the next.
LEMMA Iterate ==
    ASSUME NEW n \in Nat, NEW V, NEW v \in V, NEW F, IsStep(F, n, V)
    PROVE  \E f : Iterates(f, F, n, V, v)
<1> USE DEF IsStep
<1> DEFINE Good(f, j) == /\ f \in [1 .. j + 1 -> V] /\ f[1] = v
                         /\ \A k \in 1 .. j : f[k + 1] = F[<<k, f[k]>>]
           S == {j \in 0 .. n : \E f : Good(f, j)}
<1>1. 0 \in S
  <2> DEFINE g == [k \in 1 .. 1 |-> v]
  <2>1. Good(g, 0) /\ 0 \in 0 .. n
    OBVIOUS
  <2> HIDE DEF g, Good
  <2> QED
    BY <2>1, Zenon
<1>2. ASSUME NEW j \in 0 .. n - 1, j \in S
      PROVE  j + 1 \in S
  <2>1. PICK f : Good(f, j)
    BY <1>2, Zenon
  <2>2. /\ f \in [1 .. j + 1 -> V] /\ f[1] = v
        /\ \A k \in 1 .. j : f[k + 1] = F[<<k, f[k]>>]
    BY <2>1, Zenon
  <2> DEFINE w == F[<<j + 1, f[j + 1]>>]
             g == [k \in 1 .. j + 2 |-> IF k = j + 2 THEN w ELSE f[k]]
  <2>3. w \in V
    BY <2>2
  <2> HIDE DEF w
  <2>4. g \in [1 .. j + 2 -> V] /\ g[1] = v
    BY <2>2, <2>3
  <2>5. ASSUME NEW k \in 1 .. j + 1 PROVE g[k + 1] = F[<<k, g[k]>>]
    <3>1. CASE k = j + 1
      <4>1. g[j + 2] = w /\ g[j + 1] = f[j + 1] /\ k + 1 = j + 2
        BY <3>1
      <4> HIDE DEF g
      <4> QED
        BY <3>1, <4>1, Zenon DEF w
    <3>2. CASE k # j + 1
      BY <2>2, <3>2
    <3> QED
      BY <3>1, <3>2, Zenon
  <2> HIDE DEF g
  <2>6. Good(g, j + 1)
    BY <2>4, <2>5
  <2> QED
    BY <2>6
<1>3. n \in S
  <2> HIDE DEF S
  <2>1. 0 .. n \subseteq S
    BY <1>1, <1>2, Climb, Zenon
  <2> QED
    BY <2>1
<1> QED
  BY <1>3, Zenon DEF Iterates

(***************************************************************************)
(* Numbers and their bits.                                                 *)
(***************************************************************************)
\* Bits of a number are numbers.
LEMMA BitsType ==
    ASSUME NEW x \in Nat, NEW w \in 0 .. CNODE_DEPTH
    PROVE  Bits(x, w) \in Seq(Nat) /\ Len(Bits(x, w)) = w
<1>1. ASSUME NEW k \in 1 .. w PROVE (x \div 2 ^ (w - k)) % 2 \in Nat
  <2>1. w - k \in 0 .. CNODE_DEPTH
    BY CNodeAssumption, PowerAssumption
  <2>2. 2 ^ (w - k) \in Nat \ {0}
    BY <2>1, PowerAssumption, Zenon
  <2> QED
    BY <2>2
<1>2. Bits(x, w) \in [1 .. w -> Nat]
  BY <1>1, Zenon DEF Bits
<1>3. w \in Nat
  OBVIOUS
<1> QED
  BY <1>2, <1>3

\* A number below a * b, in base a.
LEMMA SplitMod ==
    ASSUME NEW x \in Nat, NEW a \in Nat \ {0}, NEW b \in Nat \ {0}
    PROVE  x % (a * b) = (x % a) + a * ((x \div a) % b)
<1> DEFINE q == x \div a
           r == x % a
           s == q \div b
           t == q % b
<1>1. q \in Nat /\ r \in 0 .. a - 1 /\ x = a * q + r
  OBVIOUS
<1>2. s \in Nat /\ t \in 0 .. b - 1 /\ q = b * s + t
  BY <1>1
<1> HIDE DEF q, r, s, t
<1>3. a * b \in Nat \ {0} /\ r + a * t \in 0 .. a * b - 1
  BY <1>1, <1>2
<1>4. a * (b * s + t) = (a * b) * s + a * t
  BY <1>2
<1>5. x = (a * b) * s + (r + a * t)
  BY <1>1, <1>2, <1>3, <1>4
<1>6. x % (a * b) = r + a * t
  BY <1>2, <1>3, <1>5, Remainder, Zenon
<1> QED
  BY <1>6, Zenon DEF q, r, t

\* Two numbers agree in their last w bits iff they are congruent modulo 2^w.
LEMMA LowBitsAgree ==
    ASSUME NEW x \in Nat, NEW y \in Nat, NEW w \in 0 .. CNODE_DEPTH
    PROVE  (\A k \in 0 .. w - 1 : (x \div 2 ^ k) % 2 = (y \div 2 ^ k) % 2)
              <=> x % 2 ^ w = y % 2 ^ w
<1> DEFINE bit(z, k) == (z \div 2 ^ k) % 2
           S == {j \in 0 .. w : (\A k \in 0 .. j - 1 : bit(x, k) = bit(y, k))
                                   <=> x % 2 ^ j = y % 2 ^ j}
<1>1. 0 \in S
  BY PowerAssumption
<1>2. ASSUME NEW j \in 0 .. w - 1, j \in S
      PROVE  j + 1 \in S
  <2> DEFINE a == 2 ^ j
  <2>1. a \in Nat \ {0} /\ 2 ^ (j + 1) = a * 2
    <3>1. j \in 0 .. CNODE_DEPTH /\ 1 \in 0 .. CNODE_DEPTH /\ j + 1 <= CNODE_DEPTH
      BY PowerAssumption, CNodeAssumption
    <3>2. 2 ^ (j + 1) = 2 ^ j * 2 ^ 1
      BY <3>1, PowerAssumption, Zenon
    <3> QED
      BY <3>1, <3>2, PowerAssumption, Zenon
  <2>2. \A z \in Nat : bit(z, j) \in {0, 1} /\ z % a \in 0 .. a - 1
    BY <2>1
  <2>3. ASSUME NEW z \in Nat PROVE z % 2 ^ (j + 1) = (z % a) + a * bit(z, j)
    <3> HIDE DEF a
    <3>1. 2 \in Nat \ {0}
      OBVIOUS
    <3>2. z % (a * 2) = (z % a) + a * ((z \div a) % 2)
      BY <2>1, <3>1, SplitMod, Zenon
    <3> QED
      BY <2>1, <3>2, Zenon DEF a
  <2>4. (\A k \in 0 .. j : bit(x, k) = bit(y, k)) <=>
           /\ \A k \in 0 .. j - 1 : bit(x, k) = bit(y, k)
           /\ bit(x, j) = bit(y, j)
    <3> HIDE DEF bit
    <3> QED OBVIOUS
  <2>5. (\A k \in 0 .. j - 1 : bit(x, k) = bit(y, k)) <=> x % a = y % a
    BY <1>2, Zenon
  <2> HIDE DEF bit, a
  <2>6. x % 2 ^ (j + 1) = y % 2 ^ (j + 1) <=>
           x % a = y % a /\ bit(x, j) = bit(y, j)
    <3> DEFINE r == x % a
               s == y % a
               b == bit(x, j)
               c == bit(y, j)
    <3>1. r \in 0 .. a - 1 /\ s \in 0 .. a - 1 /\ b \in {0, 1} /\ c \in {0, 1}
      BY <2>2, Zenon
    <3>2. x % 2 ^ (j + 1) = r + a * b /\ y % 2 ^ (j + 1) = s + a * c
      BY <2>3, Zenon
    <3> HIDE DEF r, s, b, c
    <3>3. r + a * b = s + a * c <=> r = s /\ b = c
      BY <2>1, <3>1
    <3> QED
      BY <3>2, <3>3, Zenon DEF r, s, b, c
  <2>7. (j + 1) - 1 = j /\ j + 1 \in 0 .. w
    OBVIOUS
  <2> QED
    BY <2>4, <2>5, <2>6, <2>7, Zenon
<1>3. 0 .. w \subseteq S
  <2> HIDE DEF S
  <2> QED
    BY <1>1, <1>2, Climb
<1> QED
  BY <1>3

\* Letters lie next to each other in an address: the w bits after the first
\* depth - m are those of cptr above its last m - w.
LEMMA BitsInside ==
    ASSUME NEW x \in Nat, NEW n \in 0 .. CNODE_DEPTH, NEW m \in 0 .. n, NEW w \in 0 .. m,
           NEW k \in 1 .. w
    PROVE  Bits(x, n)[n - m + k] = Bits(x \div 2 ^ (m - w), w)[k]
<1>1. n - m + k \in 1 .. n /\ n - (n - m + k) = (m - w) + (w - k)
  OBVIOUS
<1>2. /\ m - w \in 0 .. CNODE_DEPTH /\ w - k \in 0 .. CNODE_DEPTH
      /\ (m - w) + (w - k) <= CNODE_DEPTH
  BY CNodeAssumption
<1>3. 2 ^ ((m - w) + (w - k)) = 2 ^ (m - w) * 2 ^ (w - k)
  BY <1>2, PowerAssumption, Zenon
<1>4. 2 ^ (m - w) \in Nat \ {0} /\ 2 ^ (w - k) \in Nat \ {0}
  BY <1>2, PowerAssumption, Zenon
<1>5. x \div (2 ^ (m - w) * 2 ^ (w - k)) = (x \div 2 ^ (m - w)) \div 2 ^ (w - k)
  BY <1>4
<1> QED
  BY <1>1, <1>3, <1>5, Zenon DEF Bits

\* A field of w bits is in the address, after its first n - m bits, iff the
\* shift and the mask of the code cut it out.
LEMMA FieldInside ==
    ASSUME NEW x \in Nat, NEW n \in 0 .. CNODE_DEPTH, NEW m \in 0 .. n, NEW w \in 0 .. m,
           NEW v \in 0 .. 2 ^ w - 1
    PROVE  HasField(x, n, m, w, v) <=> v = FieldOf(x, m, w)
<1> DEFINE y == x \div 2 ^ (m - w)
<1>1. /\ w \in 0 .. CNODE_DEPTH /\ m - w \in 0 .. CNODE_DEPTH
      /\ 2 ^ (m - w) \in Nat \ {0} /\ 2 ^ w \in Nat \ {0}
  BY PowerAssumption, CNodeAssumption
<1>2. y \in Nat /\ v \in Nat /\ v % 2 ^ w = v
  BY <1>1
<1>3. \A k \in 1 .. w : Bits(x, n)[n - m + k] = Bits(y, w)[k]
  BY BitsInside, Zenon
<1> HIDE DEF y
<1>4. \A k \in 1 .. w : /\ Bits(y, w)[k] = (y \div 2 ^ (w - k)) % 2
                        /\ Bits(v, w)[k] = (v \div 2 ^ (w - k)) % 2
  BY Zenon DEF Bits
<1>5. (\A k \in 1 .. w : Bits(y, w)[k] = Bits(v, w)[k]) <=>
         \A i \in 0 .. w - 1 : (y \div 2 ^ i) % 2 = (v \div 2 ^ i) % 2
  <2>1. ASSUME \A k \in 1 .. w : Bits(y, w)[k] = Bits(v, w)[k],
               NEW i \in 0 .. w - 1
        PROVE  (y \div 2 ^ i) % 2 = (v \div 2 ^ i) % 2
    <3>1. w - i \in 1 .. w /\ w - (w - i) = i
      BY <1>1
    <3> QED
      BY <1>4, <2>1, <3>1, Zenon
  <2>2. ASSUME \A i \in 0 .. w - 1 : (y \div 2 ^ i) % 2 = (v \div 2 ^ i) % 2,
               NEW k \in 1 .. w
        PROVE  Bits(y, w)[k] = Bits(v, w)[k]
    <3>1. w - k \in 0 .. w - 1
      BY <1>1
    <3> QED
      BY <1>4, <2>2, <3>1, Zenon
  <2> QED
    BY <2>1, <2>2, Zenon
<1>6. (\A i \in 0 .. w - 1 : (y \div 2 ^ i) % 2 = (v \div 2 ^ i) % 2)
         <=> y % 2 ^ w = v % 2 ^ w
  BY <1>1, <1>2, LowBitsAgree, Zenon
<1>7. (\A k \in 1 .. w : Bits(x, n)[n - m + k] = Bits(v, w)[k])
         <=> y % 2 ^ w = v
  <2>1. (\A k \in 1 .. w : Bits(x, n)[n - m + k] = Bits(v, w)[k])
           <=> \A k \in 1 .. w : Bits(y, w)[k] = Bits(v, w)[k]
    BY <1>3, Zenon
  <2> QED
    BY <1>2, <1>5, <1>6, <2>1, Zenon
<1> QED
  BY <1>7, Zenon DEF y, FieldOf, HasField

\* Concatenation.
LEMMA Concat ==
    ASSUME NEW g \in Seq(Nat), NEW h \in Seq(Nat)
    PROVE  /\ g \o h \in Seq(Nat) /\ Len(g \o h) = Len(g) + Len(h)
           /\ \A k \in 1 .. Len(g) : (g \o h)[k] = g[k]
           /\ \A k \in 1 .. Len(h) : (g \o h)[Len(g) + k] = h[k]
<1>1. g \o h \in Seq(Nat)
  OBVIOUS
<1>2. Len(g \o h) = Len(g) + Len(h)
  OBVIOUS
<1>3. \A k \in 1 .. Len(g) : (g \o h)[k] = g[k]
  OBVIOUS
<1>4. \A k \in 1 .. Len(h) : (g \o h)[Len(g) + k] = h[k]
  OBVIOUS
<1> QED
  BY <1>1, <1>2, <1>3, <1>4, Zenon

\* The letters of a slot: the guard, then the index.
LEMMA LettersType ==
    ASSUME NEW c \in CNodeCap, NEW i \in Nat
    PROVE  /\ Letters(c, i) \in Seq(Nat) /\ Len(Letters(c, i)) = level_bits(c)
           /\ \A k \in 1 .. guard_bits(c) :
                 Letters(c, i)[k] = Bits(guard(c), guard_bits(c))[k]
           /\ \A k \in 1 .. radix_bits(c) :
                 Letters(c, i)[guard_bits(c) + k] = Bits(i, radix_bits(c))[k]
<1> DEFINE g == Bits(guard(c), guard_bits(c))
           h == Bits(i, radix_bits(c))
<1>1. /\ guard_bits(c) \in 0 .. CNODE_DEPTH /\ radix_bits(c) \in 0 .. CNODE_DEPTH
      /\ guard(c) \in Nat /\ level_bits(c) = guard_bits(c) + radix_bits(c)
  BY CapFacts, Zenon
<1>2. /\ g \in Seq(Nat) /\ Len(g) = guard_bits(c)
      /\ h \in Seq(Nat) /\ Len(h) = radix_bits(c)
  BY <1>1, BitsType, Zenon
<1>3. Letters(c, i) = g \o h
  BY Zenon DEF Letters
<1> HIDE DEF g, h
<1>4. /\ g \o h \in Seq(Nat) /\ Len(g \o h) = Len(g) + Len(h)
      /\ \A k \in 1 .. Len(g) : (g \o h)[k] = g[k]
      /\ \A k \in 1 .. Len(h) : (g \o h)[Len(g) + k] = h[k]
  BY <1>2, Concat, Zenon
<1> QED
  BY <1>1, <1>2, <1>3, <1>4, Zenon DEF g, h

\* After its first n - m bits the address x of n bits has the first h letters of u.
HasLetters(x, n, m, u, h) == \A k \in 1 .. h : Bits(x, n)[n - m + k] = u[k]

\* The next bits of an address are the letters of a slot iff the guard and the
\* index are cut out of it.
LEMMA LettersFit ==
    ASSUME NEW x \in Nat, NEW n \in 0 .. CNODE_DEPTH, NEW m \in 0 .. n,
           NEW d \in CNodeCap, level_bits(d) <= m,
           guard(d) < 2 ^ guard_bits(d), NEW i \in 0 .. 2 ^ radix_bits(d) - 1
    PROVE  HasLetters(x, n, m, Letters(d, i), level_bits(d))
              <=> guard(d) = GuardOf(x, m, d) /\ i = IndexOf(x, m, d)
<1> DEFINE g == guard_bits(d)
           r == radix_bits(d)
           a == Bits(x, n)
           u == Letters(d, i)
           A == HasField(x, n, m, g, guard(d))
           B == HasField(x, n, m - g, r, i)
<1>1. /\ g \in 0 .. CNODE_DEPTH /\ r \in 0 .. CNODE_DEPTH /\ guard(d) \in Nat
      /\ level_bits(d) = g + r
  BY CapFacts
<1>2. i \in Nat
  OBVIOUS
<1>3. /\ \A k \in 1 .. g : u[k] = Bits(guard(d), g)[k]
      /\ \A k \in 1 .. r : u[g + k] = Bits(i, r)[k]
  BY <1>2, LettersType, Zenon
<1>4. 2 ^ g \in Nat
  BY <1>1, PowerAssumption
<1>5. guard(d) \in 0 .. 2 ^ g - 1
  BY <1>1, <1>4
<1>6. g \in 0 .. m /\ m - g \in 0 .. n /\ r \in 0 .. m - g
  BY <1>1
<1>7. A <=> guard(d) = FieldOf(x, m, g)
  BY <1>5, <1>6, FieldInside, SMT
<1>8. B <=> i = FieldOf(x, m - g, r)
  BY <1>6, FieldInside, SMT
<1>9. /\ A <=> \A k \in 1 .. g : a[n - m + k] = Bits(guard(d), g)[k]
      /\ B <=> \A k \in 1 .. r : a[n - (m - g) + k] = Bits(i, r)[k]
  BY Zenon DEF HasField
<1>10. (\A k \in 1 .. level_bits(d) : a[n - m + k] = u[k]) <=> A /\ B
  <2> HIDE DEF a, u, g, r, A, B
  <2>1. ASSUME \A k \in 1 .. level_bits(d) : a[n - m + k] = u[k] PROVE A /\ B
    <3>1. \A k \in 1 .. g : k \in 1 .. level_bits(d)
      BY <1>1
    <3>2. A
      BY <1>3, <1>9, <2>1, <3>1, Zenon
    <3>3. \A k \in 1 .. r : g + k \in 1 .. level_bits(d) /\ n - m + (g + k) = n - (m - g) + k
      BY <1>1
    <3>4. B
      BY <1>3, <1>9, <2>1, <3>3
    <3> QED
      BY <3>2, <3>4
  <2>2. ASSUME A, B, NEW k \in 1 .. level_bits(d) PROVE a[n - m + k] = u[k]
    <3>1. CASE k <= g
      <4>1. k \in 1 .. g
        BY <1>1, <3>1
      <4> QED
        BY <1>3, <1>9, <2>2, <4>1, Zenon
    <3>2. CASE ~ (k <= g)
      <4> DEFINE j == k - g
      <4>1. j \in 1 .. r /\ g + j = k /\ n - (m - g) + j = n - m + k
        BY <1>1, <3>2
      <4> HIDE DEF j
      <4>2. a[n - (m - g) + j] = Bits(i, r)[j] /\ u[g + j] = Bits(i, r)[j]
        BY <1>3, <1>9, <2>2, <4>1, Zenon
      <4> QED
        BY <4>1, <4>2, Zenon
    <3> QED
      BY <3>1, <3>2
  <2> QED
    BY <2>1, <2>2, Zenon
<1> QED
  BY <1>7, <1>8, <1>10, Zenon DEF GuardOf, IndexOf, HasLetters

\* Prefixes, letter by letter.
LEMMA PrefixMeans ==
    ASSUME NEW u \in Seq(Nat), NEW v \in Seq(Nat)
    PROVE  Begins(u, v) <=> /\ Len(u) <= Len(v)
                            /\ \A k \in 1 .. Len(u) : u[k] = v[k]
<1>1. Len(u) \in Nat /\ Len(v) \in Nat
  OBVIOUS
<1>2. CASE Len(u) <= Len(v)
  <2>1. u = [k \in 1 .. Len(u) |-> u[k]]
    OBVIOUS
  <2>2. SubSeq(v, 1, Len(u)) = [k \in 1 .. Len(u) |-> v[k]]
    BY <1>1, <1>2
  <2>3. SubSeq(v, 1, Len(u)) = u
           <=> \A k \in 1 .. Len(u) : u[k] = v[k]
    BY <2>1, <2>2, Zenon
  <2> QED
    BY <1>2, <2>3, Zenon DEF Begins
<1>3. CASE ~ (Len(u) <= Len(v))
  BY <1>3, Zenon DEF Begins
<1> QED
  BY <1>2, <1>3, Zenon

(***************************************************************************)
(* Paths.                                                                  *)
(***************************************************************************)
\* What a slot holds where every CNode resolves bits, and a space whose slots
\* all hold that.
SlotCap == {c \in CNodeCap : level_bits(c) # 0} \cup {Other}
IsSpace(s) == \A n \in CNode : \A i \in 0 .. size(n) - 1 : s[n][i] \in SlotCap

\* A CNode in a slot resolves bits.
LEMMA SlotKinds ==
    ASSUME NEW c \in SlotCap, IsCNode(c)
    PROVE  c \in CNodeCap /\ level_bits(c) # 0
  BY RootAssumption, Zenon DEF SlotCap, IsCNode

\* The capability below one is a capability.
LEMMA BelowType ==
    ASSUME NEW s, IsSpace(s), NEW c \in SlotCap, NEW i \in Nat
    PROVE  Below(s, c, i) \in SlotCap
<1>1. CASE IsCNode(c) /\ i < size(c.node)
  <2>1. c.node \in CNode
    BY <1>1, Zenon DEF IsCNode, CNodeCap
  <2>2. size(c.node) \in Nat
    BY <2>1, CNodeAssumption, PowerAssumption, Zenon DEF size
  <2>3. i \in 0 .. size(c.node) - 1
    BY <1>1, <2>2
  <2> QED
    BY <1>1, <2>1, <2>3, Zenon DEF IsSpace, Below
<1>2. CASE ~ (IsCNode(c) /\ i < size(c.node))
  BY <1>2, Zenon DEF Below, SlotCap
<1> QED
  BY <1>1, <1>2, Zenon

\* f goes down the path p of length n from c.
Follows(f, s, c, p, n) ==
    /\ f \in [1 .. n + 1 -> SlotCap] /\ f[1] = c
    /\ \A k \in 1 .. n : f[k + 1] = Below(s, f[k], p[k])

\* The recursion equation of CapsOn.
LEMMA CapsUnfold ==
    ASSUME NEW s, IsSpace(s), NEW c \in SlotCap, NEW n \in Nat, NEW p \in [1 .. n -> Nat]
    PROVE  Follows(CapsOn(s, c, p), s, c, p, n)
<1>1. Len(p) = n
  OBVIOUS
<1> DEFINE F == [x \in (1 .. n) \X SlotCap |-> Below(s, x[2], p[x[1]])]
<1>2. IsStep(F, n, SlotCap)
  BY BelowType, Zenon DEF IsStep
<1>3. PICK f : Iterates(f, F, n, SlotCap, c)
  <2> HIDE DEF F
  <2> QED
    BY <1>2, Iterate, Zenon
<1>4. \A k \in 1 .. n : f[k + 1] = Below(s, f[k], p[k])
  <2>1. \A k \in 1 .. n : \A d \in SlotCap : F[<<k, d>>] = Below(s, d, p[k])
    BY Zenon
  <2> HIDE DEF F
  <2> TAKE k \in 1 .. n
  <2>2. f[k] \in SlotCap
    BY <1>3 DEF Iterates
  <2> QED
    BY <1>3, <2>1, <2>2, Zenon DEF Iterates
<1> DEFINE at[k \in 1 .. n + 1] ==
               IF k = 1 THEN c ELSE Below(s, at[k - 1], p[k - 1])
<1>5. f = [k \in 1 .. n + 1 |-> IF k = 1 THEN c ELSE Below(s, f[k - 1], p[k - 1])]
  BY <1>3, <1>4 DEF Iterates
<1>6. at = [k \in 1 .. n + 1 |-> IF k = 1 THEN c ELSE Below(s, at[k - 1], p[k - 1])]
  BY <1>5, Zenon DEF at
<1>7. CapsOn(s, c, p) = at
  BY <1>1, Zenon DEF CapsOn
<1> HIDE DEF at
<1>8. at[1] = c /\ \A k \in 1 .. n : at[k + 1] = Below(s, at[k], p[k])
  BY <1>6
<1>9. 1 .. n + 1 \subseteq {k \in 1 .. n + 1 : at[k] \in SlotCap}
  <2> DEFINE S == {k \in 1 .. n + 1 : at[k] \in SlotCap}
  <2>1. 1 \in S
    BY <1>8
  <2>2. ASSUME NEW k \in 1 .. (n + 1) - 1, k \in S PROVE k + 1 \in S
    <3>1. k \in 1 .. n /\ at[k] \in SlotCap /\ p[k] \in Nat /\ k + 1 \in 1 .. n + 1
      BY <2>2
    <3>2. at[k + 1] \in SlotCap
      BY <1>8, <3>1, BelowType
    <3> QED
      BY <3>1, <3>2, Zenon
  <2> HIDE DEF S
  <2>3. 1 \in Nat /\ n + 1 \in Nat
    OBVIOUS
  <2>4. 1 .. n + 1 \subseteq S
    BY <2>1, <2>2, <2>3, Climb, Zenon
  <2> QED
    BY <2>4, Zenon DEF S
<1>10. at \in [1 .. n + 1 -> SlotCap]
  BY <1>6, <1>9, Zenon
<1> QED
  BY <1>7, <1>8, <1>10, Zenon DEF Follows

\* The first m values are the same.
Agree(f, g, m) == \A k \in 1 .. m : f[k] = g[k]

\* Paths that begin alike go through the same capabilities at the beginning.
LEMMA CapsAgree ==
    ASSUME NEW s, IsSpace(s), NEW c \in SlotCap,
           NEW n \in Nat, NEW p \in [1 .. n -> Nat],
           NEW j \in Nat, NEW q \in [1 .. j -> Nat],
           NEW m \in 0 .. n, m <= j, Agree(p, q, m)
    PROVE  Agree(CapsOn(s, c, p), CapsOn(s, c, q), m + 1)
<1> DEFINE f == CapsOn(s, c, p)
           g == CapsOn(s, c, q)
           S == {k \in 1 .. m + 1 : f[k] = g[k]}
<1>0. Follows(f, s, c, p, n) /\ Follows(g, s, c, q, j)
  BY CapsUnfold, Zenon
<1> HIDE DEF f, g
<1>1. f[1] = c /\ \A k \in 1 .. n : f[k + 1] = Below(s, f[k], p[k])
  BY <1>0, Zenon DEF Follows
<1>2. g[1] = c /\ \A k \in 1 .. j : g[k + 1] = Below(s, g[k], q[k])
  BY <1>0, Zenon DEF Follows
<1>3. 1 \in S
  BY <1>1, <1>2
<1>4. ASSUME NEW k \in 1 .. (m + 1) - 1, k \in S PROVE k + 1 \in S
  <2>1. k \in 1 .. n /\ k \in 1 .. j /\ k \in 1 .. m /\ k + 1 \in 1 .. m + 1
    OBVIOUS
  <2>2. f[k] = g[k] /\ p[k] = q[k]
    BY <1>4, <2>1, Zenon DEF Agree
  <2>3. f[k + 1] = g[k + 1]
    BY <1>1, <1>2, <2>1, <2>2, Zenon
  <2> QED
    BY <2>1, <2>3, Zenon
<1>5. 1 \in Nat /\ m + 1 \in Nat
  OBVIOUS
<1>6. 1 .. m + 1 \subseteq S
  <2> HIDE DEF S
  <2>1. \A k \in 1 .. (m + 1) - 1 : k \in S => k + 1 \in S
    BY <1>4, Zenon
  <2>2. \A b \in Nat : (\A k \in 1 .. b - 1 : k \in S => k + 1 \in S) => 1 .. b \subseteq S
    BY <1>3, <1>5, Climb, Zenon
  <2> QED
    BY <1>5, <2>1, <2>2, Zenon
<1> QED
  BY <1>6, Zenon DEF f, g, Agree

\* The recursion equation of Join.
LEMMA JoinUnfold ==
    ASSUME NEW n \in Nat, NEW t \in [1 .. n + 1 -> Seq(Nat)]
    PROVE  \E f \in [1 .. n + 1 -> Seq(Nat)] :
              /\ f[1] = t[1] /\ \A k \in 1 .. n : f[k + 1] = f[k] \o t[k + 1]
              /\ Join(t) = f[n + 1]
<1>1. Len(t) = n + 1 /\ n + 1 # 0
  OBVIOUS
<1> DEFINE F == [x \in (1 .. n) \X Seq(Nat) |-> x[2] \o t[x[1] + 1]]
<1>2. IsStep(F, n, Seq(Nat))
  BY DEF IsStep
<1>3. PICK f : Iterates(f, F, n, Seq(Nat), t[1])
  <2> HIDE DEF F
  <2>1. t[1] \in Seq(Nat)
    OBVIOUS
  <2> QED
    BY <1>2, <2>1, Iterate, Zenon
<1>4. \A k \in 1 .. n : f[k + 1] = f[k] \o t[k + 1]
  <2>1. \A k \in 1 .. n : \A d \in Seq(Nat) : F[<<k, d>>] = d \o t[k + 1]
    BY Zenon
  <2> HIDE DEF F
  <2> TAKE k \in 1 .. n
  <2>2. f[k] \in Seq(Nat)
    BY <1>3 DEF Iterates
  <2> QED
    BY <1>3, <2>1, <2>2, Zenon DEF Iterates
<1> DEFINE upTo[k \in 1 .. n + 1] ==
               IF k = 1 THEN t[k] ELSE upTo[k - 1] \o t[k]
<1>5. f = [k \in 1 .. n + 1 |-> IF k = 1 THEN t[k] ELSE f[k - 1] \o t[k]]
  <2>1. ASSUME NEW k \in 1 .. n + 1
        PROVE  f[k] = IF k = 1 THEN t[k] ELSE f[k - 1] \o t[k]
    <3>1. CASE k = 1
      BY <1>3, <3>1, Zenon DEF Iterates
    <3>2. CASE k # 1
      <4>1. k - 1 \in 1 .. n /\ (k - 1) + 1 = k
        BY <3>2
      <4>2. f[(k - 1) + 1] = f[k - 1] \o t[(k - 1) + 1]
        BY <1>4, <4>1, Zenon
      <4> QED
        BY <3>2, <4>1, <4>2, Zenon
    <3> QED
      BY <3>1, <3>2, Zenon
  <2>2. f = [k \in 1 .. n + 1 |-> f[k]]
    BY <1>3, Zenon DEF Iterates
  <2> QED
    BY <2>1, <2>2, Zenon
<1>6. upTo = [k \in 1 .. n + 1 |->
                    IF k = 1 THEN t[k] ELSE upTo[k - 1] \o t[k]]
  BY <1>5, Zenon DEF upTo
<1>7. Join(t) = upTo[n + 1]
  BY <1>1, Zenon DEF Join
<1> HIDE DEF upTo
<1>8. ASSUME NEW k \in 1 .. n PROVE upTo[k + 1] = upTo[k] \o t[k + 1]
  <2>1. k + 1 \in 1 .. n + 1 /\ k + 1 # 1 /\ (k + 1) - 1 = k
    OBVIOUS
  <2> QED
    BY <1>6, <2>1, Zenon
<1>9. upTo[1] = t[1]
  BY <1>6
<1> DEFINE S == {k \in 1 .. n + 1 : upTo[k] \in Seq(Nat)}
<1>10. 1 \in S
  BY <1>9
<1>11. ASSUME NEW k \in 1 .. (n + 1) - 1, k \in S PROVE k + 1 \in S
  <2>1. k \in 1 .. n /\ k + 1 \in 1 .. n + 1
    OBVIOUS
  <2>2. upTo[k] \in Seq(Nat) /\ t[k + 1] \in Seq(Nat)
    BY <1>11, <2>1, Zenon
  <2>3. upTo[k + 1] = upTo[k] \o t[k + 1]
    BY <1>8, <2>1, Zenon
  <2>4. upTo[k] \o t[k + 1] \in Seq(Nat)
    BY <2>2
  <2> QED
    BY <2>1, <2>3, <2>4, Zenon
<1>12. 1 .. n + 1 \subseteq S
  <2> HIDE DEF S
  <2>1. 1 \in Nat /\ n + 1 \in Nat
    OBVIOUS
  <2> QED
    BY <1>10, <1>11, <2>1, Climb, Zenon
<1>13. upTo \in [1 .. n + 1 -> Seq(Nat)]
  BY <1>6, <1>12, Zenon
<1> QED
  BY <1>7, <1>8, <1>9, <1>13, Zenon

\* Joining one more sequence appends it.
LEMMA JoinAppend ==
    ASSUME NEW n \in Nat, NEW t \in [1 .. n + 1 -> Seq(Nat)],
           NEW u \in [1 .. n -> Seq(Nat)], \A k \in 1 .. n : t[k] = u[k]
    PROVE  Join(u) \in Seq(Nat) /\ Join(t) = Join(u) \o t[n + 1]
<1>1. PICK f \in [1 .. n + 1 -> Seq(Nat)] :
         /\ f[1] = t[1] /\ \A k \in 1 .. n : f[k + 1] = f[k] \o t[k + 1]
         /\ Join(t) = f[n + 1]
  BY JoinUnfold, Zenon
<1>2. CASE n = 0
  <2>1. u = << >> /\ Len(u) = 0
    BY <1>2
  <2>2. Join(u) = << >>
    BY <2>1, Zenon DEF Join
  <2>3. t[1] \in Seq(Nat) /\ n + 1 = 1
    BY <1>2
  <2>4. << >> \o t[1] = t[1]
    BY <2>3
  <2> QED
    BY <1>1, <2>2, <2>3, <2>4
<1>3. CASE n # 0
  <2> DEFINE m == n - 1
  <2>1. m \in Nat /\ m + 1 = n
    BY <1>3
  <2>2. PICK g \in [1 .. n -> Seq(Nat)] :
           /\ g[1] = u[1] /\ \A k \in 1 .. m : g[k + 1] = g[k] \o u[k + 1]
           /\ Join(u) = g[n]
    <3>1. u \in [1 .. m + 1 -> Seq(Nat)]
      BY <2>1, Zenon
    <3> HIDE DEF m
    <3>2. \E g \in [1 .. m + 1 -> Seq(Nat)] :
           /\ g[1] = u[1] /\ \A k \in 1 .. m : g[k + 1] = g[k] \o u[k + 1]
           /\ Join(u) = g[m + 1]
      BY <2>1, <3>1, JoinUnfold, Zenon
    <3> QED
      BY <2>1, <3>2, Zenon
  <2> DEFINE S == {k \in 1 .. n : f[k] = g[k]}
  <2>3. 1 \in S
    BY <1>1, <1>3, <2>2
  <2>4. ASSUME NEW k \in 1 .. n - 1, k \in S PROVE k + 1 \in S
    <3>1. k \in 1 .. n /\ k \in 1 .. m /\ k + 1 \in 1 .. n
      BY <2>1
    <3>2. f[k] = g[k] /\ t[k + 1] = u[k + 1]
      BY <2>4, <3>1, Zenon
    <3>3. f[k + 1] = f[k] \o t[k + 1] /\ g[k + 1] = g[k] \o u[k + 1]
      BY <1>1, <2>2, <3>1, Zenon
    <3> QED
      BY <3>1, <3>2, <3>3, Zenon
  <2>5. 1 .. n \subseteq S
    <3> HIDE DEF S
    <3>1. \A k \in 1 .. n - 1 : k \in S => k + 1 \in S
      BY <2>4, Zenon
    <3>2. 1 \in Nat
      BY Zenon
    <3> QED
      BY <2>3, <3>1, <3>2, Climb, Zenon
  <2>6. n \in 1 .. n
    BY <1>3
  <2>7. f[n] = g[n] /\ g[n] \in Seq(Nat)
    BY <2>2, <2>5, <2>6, Zenon
  <2> QED
    BY <1>1, <2>2, <2>6, <2>7, Zenon
<1> QED
  BY <1>2, <1>3, Zenon

\* The beginning of a path is a path.
LEMMA PathPrefix ==
    ASSUME NEW s, IsSpace(s), NEW c \in SlotCap,
           NEW n \in Nat, NEW p \in [1 .. n -> Nat], IsPath(s, c, p),
           NEW m \in 0 .. n, NEW q \in [1 .. m -> Nat], \A k \in 1 .. m : p[k] = q[k]
    PROVE  IsPath(s, c, q)
<1>1. Len(p) = n /\ Len(q) = m
  OBVIOUS
<1>2. \A k \in 1 .. m + 1 : CapsOn(s, c, p)[k] = CapsOn(s, c, q)[k]
  <2>1. m \in Nat /\ m <= m
    OBVIOUS
  <2>2. Agree(p, q, m)
    BY Zenon DEF Agree
  <2>3. Agree(CapsOn(s, c, p), CapsOn(s, c, q), m + 1)
    BY <2>1, <2>2, CapsAgree, Zenon
  <2> QED
    BY <2>3, Zenon DEF Agree
<1>3. \A k \in 1 .. m : k \in 1 .. n /\ k \in 1 .. m + 1
  OBVIOUS
<1> QED
  BY <1>1, <1>2, <1>3, Zenon DEF IsPath

\* The capabilities and the slots on a path.
LEMMA PathCaps ==
    ASSUME NEW s, IsSpace(s), NEW c \in SlotCap,
           NEW n \in Nat, NEW p \in [1 .. n -> Nat], IsPath(s, c, p)
    PROVE  \A k \in 1 .. n : /\ CapsOn(s, c, p)[k] \in CNodeCap
                            /\ level_bits(CapsOn(s, c, p)[k]) # 0
                            /\ Letters(CapsOn(s, c, p)[k], p[k]) \in Seq(Nat)
<1>1. Len(p) = n
  OBVIOUS
<1>2. \A k \in 1 .. n : CapsOn(s, c, p)[k] \in CNodeCap
  BY <1>1, Zenon DEF IsPath, IsCNode
<1>3. \A k \in 1 .. n : p[k] \in Nat
  BY Zenon
<1>4. ASSUME NEW k \in 1 .. n PROVE CapsOn(s, c, p)[k] \in SlotCap
  <2>1. Follows(CapsOn(s, c, p), s, c, p, n)
    BY CapsUnfold, Zenon
  <2>2. CapsOn(s, c, p) \in [1 .. n + 1 -> SlotCap] /\ k \in 1 .. n + 1
    BY <2>1 DEF Follows
  <2> QED
    BY <2>2, Zenon
<1>5. \A k \in 1 .. n : level_bits(CapsOn(s, c, p)[k]) # 0
  BY <1>2, <1>4, SlotKinds, Zenon DEF IsCNode
<1> QED
  BY <1>2, <1>3, <1>5, LettersType, Zenon

\* The last slot of a path adds its letters to what the path spells.
LEMMA SpellAppend ==
    ASSUME NEW s, IsSpace(s), NEW c \in SlotCap,
           NEW n \in Nat, NEW p \in [1 .. n + 1 -> Nat], IsPath(s, c, p),
           NEW q \in [1 .. n -> Nat], \A k \in 1 .. n : p[k] = q[k]
    PROVE  /\ IsPath(s, c, q)
           /\ Spelling(s, c, q) \in Seq(Nat)
           /\ Spelling(s, c, p) = Spelling(s, c, q)
                                    \o Letters(CapsOn(s, c, p)[n + 1], p[n + 1])
<1> DEFINE t == [k \in 1 .. n + 1 |-> Letters(CapsOn(s, c, p)[k], p[k])]
           u == [k \in 1 .. n |-> Letters(CapsOn(s, c, q)[k], q[k])]
<1>1. Len(p) = n + 1 /\ Len(q) = n /\ n + 1 \in Nat /\ n \in 0 .. n + 1
  OBVIOUS
<1>2. IsPath(s, c, q)
  BY <1>1, PathPrefix, Zenon
<1>3. \A k \in 1 .. n + 1 : CapsOn(s, c, p)[k] = CapsOn(s, c, q)[k]
  <2>1. n <= n
    OBVIOUS
  <2>2. Agree(p, q, n)
    BY Zenon DEF Agree
  <2>3. Agree(CapsOn(s, c, p), CapsOn(s, c, q), n + 1)
    BY <1>1, <2>1, <2>2, CapsAgree, Zenon
  <2> QED
    BY <2>3, Zenon DEF Agree
<1>4. \A k \in 1 .. n + 1 : Letters(CapsOn(s, c, p)[k], p[k]) \in Seq(Nat)
  BY <1>1, PathCaps, Zenon
<1>5. \A k \in 1 .. n : Letters(CapsOn(s, c, q)[k], q[k]) \in Seq(Nat)
  BY <1>2, PathCaps, Zenon
<1>6. t \in [1 .. n + 1 -> Seq(Nat)] /\ u \in [1 .. n -> Seq(Nat)]
  BY <1>4, <1>5, Zenon
<1>7. ASSUME NEW k \in 1 .. n PROVE t[k] = u[k]
  <2>1. k \in 1 .. n + 1
    OBVIOUS
  <2>2. CapsOn(s, c, p)[k] = CapsOn(s, c, q)[k] /\ p[k] = q[k]
    BY <1>3, <2>1, Zenon
  <2> QED
    BY <2>1, <2>2, Zenon
<1>8. n + 1 \in 1 .. n + 1
  OBVIOUS
<1>9. t[n + 1] = Letters(CapsOn(s, c, p)[n + 1], p[n + 1])
  BY <1>8, Zenon
<1>10. Spelling(s, c, p) = Join(t) /\ Spelling(s, c, q) = Join(u)
  BY <1>1, Zenon DEF Spelling
<1> HIDE DEF t, u
<1>11. Join(u) \in Seq(Nat) /\ Join(t) = Join(u) \o t[n + 1]
  BY <1>6, <1>7, JoinAppend, Zenon
<1> QED
  BY <1>2, <1>9, <1>10, <1>11, Zenon

\* What a path spells is a sequence of bits, as long as the path at least.
LEMMA SpellType ==
    ASSUME NEW s, IsSpace(s), NEW c \in SlotCap,
           NEW n \in Nat, NEW p \in [1 .. n -> Nat], IsPath(s, c, p)
    PROVE  Spelling(s, c, p) \in Seq(Nat)
<1>1. CASE n = 0
  <2>1. Len(p) = 0 /\ 1 .. 0 = {}
    BY <1>1
  <2>2. [k \in 1 .. 0 |-> Letters(CapsOn(s, c, p)[k], p[k])] = << >>
    BY <2>1
  <2>3. Spelling(s, c, p) = Join(<< >>)
    BY <2>1, <2>2, Zenon DEF Spelling
  <2> QED
    BY <2>3 DEF Join
<1>2. CASE n # 0
  <2> DEFINE m == n - 1
             q == [k \in 1 .. m |-> p[k]]
  <2>1. m \in Nat /\ m + 1 = n
    BY <1>2
  <2>2. q \in [1 .. m -> Nat] /\ \A k \in 1 .. m : p[k] = q[k]
    BY <2>1
  <2> HIDE DEF m, q
  <2>3. p \in [1 .. m + 1 -> Nat]
    BY <2>1, Zenon
  <2>4. /\ Spelling(s, c, q) \in Seq(Nat)
        /\ Spelling(s, c, p) = Spelling(s, c, q)
                                 \o Letters(CapsOn(s, c, p)[m + 1], p[m + 1])
    BY <2>1, <2>2, <2>3, SpellAppend, Zenon
  <2>5. Letters(CapsOn(s, c, p)[m + 1], p[m + 1]) \in Seq(Nat)
    <3>1. m + 1 \in 1 .. n
      BY <2>1
    <3> QED
      BY <3>1, PathCaps, Zenon
  <2> QED
    BY <2>4, <2>5
<1> QED
  BY <1>1, <1>2, Zenon

\* z starts with v, and has e more letters at least.
Continues(v, z, e) == /\ Len(v) + e <= Len(z)
                      /\ \A k \in 1 .. Len(v) : z[k] = v[k]

\* Whatever begins a path spells the beginning of what the path spells, and
\* every slot after it adds a bit at least.
LEMMA SpellPrefix ==
    ASSUME NEW s, IsSpace(s), NEW c \in SlotCap,
           NEW n \in Nat, NEW p \in [1 .. n -> Nat], IsPath(s, c, p),
           NEW m \in 0 .. n, NEW q \in [1 .. m -> Nat], \A k \in 1 .. m : p[k] = q[k]
    PROVE  Continues(Spelling(s, c, q), Spelling(s, c, p), n - m)
<1> DEFINE T(j) == [k \in 1 .. j |-> p[k]]
           w == Spelling(s, c, q)
           G(j) == /\ Len(w) + (j - m) <= Len(Spelling(s, c, T(j)))
                   /\ \A k \in 1 .. Len(w) : Spelling(s, c, T(j))[k] = w[k]
           S == {j \in m .. n : G(j)}
<1>1. \A j \in m .. n : T(j) \in [1 .. j -> Nat] /\ \A k \in 1 .. j : p[k] = T(j)[k]
  OBVIOUS
<1>2. T(m) = q /\ T(n) = p
  BY Zenon
<1>3. \A j \in m .. n : j \in 0 .. n /\ j \in Nat
  OBVIOUS
<1> HIDE DEF T
<1>4. \A j \in m .. n : IsPath(s, c, T(j))
  BY <1>1, <1>3, PathPrefix, Zenon
<1>5. \A j \in m .. n : Spelling(s, c, T(j)) \in Seq(Nat)
  BY <1>1, <1>3, <1>4, SpellType, Zenon
<1>6. m \in m .. n /\ n \in m .. n
  OBVIOUS
<1>7. w \in Seq(Nat)
  BY <1>2, <1>5, <1>6, Zenon
<1> HIDE DEF w
<1>8. m \in S
  <2>1. Spelling(s, c, T(m)) = w
    BY <1>2, Zenon DEF w
  <2>2. Len(w) + (m - m) <= Len(w)
    BY <1>7
  <2>3. G(m)
    BY <2>1, <2>2, Zenon
  <2> QED
    BY <1>6, <2>3, Zenon
<1>9. ASSUME NEW j \in m .. n - 1, j \in S PROVE j + 1 \in S
  <2>1. j \in m .. n /\ j + 1 \in m .. n /\ j \in Nat
    OBVIOUS
  <2>2. T(j + 1) \in [1 .. j + 1 -> Nat] /\ T(j) \in [1 .. j -> Nat]
    BY <1>1, <2>1, Zenon
  <2>3. \A k \in 1 .. j : T(j + 1)[k] = T(j)[k]
    <3>1. \A k \in 1 .. j : k \in 1 .. j + 1
      OBVIOUS
    <3> QED
      BY <1>1, <2>1, <3>1, Zenon
  <2>4. IsPath(s, c, T(j + 1))
    BY <1>4, <2>1, Zenon
  <2> DEFINE x == Spelling(s, c, T(j))
             d == CapsOn(s, c, T(j + 1))[j + 1]
             y == Letters(d, T(j + 1)[j + 1])
  <2>5. x \in Seq(Nat) /\ Spelling(s, c, T(j + 1)) = x \o y
    BY <2>1, <2>2, <2>3, <2>4, SpellAppend, Zenon
  <2>6. y \in Seq(Nat) /\ Len(y) # 0
    <3>1. j + 1 \in 1 .. j + 1 /\ j + 1 \in Nat
      BY <2>1
    <3>2. d \in CNodeCap /\ level_bits(d) # 0
      BY <2>2, <2>4, <3>1, PathCaps, Zenon
    <3>3. T(j + 1)[j + 1] \in Nat
      BY <2>2, <3>1, Zenon
    <3> HIDE DEF d
    <3>4. y \in Seq(Nat) /\ Len(y) = level_bits(d)
      BY <3>2, <3>3, LettersType, Zenon
    <3> QED
      BY <3>2, <3>4, Zenon
  <2>7. G(j)
    BY <2>1, <1>9, Zenon
  <2>8. Len(w) + (j - m) <= Len(x) /\ \A k \in 1 .. Len(w) : x[k] = w[k]
    BY <2>7, Zenon
  <2> HIDE DEF x, y
  <2>9. Len(x \o y) = Len(x) + Len(y) /\ \A k \in 1 .. Len(x) : (x \o y)[k] = x[k]
    BY <2>5, <2>6, Concat, Zenon
  <2>10. /\ Len(w) \in Nat /\ Len(x) \in Nat /\ Len(y) \in Nat
    BY <1>7, <2>5, <2>6
  <2>11. Len(w) + ((j + 1) - m) <= Len(x \o y)
    BY <2>1, <2>6, <2>8, <2>9, <2>10
  <2>12. \A k \in 1 .. Len(w) : k \in 1 .. Len(x)
    BY <2>1, <2>8, <2>10
  <2>13. \A k \in 1 .. Len(w) : (x \o y)[k] = w[k]
    BY <2>8, <2>9, <2>12, Zenon
  <2>14. G(j + 1)
    BY <2>5, <2>11, <2>13, Zenon
  <2> QED
    BY <2>1, <2>14, Zenon
<1>10. m .. n \subseteq S
  <2> HIDE DEF S
  <2>1. m \in Nat
    OBVIOUS
  <2>2. \A j \in m .. n - 1 : j \in S => j + 1 \in S
    BY <1>9, Zenon
  <2> QED
    BY <1>8, <2>1, <2>2, Climb, Zenon
<1>11. G(n)
  BY <1>6, <1>10, Zenon
<1> QED
  BY <1>2, <1>11, Zenon DEF w, Continues

(***************************************************************************)
(* One level of the lookup.                                                *)
(***************************************************************************)
\* Path p of length k starts the address x of n bits, leaves m of them, and
\* comes to the capability d.
Reached(s, c, x, n, d, m, k, p) ==
    /\ p \in [1 .. k -> Nat] /\ IsPath(s, c, p)
    /\ Len(Spelling(s, c, p)) = n - m
    /\ \A j \in 1 .. n - m : Spelling(s, c, p)[j] = Bits(x, n)[j]
    /\ CapsOn(s, c, p)[k + 1] = d

\* Path q of length l is a path that starts the address x of n bits.
Starts(s, c, x, n, q, l) ==
    /\ l \in Nat /\ q \in [1 .. l -> Nat] /\ IsPath(s, c, q)
    /\ Begins(Spelling(s, c, q), Bits(x, n))

\* After its first k slots path q takes the slot that the code computes, in a CNode
\* whose guard the address has.
GoesOn(x, m, d, k, q) == Matches(x, m, d) /\ q[k + 1] = IndexOf(x, m, d)

\* A longer path that starts the address goes on with the slot that the code
\* computes, in a CNode whose guard the address has.
LEMMA NextSlot ==
    ASSUME NEW s, IsSpace(s), NEW c \in SlotCap, NEW x \in Nat, NEW n \in 1 .. CNODE_DEPTH,
           NEW m \in 1 .. n, NEW d \in CNodeCap, NEW k \in Nat, NEW p,
           Reached(s, c, x, n, d, m, k, p),
           NEW l, NEW q, Starts(s, c, x, n, q, l), l > k, Agree(q, p, k)
    PROVE  GoesOn(x, m, d, k, q)
<1> DEFINE t == [j \in 1 .. k + 1 |-> q[j]]
           w == Spelling(s, c, p)
           v == Spelling(s, c, t)
           z == Spelling(s, c, q)
           i == q[k + 1]
           u == Letters(d, i)
           a == Bits(x, n)
<1>1. /\ p \in [1 .. k -> Nat] /\ IsPath(s, c, p) /\ Len(w) = n - m
      /\ CapsOn(s, c, p)[k + 1] = d
  BY Zenon DEF Reached
<1>2. l \in Nat /\ q \in [1 .. l -> Nat] /\ IsPath(s, c, q) /\ Begins(z, a)
  BY Zenon DEF Starts
<1>3. k + 1 \in 0 .. l /\ k + 1 \in 1 .. l /\ k + 1 \in Nat /\ k <= k /\ k \in 0 .. k + 1
  BY <1>2
<1>4. t \in [1 .. k + 1 -> Nat] /\ \A j \in 1 .. k + 1 : q[j] = t[j]
  BY <1>2
<1>5. t[k + 1] = i /\ i \in Nat
  BY <1>2, <1>3
<1>6. \A j \in 1 .. k : t[j] = p[j]
  BY <1>3 DEF Agree
<1> HIDE DEF t
<1>7. IsPath(s, c, t)
  BY <1>2, <1>3, <1>4, PathPrefix, Zenon
<1>8. Len(t) = k + 1 /\ k + 1 \in 1 .. k + 1
  BY <1>3, <1>4
<1>9. CapsOn(s, c, t)[k + 1] = d
  <2>1. Agree(t, p, k)
    BY <1>6, Zenon DEF Agree
  <2>2. Agree(CapsOn(s, c, t), CapsOn(s, c, p), k + 1)
    BY <1>1, <1>3, <1>4, <2>1, CapsAgree, Zenon
  <2> QED
    BY <1>1, <1>8, <2>2, Zenon DEF Agree
<1>10. i < size(d.node) /\ guard(d) < 2 ^ guard_bits(d)
  BY <1>5, <1>7, <1>8, <1>9, Zenon DEF IsPath
<1>11. w \in Seq(Nat) /\ v = w \o u
  <2>1. /\ w \in Seq(Nat)
        /\ v = w \o Letters(CapsOn(s, c, t)[k + 1], t[k + 1])
    BY <1>1, <1>4, <1>6, <1>7, SpellAppend, Zenon
  <2> QED
    BY <1>5, <1>9, <2>1, Zenon
<1>12. u \in Seq(Nat) /\ Len(u) = level_bits(d)
  BY <1>5, LettersType, Zenon
<1>13. z \in Seq(Nat)
  BY <1>2, SpellType, Zenon
<1>14. a \in Seq(Nat) /\ Len(a) = n
  <2>1. n \in 0 .. CNODE_DEPTH
    OBVIOUS
  <2> QED
    BY <2>1, BitsType, Zenon
<1>15. /\ Len(v) + (l - (k + 1)) <= Len(z)
       /\ \A j \in 1 .. Len(v) : z[j] = v[j]
  <2>1. Continues(v, z, l - (k + 1))
    BY <1>2, <1>3, <1>4, SpellPrefix, Zenon
  <2> QED
    BY <2>1, Zenon DEF Continues
<1>16. Len(z) <= Len(a) /\ \A j \in 1 .. Len(z) : z[j] = a[j]
  BY <1>2, <1>13, <1>14, PrefixMeans, Zenon
<1> HIDE DEF w, v, z, i, u, a
<1>17. /\ Len(v) = Len(w) + Len(u) /\ v \in Seq(Nat)
       /\ \A j \in 1 .. Len(u) : v[Len(w) + j] = u[j]
  BY <1>11, <1>12, Concat, Zenon
<1>18. Len(v) \in Nat /\ Len(z) \in Nat /\ Len(u) \in Nat /\ Len(w) \in Nat
  BY <1>11, <1>12, <1>13, <1>17
<1>19. Len(v) <= Len(z) /\ Len(u) <= m
  <2>1. l - (k + 1) \in Nat
    BY <1>2, <1>3
  <2>2. /\ Len(v) + (l - (k + 1)) <= Len(z) /\ Len(z) <= n
        /\ Len(v) = Len(w) + Len(u) /\ Len(w) = n - m
    BY <1>1, <1>14, <1>15, <1>16, <1>17, Zenon
  <2> QED
    BY <1>18, <2>1, <2>2
<1>20. ASSUME NEW j \in 1 .. level_bits(d) PROVE a[n - m + j] = u[j]
  <2>1. j \in 1 .. Len(u) /\ Len(w) + j = n - m + j
    BY <1>1, <1>12
  <2>2. Len(w) + j \in 1 .. Len(v) /\ Len(w) + j \in 1 .. Len(z)
    <3>1. Len(v) = Len(w) + Len(u)
      BY <1>17, Zenon
    <3> QED
      BY <1>18, <1>19, <2>1, <3>1
  <2> QED
    BY <1>15, <1>16, <1>17, <2>1, <2>2, Zenon
<1>21. i \in 0 .. 2 ^ radix_bits(d) - 1
  <2>1. size(d.node) = 2 ^ radix_bits(d) /\ size(d.node) \in Nat
    BY CapFacts
  <2> QED
    BY <1>5, <1>10, <2>1
<1>22. n \in 0 .. CNODE_DEPTH /\ m \in 0 .. n /\ level_bits(d) <= m
  BY <1>12, <1>19
<1>23. guard(d) = GuardOf(x, m, d) /\ i = IndexOf(x, m, d)
  <2>1. HasLetters(x, n, m, Letters(d, i), level_bits(d))
    BY <1>20, Zenon DEF HasLetters, a, u
  <2> QED
    BY <1>10, <1>21, <1>22, <2>1, LettersFit, SMT
<1> QED
  BY <1>22, <1>23, Zenon DEF GoesOn, Matches, i

\* p, then slot i.
Extend(p, k, i) == [j \in 1 .. k + 1 |-> IF j = k + 1 THEN i ELSE p[j]]

\* Slot i is in the CNode d and takes the path p on.
LongerPath(s, c, x, n, d, m, k, p, i) ==
    /\ Reached(s, c, x, n, s[d.node][i], m - level_bits(d), k + 1, Extend(p, k, i))
    /\ i \in 0 .. size(d.node) - 1 /\ CapsOn(s, c, Extend(p, k, i))[k + 1] = d

\* Where the guard matches, the slot that the code computes is in the CNode and
\* takes the path on.
LEMMA NextPath ==
    ASSUME NEW s, IsSpace(s), NEW c \in SlotCap, NEW x \in Nat, NEW n \in 1 .. CNODE_DEPTH,
           NEW m \in 1 .. n, NEW d \in CNodeCap, NEW k \in Nat, NEW p,
           Reached(s, c, x, n, d, m, k, p), Matches(x, m, d)
    PROVE  LongerPath(s, c, x, n, d, m, k, p, IndexOf(x, m, d))
<1> DEFINE i == IndexOf(x, m, d)
           q == Extend(p, k, i)
           w == Spelling(s, c, p)
           v == Spelling(s, c, q)
           u == Letters(d, i)
           a == Bits(x, n)
<1>1. /\ p \in [1 .. k -> Nat] /\ IsPath(s, c, p) /\ Len(w) = n - m
      /\ CapsOn(s, c, p)[k + 1] = d /\ \A j \in 1 .. n - m : w[j] = a[j]
  BY Zenon DEF Reached
<1>2. /\ guard_bits(d) \in 0 .. CNODE_DEPTH /\ radix_bits(d) \in 0 .. CNODE_DEPTH
      /\ guard(d) \in Nat /\ level_bits(d) = guard_bits(d) + radix_bits(d)
      /\ size(d.node) = 2 ^ radix_bits(d) /\ size(d.node) \in Nat /\ d.node \in CNode
  BY CapFacts, Zenon
<1>3. /\ level_bits(d) <= m /\ guard(d) = GuardOf(x, m, d)
  BY Zenon DEF Matches
<1>4. /\ m \in 0 .. CNODE_DEPTH /\ guard_bits(d) \in 0 .. m
      /\ m - guard_bits(d) \in 0 .. CNODE_DEPTH
      /\ radix_bits(d) \in 0 .. m - guard_bits(d)
  <2>1. /\ guard_bits(d) \in Nat /\ radix_bits(d) \in Nat
        /\ guard_bits(d) + radix_bits(d) <= m
    BY <1>2, <1>3
  <2> QED
    BY <2>1, CNodeAssumption
<1>5. i \in 0 .. 2 ^ radix_bits(d) - 1
  BY <1>4, FieldType DEF IndexOf
<1>6. guard(d) \in 0 .. 2 ^ guard_bits(d) - 1
  BY <1>3, <1>4, FieldType DEF GuardOf
<1>7. guard(d) < 2 ^ guard_bits(d)
  <2>1. 2 ^ guard_bits(d) \in Nat
    BY <1>2, PowerAssumption
  <2> QED
    BY <1>6, <2>1
<1>8. i \in 0 .. size(d.node) - 1 /\ i \in Nat /\ i < size(d.node)
  BY <1>2, <1>5
<1>9. /\ q \in [1 .. k + 1 -> Nat] /\ q[k + 1] = i /\ \A j \in 1 .. k : q[j] = p[j]
      /\ Len(q) = k + 1 /\ Len(p) = k
  <2> HIDE DEF i
  <2> QED
    BY <1>1, <1>8 DEF Extend
<1> HIDE DEF i, q
<1>10. k + 1 \in Nat /\ k \in 0 .. k + 1 /\ k <= k /\ k + 1 \in 1 .. k + 1
  OBVIOUS
<1>11. Agree(CapsOn(s, c, q), CapsOn(s, c, p), k + 1)
  <2>1. Agree(q, p, k)
    BY <1>9, Zenon DEF Agree
  <2> QED
    BY <1>1, <1>9, <1>10, <2>1, CapsAgree, Zenon
<1>12. CapsOn(s, c, q)[k + 1] = d
  BY <1>1, <1>10, <1>11, Zenon DEF Agree
<1>13. CapsOn(s, c, q)[(k + 1) + 1] = s[d.node][i]
  <2>1. Follows(CapsOn(s, c, q), s, c, q, k + 1)
    BY <1>9, <1>10, CapsUnfold, Zenon
  <2>2. CapsOn(s, c, q)[(k + 1) + 1] = Below(s, d, i)
    BY <1>9, <1>10, <1>12, <2>1, Zenon DEF Follows
  <2> QED
    BY <1>8, <2>2, Zenon DEF Below, IsCNode
<1>14. IsPath(s, c, q)
  <2> SUFFICES ASSUME NEW j \in 1 .. k + 1
               PROVE  LET e == CapsOn(s, c, q)[j]
                      IN  IsCNode(e) /\ q[j] < size(e.node) /\ guard(e) < 2 ^ guard_bits(e)
    BY <1>9, Zenon DEF IsPath
  <2>1. CASE j = k + 1
    BY <1>7, <1>8, <1>9, <1>12, <2>1, Zenon DEF IsCNode
  <2>2. CASE j # k + 1
    <3>1. j \in 1 .. k
      BY <2>2
    <3>2. CapsOn(s, c, q)[j] = CapsOn(s, c, p)[j] /\ q[j] = p[j]
      BY <1>9, <1>11, <3>1, Zenon DEF Agree
    <3> QED
      BY <1>1, <1>9, <3>1, <3>2, Zenon DEF IsPath
  <2> QED
    BY <2>1, <2>2
<1>15. w \in Seq(Nat) /\ v = w \o u
  <2>1. /\ w \in Seq(Nat)
        /\ v = w \o Letters(CapsOn(s, c, q)[k + 1], q[k + 1])
    <3>1. p \in [1 .. k -> Nat] /\ q \in [1 .. k + 1 -> Nat] /\ \A j \in 1 .. k : q[j] = p[j]
      BY <1>1, <1>9, Zenon
    <3> QED
      BY <3>1, <1>14, SpellAppend, Zenon
  <2> QED
    BY <1>9, <1>12, <2>1, Zenon
<1>16. u \in Seq(Nat) /\ Len(u) = level_bits(d)
  BY <1>8, LettersType, Zenon
<1>17. \A j \in 1 .. level_bits(d) : a[n - m + j] = u[j]
  <2>1. n \in 0 .. CNODE_DEPTH /\ m \in 0 .. n
    OBVIOUS
  <2>2. HasLetters(x, n, m, Letters(d, i), level_bits(d))
    <3>1. guard(d) = GuardOf(x, m, d) /\ i = IndexOf(x, m, d)
      BY <1>3, Zenon DEF i
    <3> QED
      BY <1>3, <1>5, <1>7, <2>1, <3>1, LettersFit, SMT
  <2> QED
    BY <2>2, Zenon DEF HasLetters
<1> HIDE DEF w, v, u, a
<1>18. /\ Len(v) = Len(w) + Len(u)
       /\ \A j \in 1 .. Len(w) : v[j] = w[j]
       /\ \A j \in 1 .. Len(u) : v[Len(w) + j] = u[j]
  BY <1>15, <1>16, Concat, Zenon
<1>19. Len(v) = n - (m - level_bits(d))
  <2>1. Len(v) = (n - m) + level_bits(d)
    BY <1>1, <1>16, <1>18, Zenon
  <2>2. m \in Int /\ n \in Int /\ level_bits(d) \in Int
    BY <1>2
  <2> QED
    BY <2>1, <2>2, SMT
<1>20. ASSUME NEW j \in 1 .. n - (m - level_bits(d)) PROVE v[j] = a[j]
  <2>1. CASE j <= n - m
    <3>1. j \in 1 .. n - m /\ j \in 1 .. Len(w)
      BY <1>1, <2>1
    <3> QED
      BY <1>1, <1>18, <3>1, Zenon
  <2>2. CASE ~ (j <= n - m)
    <3> DEFINE h == j - (n - m)
    <3>1. h \in 1 .. level_bits(d) /\ n - m + h = j
      BY <1>2, <2>2
    <3> HIDE DEF h
    <3>2. v[n - m + h] = u[h] /\ a[n - m + h] = u[h]
      BY <1>1, <1>16, <1>17, <1>18, <3>1, Zenon
    <3> QED
      BY <3>1, <3>2, Zenon
  <2> QED
    BY <2>1, <2>2
<1> QED
  <2>1. Reached(s, c, x, n, s[d.node][i], m - level_bits(d), k + 1, q)
    BY <1>9, <1>13, <1>14, <1>19, <1>20, Zenon DEF Reached, v, a
  <2> QED
    BY <1>8, <1>12, <2>1, Zenon DEF LongerPath, i, q

\* A path that stands for the address x of n bits.
Denotes(s, c, x, n, q, l) == /\ l \in Nat \ {0} /\ q \in [1 .. l -> Nat]
                             /\ Spells(s, c, q, Bits(x, n))

\* Every path that stands for the address goes on from p.
Only(s, c, x, n, k, p) == \A l, q : Denotes(s, c, x, n, q, l) => l > k /\ Agree(q, p, k)

\* A path that stands for an address starts it.
LEMMA DenotesStarts ==
    ASSUME NEW s, NEW c, NEW x, NEW n, NEW q, NEW l, Denotes(s, c, x, n, q, l)
    PROVE  Starts(s, c, x, n, q, l)
<1>1. l \in Nat
  BY Zenon DEF Denotes
<1> QED
  BY <1>1, Zenon DEF Denotes, Spells, Starts

\* The indices of a space are numbers.
LEMMA IndexType ==
    ASSUME NEW l, NEW q \in [1 .. l -> Indices]
    PROVE  q \in [1 .. l -> Nat]
<1>1. ASSUME NEW i \in Indices PROVE i \in Nat
  <2>1. PICK e \in CNode : i \in 0 .. size(e) - 1
    BY DEF Indices
  <2>2. size(e) \in Nat
    BY CNodeAssumption, PowerAssumption DEF size
  <2> QED
    BY <2>1, <2>2
<1> QED
  BY <1>1, Zenon

\* z is the slot at the end of a path that stands for the address.
EndsPath(s, c, x, n, z) ==
    \E l \in 1 .. n : \E q \in [1 .. l -> Indices] :
       /\ Denotes(s, c, x, n, q, l)
       /\ z = Found(CapsOn(s, c, q)[l].node, q[l], n - Len(Spelling(s, c, q)))

\* What SlotsAt has, path by path.
LEMMA SlotsMean ==
    ASSUME NEW s, NEW c, NEW x \in Nat, NEW n \in 1 .. CNODE_DEPTH, NEW z
    PROVE  z \in SlotsAt(s, c, Bits(x, n)) <=> EndsPath(s, c, x, n, z)
<1> DEFINE a == Bits(x, n)
           F(q) == Found(CapsOn(s, c, q)[Len(q)].node, q[Len(q)],
                         Len(a) - Len(Spelling(s, c, q)))
           U == UNION {[1 .. l -> Indices] : l \in 1 .. n}
<1>1. Len(a) = n
  <2>1. n \in 0 .. CNODE_DEPTH
    OBVIOUS
  <2> QED
    BY <2>1, BitsType, Zenon
<1>2. SlotsAt(s, c, a) = {F(q) : q \in {r \in U : Spells(s, c, r, a)}}
  BY <1>1, Zenon DEF SlotsAt
<1>3. ASSUME NEW l \in 1 .. n, NEW q \in [1 .. l -> Indices]
      PROVE  /\ Len(q) = l /\ q \in U
             /\ Spells(s, c, q, a) <=> Denotes(s, c, x, n, q, l)
  <2>1. Len(q) = l /\ l \in Nat \ {0}
    OBVIOUS
  <2>2. q \in [1 .. l -> Nat]
    BY IndexType, Zenon
  <2>3. q \in U
    BY Zenon
  <2> QED
    BY <2>1, <2>2, <2>3, Zenon DEF Denotes
<1>4. \A l \in 1 .. n : \A q \in [1 .. l -> Indices] :
         F(q) = Found(CapsOn(s, c, q)[l].node, q[l], n - Len(Spelling(s, c, q)))
  BY <1>1, <1>3, Zenon
<1>5. \A q \in U : \E l \in 1 .. n : q \in [1 .. l -> Indices]
  BY Zenon
<1> HIDE DEF a, F, U
<1>6. z \in SlotsAt(s, c, a) <=> \E q \in U : Spells(s, c, q, a) /\ z = F(q)
  BY <1>2, Zenon
<1>7. ASSUME z \in SlotsAt(s, c, a)
      PROVE  \E l \in 1 .. n : \E q \in [1 .. l -> Indices] :
                /\ Denotes(s, c, x, n, q, l)
                /\ z = Found(CapsOn(s, c, q)[l].node, q[l], n - Len(Spelling(s, c, q)))
  <2>1. PICK q \in U : Spells(s, c, q, a) /\ z = F(q)
    BY <1>6, <1>7, Zenon
  <2>2. PICK l \in 1 .. n : q \in [1 .. l -> Indices]
    BY <1>5, <2>1, Zenon
  <2> QED
    BY <1>3, <1>4, <2>1, <2>2, Zenon
<1>8. ASSUME NEW l \in 1 .. n, NEW q \in [1 .. l -> Indices], Denotes(s, c, x, n, q, l),
             z = Found(CapsOn(s, c, q)[l].node, q[l], n - Len(Spelling(s, c, q)))
      PROVE  z \in SlotsAt(s, c, a)
  BY <1>3, <1>4, <1>6, <1>8, Zenon
<1> QED
  BY <1>7, <1>8, Zenon DEF a, EndsPath

\* Where the guard does not match, the address denotes nothing.
LEMMA NoSlot ==
    ASSUME NEW s, IsSpace(s), NEW c \in SlotCap, NEW x \in Nat, NEW n \in 1 .. CNODE_DEPTH,
           NEW m \in 1 .. n, NEW d \in CNodeCap, NEW k \in Nat, NEW p,
           Reached(s, c, x, n, d, m, k, p), Only(s, c, x, n, k, p), ~ Matches(x, m, d)
    PROVE  SlotsAt(s, c, Bits(x, n)) = {}
<1> SUFFICES ASSUME NEW z \in SlotsAt(s, c, Bits(x, n)) PROVE FALSE
  OBVIOUS
<1>1. PICK l, q : Denotes(s, c, x, n, q, l)
  BY SlotsMean, Zenon DEF EndsPath
<1>2. l > k /\ Agree(q, p, k)
  BY <1>1, Zenon DEF Only
<1>3. Starts(s, c, x, n, q, l)
  BY <1>1, DenotesStarts, Zenon
<1>4. GoesOn(x, m, d, k, q)
  BY <1>2, <1>3, NextSlot, Zenon
<1> QED
  BY <1>4, Zenon DEF GoesOn

\* A path that stands for the address takes the slot that the code computes.
LEMMA TakesSlot ==
    ASSUME NEW s, IsSpace(s), NEW c \in SlotCap, NEW x \in Nat, NEW n \in 1 .. CNODE_DEPTH,
           NEW m \in 1 .. n, NEW d \in CNodeCap, NEW k \in Nat, NEW p,
           Reached(s, c, x, n, d, m, k, p), Only(s, c, x, n, k, p),
           NEW l, NEW r, Denotes(s, c, x, n, r, l)
    PROVE  /\ l \in Nat /\ r \in [1 .. l -> Nat] /\ l >= k + 1
           /\ Agree(r, Extend(p, k, IndexOf(x, m, d)), k + 1)
<1>1. l > k /\ Agree(r, p, k)
  BY Zenon DEF Only
<1>2. Starts(s, c, x, n, r, l)
  BY DenotesStarts, Zenon
<1>3. r[k + 1] = IndexOf(x, m, d)
  <2>1. GoesOn(x, m, d, k, r)
    BY <1>1, <1>2, NextSlot, Zenon
  <2> QED
    BY <2>1, Zenon DEF GoesOn
<1>4. l \in Nat /\ r \in [1 .. l -> Nat]
  BY <1>2, Zenon DEF Starts
<1> DEFINE q == Extend(p, k, IndexOf(x, m, d))
<1>5. ASSUME NEW j \in 1 .. k + 1 PROVE r[j] = q[j]
  <2>1. q[j] = IF j = k + 1 THEN IndexOf(x, m, d) ELSE p[j]
    BY Zenon DEF Extend
  <2>2. CASE j = k + 1
    BY <1>3, <2>1, <2>2, Zenon
  <2>3. CASE j # k + 1
    <3>1. j \in 1 .. k
      BY <2>3
    <3> QED
      BY <1>1, <2>1, <2>3, <3>1, Zenon DEF Agree
  <2> QED
    BY <2>2, <2>3
<1>6. l >= k + 1
  BY <1>1, <1>4
<1> QED
  BY <1>4, <1>5, <1>6, Zenon DEF Agree

\* The address x of n bits denotes z and nothing else.
DenotesOnly(s, c, x, n, z) == SlotsAt(s, c, Bits(x, n)) = {z}

\* The slots on a path are slots of some CNode.
LEMMA PathIndices ==
    ASSUME NEW s, NEW c, NEW n \in Nat, NEW q \in [1 .. n -> Nat], IsPath(s, c, q)
    PROVE  q \in [1 .. n -> Indices]
<1>1. Len(q) = n
  OBVIOUS
<1>2. ASSUME NEW j \in 1 .. n PROVE q[j] \in Indices
  <2>1. CapsOn(s, c, q)[j] \in CNodeCap /\ q[j] < size(CapsOn(s, c, q)[j].node)
    BY <1>1, Zenon DEF IsPath, IsCNode
  <2>2. CapsOn(s, c, q)[j].node \in CNode /\ size(CapsOn(s, c, q)[j].node) \in Nat
    <3>1. ASSUME NEW e \in CNodeCap PROVE e.node \in CNode /\ size(e.node) \in Nat
      BY CapFacts
    <3> QED
      BY <2>1, <3>1, Zenon
  <2>3. q[j] \in 0 .. size(CapsOn(s, c, q)[j].node) - 1
    <3>1. ASSUME NEW i \in Nat, NEW e \in Nat, i < e PROVE i \in 0 .. e - 1
      BY <3>1
    <3>2. q[j] \in Nat
      OBVIOUS
    <3> QED
      BY <2>1, <2>2, <3>1, <3>2, Zenon
  <2> QED
    BY <2>2, <2>3, Zenon DEF Indices
<1> QED
  BY <1>2, Zenon

\* A path spells a bit at least for every slot.
LEMMA PathFits ==
    ASSUME NEW s, IsSpace(s), NEW c \in SlotCap,
           NEW n \in Nat, NEW q \in [1 .. n -> Nat], IsPath(s, c, q)
    PROVE  n <= Len(Spelling(s, c, q))
<1> DEFINE o == [j \in 1 .. 0 |-> 0]
<1>1. o \in [1 .. 0 -> Nat] /\ (\A j \in 1 .. 0 : q[j] = o[j]) /\ 0 \in 0 .. n /\ 0 \in Nat
  OBVIOUS
<1> HIDE DEF o
<1>2. Continues(Spelling(s, c, o), Spelling(s, c, q), n - 0)
  BY <1>1, SpellPrefix, Zenon
<1>3. Len(Spelling(s, c, o)) + (n - 0) <= Len(Spelling(s, c, q))
  BY <1>2, Zenon DEF Continues
<1>4. Spelling(s, c, o) \in Seq(Nat) /\ Spelling(s, c, q) \in Seq(Nat)
  <2>1. IsPath(s, c, o)
    BY <1>1, PathPrefix, Zenon
  <2> QED
    BY <1>1, <2>1, SpellType, Zenon
<1>5. Len(Spelling(s, c, o)) \in Nat /\ Len(Spelling(s, c, q)) \in Nat
  BY <1>4
<1> QED
  BY <1>3, <1>5

\* The path r of l slots is the path q of k slots.
SamePath(l, r, k, q) == l = k /\ r = q

\* No path that stands for the address goes on from one that uses up the address
\* or comes to a slot without a CNode.
LEMMA EndsThere ==
    ASSUME NEW s, IsSpace(s), NEW c \in SlotCap, NEW x \in Nat, NEW n \in 1 .. CNODE_DEPTH,
           NEW k \in Nat, NEW q \in [1 .. k -> Nat], IsPath(s, c, q),
           Len(Spelling(s, c, q)) = n \/ ~ IsCNode(CapsOn(s, c, q)[k + 1]),
           NEW l, NEW r, Denotes(s, c, x, n, r, l), l >= k, Agree(r, q, k)
    PROVE  SamePath(l, r, k, q)
<1> DEFINE v == Spelling(s, c, q)
           z == Spelling(s, c, r)
           a == Bits(x, n)
<1>1. l \in Nat /\ r \in [1 .. l -> Nat] /\ IsPath(s, c, r) /\ Begins(z, a)
  <2>1. l \in Nat
    BY Zenon DEF Denotes
  <2> QED
    BY <2>1, Zenon DEF Denotes, Spells
<1>2. \A j \in 1 .. k : r[j] = q[j]
  BY Zenon DEF Agree
<1>3. CASE l = k
  <2>1. r \in [1 .. k -> Nat]
    BY <1>1, <1>3, Zenon
  <2>2. r = q
    BY <1>2, <2>1
  <2> QED
    BY <1>3, <2>2, Zenon DEF SamePath
<1>4. CASE l # k
  <2>1. k \in 0 .. l /\ k <= k /\ l - k >= 1 /\ k + 1 \in 1 .. l /\ k + 1 \in 1 .. k + 1
    BY <1>1, <1>4
  <2>2. Continues(v, z, l - k)
    BY <1>1, <1>2, <2>1, SpellPrefix, Zenon
  <2>3. v \in Seq(Nat) /\ z \in Seq(Nat)
    BY <1>1, SpellType, Zenon
  <2>4. a \in Seq(Nat) /\ Len(a) = n
    <3>1. n \in 0 .. CNODE_DEPTH
      OBVIOUS
    <3> QED
      BY <3>1, BitsType, Zenon
  <2>5. Len(z) <= n
    BY <1>1, <2>3, <2>4, PrefixMeans, Zenon
  <2>6. Len(v) + (l - k) <= Len(z)
    BY <2>2, Zenon DEF Continues
  <2> HIDE DEF v, z, a
  <2>7. Len(v) # n
    <3>1. Len(v) \in Nat /\ Len(z) \in Nat
      BY <2>3
    <3> QED
      BY <2>1, <2>5, <2>6, <3>1, <1>1
  <2>8. ~ IsCNode(CapsOn(s, c, q)[k + 1])
    BY <2>7, Zenon DEF v
  <2>9. CapsOn(s, c, r)[k + 1] = CapsOn(s, c, q)[k + 1]
    <3>1. Agree(CapsOn(s, c, r), CapsOn(s, c, q), k + 1)
      BY <1>1, <2>1, CapsAgree, Zenon
    <3> QED
      BY <2>1, <3>1, Zenon DEF Agree
  <2>10. CapsOn(s, c, r)[k + 1] \in CNodeCap
    BY <1>1, <2>1, PathCaps, Zenon
  <2> QED
    BY <2>8, <2>9, <2>10, Zenon DEF IsCNode
<1> QED
  BY <1>3, <1>4, Zenon

\* Where the lookup stops, the address denotes the slot that it found.
LEMMA LastSlot ==
    ASSUME NEW s, IsSpace(s), NEW c \in SlotCap, NEW x \in Nat, NEW n \in 1 .. CNODE_DEPTH,
           NEW m \in 1 .. n, NEW d \in CNodeCap, NEW k \in Nat, NEW p,
           Reached(s, c, x, n, d, m, k, p), Only(s, c, x, n, k, p), Matches(x, m, d),
           level_bits(d) # 0,
           m - level_bits(d) = 0 \/ ~ IsCNode(s[d.node][IndexOf(x, m, d)])
    PROVE  DenotesOnly(s, c, x, n, Found(d.node, IndexOf(x, m, d), m - level_bits(d)))
<1> DEFINE i == IndexOf(x, m, d)
           q == Extend(p, k, i)
           b == m - level_bits(d)
           a == Bits(x, n)
           v == Spelling(s, c, q)
           y == Found(d.node, i, b)
<1>1. /\ Reached(s, c, x, n, s[d.node][i], b, k + 1, q)
      /\ i \in 0 .. size(d.node) - 1 /\ CapsOn(s, c, q)[k + 1] = d
  <2>1. LongerPath(s, c, x, n, d, m, k, p, IndexOf(x, m, d))
    BY NextPath, Zenon
  <2> QED
    BY <2>1, Zenon DEF LongerPath
<1>2. b \in 0 .. n - 1
  <2>1. level_bits(d) \in Nat \ {0}
    BY CapFacts
  <2> QED
    BY <2>1 DEF Matches
<1>3. /\ q \in [1 .. k + 1 -> Nat] /\ IsPath(s, c, q) /\ Len(v) = n - b
      /\ \A j \in 1 .. n - b : v[j] = a[j]
      /\ CapsOn(s, c, q)[(k + 1) + 1] = s[d.node][i]
  BY <1>1, Zenon DEF Reached
<1>4. k + 1 \in Nat \ {0} /\ k + 1 \in 1 .. k + 1 /\ k + 1 \in Nat /\ k + 1 \in 0 .. k + 1
  OBVIOUS
<1>5. Len(q) = k + 1 /\ q[k + 1] = i
  BY <1>3, <1>4 DEF Extend
<1>6. v \in Seq(Nat)
  BY <1>3, <1>4, SpellType, Zenon
<1>7. a \in Seq(Nat) /\ Len(a) = n
  <2>1. n \in 0 .. CNODE_DEPTH
    OBVIOUS
  <2> QED
    BY <2>1, BitsType, Zenon
<1>8. q \in [1 .. k + 1 -> Indices]
  BY <1>3, <1>4, PathIndices, Zenon
<1> HIDE DEF i, b, q, a, v
<1>9. k + 1 <= n
  <2>1. k + 1 <= Len(v)
    BY <1>3, <1>4, PathFits, Zenon DEF v
  <2> QED
    BY <1>2, <1>3, <2>1
<1>10. Denotes(s, c, x, n, q, k + 1)
  <2>1. Begins(v, a)
    <3>1. Len(v) <= Len(a)
      BY <1>2, <1>3, <1>7
    <3> QED
      BY <1>3, <1>6, <1>7, <3>1, PrefixMeans, Zenon
  <2>2. Len(v) = Len(a) \/ ~ IsCNode(CapsOn(s, c, q)[Len(q) + 1])
    <3>1. CASE b = 0
      BY <1>3, <1>7, <3>1
    <3>2. CASE ~ IsCNode(s[d.node][i])
      BY <1>3, <1>5, <3>2, Zenon
    <3> QED
      BY <3>1, <3>2 DEF b, i
  <2> QED
    BY <1>3, <1>4, <2>1, <2>2, Zenon DEF Denotes, Spells, a, v
<1>11. y = Found(CapsOn(s, c, q)[k + 1].node, q[k + 1], n - Len(Spelling(s, c, q)))
  <2>1. n - Len(v) = b
    BY <1>2, <1>3
  <2> QED
    BY <1>1, <1>5, <2>1, Zenon DEF v
<1>12. ASSUME NEW l, NEW r, Denotes(s, c, x, n, r, l) PROVE l = k + 1 /\ r = q
  <2>1. l >= k + 1 /\ Agree(r, q, k + 1)
    BY <1>12, TakesSlot, Zenon DEF q, i
  <2>2. Len(v) = n \/ ~ IsCNode(CapsOn(s, c, q)[(k + 1) + 1])
    BY <1>3, <1>5, <1>7, <1>10, Zenon DEF Denotes, Spells, v, a
  <2>3. SamePath(l, r, k + 1, q)
    BY <1>3, <1>4, <1>12, <2>1, <2>2, EndsThere, Zenon DEF v
  <2> QED
    BY <2>3, Zenon DEF SamePath
<1>13. ASSUME NEW z \in SlotsAt(s, c, a) PROVE z = y
  <2>1. PICK l \in 1 .. n : \E r \in [1 .. l -> Indices] :
           /\ Denotes(s, c, x, n, r, l)
           /\ z = Found(CapsOn(s, c, r)[l].node, r[l], n - Len(Spelling(s, c, r)))
    <3>1. EndsPath(s, c, x, n, z)
      BY SlotsMean, Zenon DEF a
    <3> QED
      BY <3>1, Zenon DEF EndsPath
  <2>2. PICK r \in [1 .. l -> Indices] :
           /\ Denotes(s, c, x, n, r, l)
           /\ z = Found(CapsOn(s, c, r)[l].node, r[l], n - Len(Spelling(s, c, r)))
    BY <2>1, Zenon
  <2>3. l = k + 1 /\ r = q
    BY <1>12, <2>2, Zenon
  <2> QED
    BY <1>11, <2>2, <2>3, Zenon
<1>14. y \in SlotsAt(s, c, a)
  <2>1. k + 1 \in 1 .. n
    BY <1>9
  <2>2. EndsPath(s, c, x, n, y)
    BY <1>8, <1>10, <1>11, <2>1, Zenon DEF EndsPath
  <2> QED
    BY <2>2, SlotsMean, Zenon DEF a
<1> QED
  BY <1>13, <1>14, Zenon DEF a, b, i, DenotesOnly

\* Where the lookup goes on, so does every path that stands for the address.
LEMMA OnlyOn ==
    ASSUME NEW s, IsSpace(s), NEW c \in SlotCap, NEW x \in Nat, NEW n \in 1 .. CNODE_DEPTH,
           NEW m \in 1 .. n, NEW d \in CNodeCap, NEW k \in Nat, NEW p,
           Reached(s, c, x, n, d, m, k, p), Only(s, c, x, n, k, p), Matches(x, m, d),
           level_bits(d) # 0,
           m - level_bits(d) # 0, IsCNode(s[d.node][IndexOf(x, m, d)])
    PROVE  /\ Reached(s, c, x, n, s[d.node][IndexOf(x, m, d)], m - level_bits(d), k + 1,
                       Extend(p, k, IndexOf(x, m, d)))
           /\ Only(s, c, x, n, k + 1, Extend(p, k, IndexOf(x, m, d)))
           /\ m - level_bits(d) \in 1 .. m
<1> DEFINE i == IndexOf(x, m, d)
           q == Extend(p, k, i)
           b == m - level_bits(d)
           a == Bits(x, n)
<1>1. Reached(s, c, x, n, s[d.node][i], b, k + 1, q)
  <2>1. LongerPath(s, c, x, n, d, m, k, p, IndexOf(x, m, d))
    BY NextPath, Zenon
  <2> QED
    BY <2>1, Zenon DEF LongerPath
<1>2. b \in 1 .. m
  <2>1. level_bits(d) \in Nat
    BY CapFacts, Zenon
  <2> QED
    BY <2>1 DEF Matches
<1>3. /\ q \in [1 .. k + 1 -> Nat] /\ Len(Spelling(s, c, q)) = n - b
      /\ CapsOn(s, c, q)[(k + 1) + 1] = s[d.node][i]
  BY <1>1, Zenon DEF Reached
<1>4. Len(a) = n
  <2>1. n \in 0 .. CNODE_DEPTH
    OBVIOUS
  <2> QED
    BY <2>1, BitsType, Zenon
<1>5. ASSUME NEW l, NEW r, Denotes(s, c, x, n, r, l)
      PROVE  l > k + 1 /\ Agree(r, q, k + 1)
  <2>1. l \in Nat /\ r \in [1 .. l -> Nat] /\ l >= k + 1 /\ Agree(r, q, k + 1)
    BY <1>5, TakesSlot, Zenon
  <2>2. \/ Len(Spelling(s, c, r)) = Len(a)
        \/ ~ IsCNode(CapsOn(s, c, r)[Len(r) + 1])
    BY <1>5, Zenon DEF Denotes, Spells
  <2> HIDE DEF i, q, b, a
  <2>3. CASE l = k + 1
    <3>1. r \in [1 .. k + 1 -> Nat] /\ q \in [1 .. k + 1 -> Nat]
      BY <1>3, <2>1, <2>3, Zenon
    <3>2. \A j \in 1 .. k + 1 : r[j] = q[j]
      BY <2>1, Zenon DEF Agree
    <3>3. r = q
      BY <3>1, <3>2
    <3>4. Len(r) = k + 1
      BY <3>1
    <3>5. n - b # n
      BY <1>2
    <3>6. IsCNode(s[d.node][i])
      BY Zenon DEF i
    <3> QED
      BY <1>3, <1>4, <2>2, <3>3, <3>4, <3>5, <3>6, Zenon
  <2>4. CASE l # k + 1
    BY <2>1, <2>4
  <2> QED
    BY <2>3, <2>4
<1>6. Only(s, c, x, n, k + 1, q)
  <2> HIDE DEF q
  <2> QED
    BY <1>5, Zenon DEF Only
<1> QED
  BY <1>1, <1>2, <1>6, Zenon

\* The lookup starts with the empty path.
LEMMA EmptyPath ==
    ASSUME NEW s, IsSpace(s), NEW c \in SlotCap, NEW x \in Nat, NEW n \in 1 .. CNODE_DEPTH
    PROVE  Reached(s, c, x, n, c, n, 0, << >>) /\ Only(s, c, x, n, 0, << >>)
<1> DEFINE p == << >>
<1>1. p \in [1 .. 0 -> Nat] /\ Len(p) = 0 /\ 1 .. 0 = {} /\ 0 \in Nat
  OBVIOUS
<1>2. IsPath(s, c, p)
  BY <1>1, Zenon DEF IsPath
<1>3. [k \in 1 .. 0 |-> Letters(CapsOn(s, c, p)[k], p[k])] = << >>
  BY <1>1
<1>4. Spelling(s, c, p) = << >>
  <2>1. Spelling(s, c, p) = Join(<< >>)
    BY <1>1, <1>3, Zenon DEF Spelling
  <2> QED
    BY <2>1 DEF Join
<1>5. CapsOn(s, c, p)[0 + 1] = c
  <2>1. Follows(CapsOn(s, c, p), s, c, p, 0)
    BY <1>1, CapsUnfold, Zenon
  <2>2. CapsOn(s, c, p)[1] = c
    BY <2>1, Zenon DEF Follows
  <2> QED
    BY <2>2
<1>6. Len(Spelling(s, c, p)) = n - n /\ 1 .. n - n = {}
  BY <1>4
<1>7. Reached(s, c, x, n, c, n, 0, p)
  BY <1>1, <1>2, <1>5, <1>6, Zenon DEF Reached
<1>8. ASSUME NEW l, NEW q, Denotes(s, c, x, n, q, l) PROVE l > 0 /\ Agree(q, p, 0)
  <2>1. l \in Nat \ {0}
    BY <1>8, Zenon DEF Denotes
  <2> QED
    BY <1>1, <2>1 DEF Agree
<1>9. Only(s, c, x, n, 0, p)
  BY <1>8, Zenon DEF Only
<1> QED
  BY <1>7, <1>9, Zenon

(***************************************************************************)
(* The lookup.                                                             *)
(***************************************************************************)
\* The capability space, the address, the depth and the root never change.
Fixed == /\ debug \in BOOLEAN
         /\ cptr \in Nat /\ depth \in 1 .. CNODE_DEPTH /\ root \in CNodeCap
         /\ \A n \in CNode : /\ DOMAIN space[n] = 0 .. size(n) - 1
                             /\ \A i \in 0 .. size(n) - 1 :
                                   space[n][i] \in CNodeCap \cup {Other}

TypeInv == Fixed /\ LookupTypeOK

\* A first state is typed.
LEMMA InitTypeInv == Init => TypeInv
<1> SUFFICES ASSUME Init PROVE TypeInv
  BY Zenon
<1>1. ASSUME NEW n \in CNode
      PROVE  /\ DOMAIN space[n] = 0 .. size(n) - 1
             /\ \A i \in 0 .. size(n) - 1 : space[n][i] \in CNodeCap \cup {Other}
  <2>1. /\ space[n] \in UNION {[0 .. size(m) - 1 -> CNodeCap \cup {Other}] : m \in CNode}
        /\ DOMAIN space[n] = 0 .. size(n) - 1
    BY Zenon DEF Init
  <2>2. PICK m \in CNode : space[n] \in [0 .. size(m) - 1 -> CNodeCap \cup {Other}]
    BY <2>1, Zenon
  <2> QED
    BY <2>1, <2>2, Zenon
<1>2. cptr \in Nat
  BY DEF Init
<1>3. /\ debug \in BOOLEAN /\ depth \in 1 .. CNODE_DEPTH /\ root \in CNodeCap
      /\ current = root /\ n_bits = depth /\ result = Running
  BY RootAssumption, Zenon DEF Init
<1>4. result.status = "running"
  BY <1>3, Zenon DEF Running
<1>5. n_bits \in 1 .. depth
  BY <1>3
<1> QED
  BY <1>1, <1>2, <1>3, <1>4, <1>5, Zenon DEF TypeInv, Fixed, LookupTypeOK, IsCNode

\* What the code looks at in one iteration: the slot, and the bits below it.
LEMMA CodeSlot ==
    ASSUME TypeInv, ~ Mismatch(current)
    PROVE  /\ Matches(cptr, n_bits, current)
           /\ IndexIn(current) = IndexOf(cptr, n_bits, current)
           /\ IndexIn(current) \in 0 .. size(current.node) - 1
           /\ current.node \in CNode
           /\ Left(current) \in 0 .. n_bits
<1>1. /\ cptr \in Nat /\ depth \in 1 .. CNODE_DEPTH /\ n_bits \in 1 .. depth
      /\ current \in CNodeCap
  BY Zenon DEF TypeInv, Fixed, LookupTypeOK, IsCNode
<1>2. n_bits \in 1 .. CNODE_DEPTH
  BY <1>1, DepthNat
<1>3. /\ Matches(cptr, n_bits, current)
      /\ IndexIn(current) = IndexOf(cptr, n_bits, current)
  BY <1>1, <1>2, CodeFields, Zenon
<1>4. /\ guard_bits(current) \in 0 .. CNODE_DEPTH /\ radix_bits(current) \in 0 .. CNODE_DEPTH
      /\ level_bits(current) = guard_bits(current) + radix_bits(current)
      /\ size(current.node) = 2 ^ radix_bits(current) /\ current.node \in CNode
  BY <1>1, CapFacts, Zenon
<1>5. /\ n_bits - guard_bits(current) \in 0 .. CNODE_DEPTH
      /\ radix_bits(current) \in 0 .. n_bits - guard_bits(current)
      /\ Left(current) \in 0 .. n_bits
  BY <1>2, <1>3, <1>4, DepthNat DEF Matches, Left
<1>6. IndexOf(cptr, n_bits, current) \in 0 .. 2 ^ radix_bits(current) - 1
  BY <1>1, <1>5, FieldType DEF IndexOf
<1> QED
  BY <1>3, <1>4, <1>5, <1>6, Zenon

\* The step's outcome when the lookup does not go on.
Stops(r) == result' = r /\ current' = current /\ n_bits' = n_bits

\* One iteration ends the lookup, or goes on in a CNode with fewer bits or as many.
LEMMA StepOutcome ==
    ASSUME TypeInv, resolve_internal
    PROVE  \/ debug /\ level_bits(current) = 0 /\ Stops(Panic)
           \/ Mismatch(current) /\ Stops(Error)
           \/ /\ ~ Mismatch(current)
              /\ Terminal(current, space[current.node][IndexIn(current)])
              /\ Stops(Found(current.node, IndexIn(current), Left(current)))
           \/ /\ ~ Mismatch(current)
              /\ ~ Terminal(current, space[current.node][IndexIn(current)])
              /\ current' = space[current.node][IndexIn(current)]
              /\ n_bits' = Left(current) /\ result' = result
  BY Zenon DEF resolve_internal, Stops

\* Every step keeps the types.
LEMMA StepTypeInv == ASSUME TypeInv, resolve_internal PROVE TypeInv'
<1>1. /\ debug' = debug /\ space' = space /\ cptr' = cptr /\ depth' = depth /\ root' = root
  BY Zenon DEF resolve_internal, input
<1>2. Fixed'
  BY <1>1, Zenon DEF TypeInv, Fixed
<1>3. ASSUME NEW r, Stops(r), r.status \in {"ok", "error", "panic"} PROVE LookupTypeOK'
  BY <1>1, <1>3, Zenon DEF TypeInv, LookupTypeOK, Stops
<1>4. /\ Panic.status = "panic" /\ Error.status = "error"
      /\ \A n, i, b : Found(n, i, b).status = "ok"
  BY Zenon DEF Panic, Error, Found
<1>5. CASE /\ ~ Mismatch(current)
           /\ ~ Terminal(current, space[current.node][IndexIn(current)])
           /\ current' = space[current.node][IndexIn(current)]
           /\ n_bits' = Left(current) /\ result' = result
  <2>1. Left(current) # 0 /\ IsCNode(current')
    BY <1>5, Zenon DEF Terminal
  <2>2. Left(current) \in 0 .. n_bits
    BY <1>5, CodeSlot, Zenon
  <2>3. depth \in Nat /\ n_bits \in 1 .. depth /\ result.status \in {"running", "ok", "error", "panic"}
    <3>1. depth \in 1 .. CNODE_DEPTH
      BY Zenon DEF TypeInv, Fixed
    <3>2. n_bits \in 1 .. depth /\ result.status \in {"running", "ok", "error", "panic"}
      BY Zenon DEF TypeInv, LookupTypeOK
    <3> QED
      BY <3>1, <3>2
  <2>4. Left(current) \in 1 .. depth
    BY <2>1, <2>2, <2>3
  <2> QED
    BY <1>1, <1>2, <1>5, <2>1, <2>3, <2>4, Zenon DEF TypeInv, LookupTypeOK
<1>6. /\ Stops(Panic) => LookupTypeOK'
      /\ Stops(Error) => LookupTypeOK'
      /\ Stops(Found(current.node, IndexIn(current), Left(current))) => LookupTypeOK'
  BY <1>3, <1>4, Zenon
<1> QED
  BY <1>2, <1>5, <1>6, StepOutcome, Zenon DEF TypeInv

\* A lookup that has ended does not change.
LEMMA StillTypeInv == ASSUME TypeInv, UNCHANGED lookupVars PROVE TypeInv'
  BY Zenon DEF lookupVars, TypeInv, Fixed, LookupTypeOK

(***************************************************************************)
(* The lookup, where every CNode resolves bits.                            *)
(***************************************************************************)
\* The lookup has gone down the only path that the address may be spelled by.
Walks == /\ level_bits(current) # 0
         /\ \E k, p : /\ k \in Nat
                      /\ Reached(space, root, cptr, depth, current, n_bits, k, p)
                      /\ Only(space, root, cptr, depth, k, p)

\* The inductive invariant.  ResolvesAddress is about a lookup that has ended;
\* what makes it hold then is where a running lookup is.
LookupInv == /\ TypeInv
             /\ Resolving /\ result = Running => Walks
             /\ ResolvesAddress

\* Where every CNode resolves bits the slots hold what SlotCap says.
LEMMA ResolvingSpace ==
    ASSUME TypeInv, Resolving
    PROVE  IsSpace(space) /\ root \in SlotCap /\ level_bits(root) # 0
<1>1. root \in CNodeCap /\ IsCNode(root)
  BY Zenon DEF TypeInv, Fixed, IsCNode
<1>2. level_bits(root) # 0
  BY <1>1, Zenon DEF Resolving, Resolves
<1>3. ASSUME NEW n \in CNode, NEW i \in 0 .. size(n) - 1 PROVE space[n][i] \in SlotCap
  <2>1. DOMAIN space[n] = 0 .. size(n) - 1 /\ space[n][i] \in CNodeCap \cup {Other}
    BY Zenon DEF TypeInv, Fixed
  <2>2. IsCNode(space[n][i]) => level_bits(space[n][i]) # 0
    BY <2>1, Zenon DEF Resolving, Resolves
  <2> QED
    BY <2>1, <2>2, Zenon DEF SlotCap, IsCNode
<1> QED
  BY <1>1, <1>2, <1>3, Zenon DEF IsSpace, SlotCap

\* A lookup starts at the root with all bits left.
LEMMA InitLookupInv == Init => LookupInv
<1> SUFFICES ASSUME Init PROVE LookupInv
  BY Zenon
<1>1. TypeInv
  BY InitTypeInv, Zenon
<1>2. /\ cptr \in Nat /\ depth \in 1 .. CNODE_DEPTH
      /\ current = root /\ n_bits = depth /\ result = Running
  BY <1>1, Zenon DEF TypeInv, Fixed, Init
<1>3. ASSUME Resolving PROVE Walks
  <2>1. IsSpace(space) /\ root \in SlotCap /\ level_bits(root) # 0
    BY <1>1, <1>3, ResolvingSpace, Zenon
  <2>2. /\ Reached(space, root, cptr, depth, root, depth, 0, << >>)
        /\ Only(space, root, cptr, depth, 0, << >>)
    BY <1>2, <2>1, EmptyPath, Zenon
  <2>3. 0 \in Nat
    OBVIOUS
  <2> QED
    BY <1>2, <2>1, <2>2, <2>3, Zenon DEF Walks
<1>4. ResolvesAddress
  BY <1>2, Zenon DEF ResolvesAddress
<1> QED
  BY <1>1, <1>3, <1>4, Zenon DEF LookupInv

\* One iteration of the loop.
LEMMA StepLookupInv == ASSUME LookupInv, resolve_internal PROVE LookupInv'
<1>0. TypeInv /\ TypeInv'
  BY StepTypeInv, Zenon DEF LookupInv
<1>1. space' = space /\ cptr' = cptr /\ depth' = depth /\ root' = root
  BY Zenon DEF resolve_internal, input
<1>2. Resolving' <=> Resolving
  BY <1>1, Zenon DEF Resolving
<1>3. ASSUME Resolving
      PROVE  (result' = Running => Walks') /\ ResolvesAddress'
  <2>1. IsSpace(space) /\ root \in SlotCap
    BY <1>0, <1>3, ResolvingSpace, Zenon
  <2>2. /\ cptr \in Nat /\ depth \in 1 .. CNODE_DEPTH
        /\ n_bits \in 1 .. depth /\ current \in CNodeCap /\ result = Running
    BY <1>0, Zenon DEF TypeInv, Fixed, LookupTypeOK, IsCNode, resolve_internal
  <2>3. Walks
    BY <1>3, <2>2, Zenon DEF LookupInv
  <2>4. PICK k, p : /\ k \in Nat
                    /\ Reached(space, root, cptr, depth, current, n_bits, k, p)
                    /\ Only(space, root, cptr, depth, k, p)
    BY <2>3, Zenon DEF Walks
  <2>5. level_bits(current) # 0
    BY <2>3, Zenon DEF Walks
  <2> DEFINE d == current
             m == n_bits
             i == IndexOf(cptr, m, d)
             slot == space[d.node][i]
  <2>6. Denoted' = SlotsAt(space, root, Bits(cptr, depth))
    BY <1>1, Zenon DEF Denoted
  <2>7. CASE Mismatch(d) /\ Stops(Error)
    <3>1. result' = Error
      BY <2>7, Zenon DEF Stops
    <3>2. ~ Matches(cptr, m, d)
      <4>1. n_bits \in 1 .. CNODE_DEPTH
        BY <2>2, DepthNat
      <4> QED
        BY <2>2, <2>7, <4>1, CodeFields, Zenon
    <3>3. Denoted' = {}
      BY <2>1, <2>2, <2>4, <2>6, <3>2, NoSlot, Zenon
    <3>4. Error.status = "error" /\ Error # Running /\ Error # Panic
      BY Zenon DEF Error, Running, Panic
    <3>5. lookup' = Error
      BY <3>1, <3>4 DEF lookup
    <3> QED
      BY <3>1, <3>3, <3>4, <3>5, Zenon DEF ResolvesAddress
  <2>8. CASE /\ ~ Mismatch(d)
             /\ Terminal(d, space[d.node][IndexIn(d)])
             /\ Stops(Found(d.node, IndexIn(d), Left(d)))
    <3> DEFINE b == Left(d)
    <3>1. Matches(cptr, m, d) /\ IndexIn(d) = IndexOf(cptr, m, d)
      BY <1>0, <2>8, CodeSlot, Zenon
    <3>2. result' = Found(d.node, IndexOf(cptr, m, d), b)
      BY <2>8, <3>1, Zenon DEF Stops
    <3>3. Denoted' = {result'}
      <4>1. m - level_bits(d) = 0 \/ ~ IsCNode(space[d.node][IndexOf(cptr, m, d)])
        BY <2>8, <3>1, Zenon DEF Terminal, Left
      <4>2. DenotesOnly(space, root, cptr, depth,
                        Found(d.node, IndexOf(cptr, m, d), m - level_bits(d)))
        BY <2>1, <2>2, <2>4, <2>5, <3>1, <4>1, LastSlot, Zenon
      <4> QED
        BY <2>6, <3>2, <4>2, Zenon DEF Left, DenotesOnly
    <3> HIDE DEF i, b
    <3>4. /\ result'.status = "ok" /\ result'.bits_remaining = b
          /\ result' # Error /\ result' # Running /\ result' # Panic
      BY <3>2 DEF Found, Error, Running, Panic
    <3>5. lookup' # Error <=> b = 0
      BY <3>4, Zenon DEF lookup
    <3> QED
      BY <3>3, <3>4, <3>5, Zenon DEF ResolvesAddress
  <2>9. CASE /\ ~ Mismatch(d)
             /\ ~ Terminal(d, space[d.node][IndexIn(d)])
             /\ current' = space[d.node][IndexIn(d)]
             /\ n_bits' = Left(d) /\ result' = result
    <3> DEFINE b == m - level_bits(d)
               q == Extend(p, k, i)
    <3>1. /\ Matches(cptr, m, d) /\ IndexIn(d) = i /\ d.node \in CNode
          /\ i \in 0 .. size(d.node) - 1
      BY <1>0, <2>9, CodeSlot, Zenon
    <3>2. result' = result /\ current' = slot /\ n_bits' = b
      BY <2>9, <3>1, Zenon DEF Left
    <3>3. b # 0 /\ IsCNode(slot)
      BY <2>9, <3>1, Zenon DEF Terminal, Left
    <3>4. level_bits(slot) # 0
      <4>1. slot \in SlotCap
        BY <2>1, <3>1, Zenon DEF IsSpace
      <4> QED
        BY <3>3, <4>1, SlotKinds, Zenon
    <3>5. /\ Reached(space, root, cptr, depth, slot, b, k + 1, q)
          /\ Only(space, root, cptr, depth, k + 1, q)
      BY <2>1, <2>2, <2>4, <2>5, <3>1, <3>3, OnlyOn, Zenon
    <3>6. k + 1 \in Nat
      BY <2>4
    <3> HIDE DEF b, q, slot
    <3>7. Walks'
      BY <1>1, <3>2, <3>4, <3>5, <3>6, Zenon DEF Walks
    <3> QED
      BY <2>2, <3>2, <3>7, Zenon DEF ResolvesAddress
  <2> QED
    BY <1>0, <2>5, <2>7, <2>8, <2>9, StepOutcome, Zenon
<1>4. ~ Resolving => ResolvesAddress'
  BY <1>2, Zenon DEF ResolvesAddress
<1> QED
  BY <1>0, <1>2, <1>3, <1>4, Zenon DEF LookupInv

\* A lookup that has ended does not change.
LEMMA StillLookupInv == ASSUME LookupInv, UNCHANGED lookupVars PROVE LookupInv'
<1>1. /\ space' = space /\ cptr' = cptr /\ root' = root /\ depth' = depth
      /\ current' = current /\ n_bits' = n_bits /\ result' = result
  BY Zenon DEF lookupVars
<1>2. TypeInv'
  BY StillTypeInv, Zenon DEF LookupInv
<1>3. Resolving' <=> Resolving
  BY <1>1, Zenon DEF Resolving
<1>4. Walks' <=> Walks
  BY <1>1, Zenon DEF Walks
<1>5. Denoted' = Denoted /\ lookup' = lookup
  BY <1>1, Zenon DEF Denoted, lookup
<1>6. ResolvesAddress'
  BY <1>1, <1>3, <1>5, Zenon DEF LookupInv, ResolvesAddress
<1> QED
  BY <1>1, <1>2, <1>3, <1>4, <1>6, Zenon DEF LookupInv

\* Every state of a lookup satisfies the invariant.
THEOREM LookupInvariant == Spec => []LookupInv
<1>1. LookupInv /\ [Next]_lookupVars => LookupInv'
  BY StepLookupInv, StillLookupInv, Zenon DEF Next, Done
<1> QED
  BY <1>1, InitLookupInv, PTL DEF Spec

\* Between iterations of the loop of resolve_internal 1 .. depth bits are left and
\* the current capability is a CNode: no shift is negative or as wide as a word,
\* for any capability space, address, depth, radixes and guards, CNodes that
\* resolve no bits included.
THEOREM CSpaceTypeOK == Spec => []LookupTypeOK
<1>1. LookupInv => LookupTypeOK
  BY Zenon DEF LookupInv, TypeInv
<1> QED
  BY <1>1, LookupInvariant, PTL

\* Where every CNode resolves bits, a lookup that ends has found exactly the slot
\* that the address denotes as a string of bits, with the bits it leaves, or fails
\* because there is none; and lookup_with_depth gives a slot iff the whole address
\* spells one.
THEOREM CSpaceResolvesAddress == Spec => []ResolvesAddress
<1>1. LookupInv => ResolvesAddress
  BY Zenon DEF LookupInv
<1> QED
  BY <1>1, LookupInvariant, PTL
=============================================================================
