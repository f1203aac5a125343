------------------------------- MODULE CSpace -------------------------------
(***************************************************************************)
(* Resolution of capability addresses: CSpace of kernel/src/cspace.rs over *)
(* the CNode capabilities of kernel/src/objects/cnode.rs.  One lookup runs *)
(* over a capability space that does not change under it; the first state  *)
(* picks the build, the space, the address and the depth, and each         *)
(* iteration of the loop of resolve_internal is a step.                    *)
(***************************************************************************)
EXTENDS Naturals, Sequences

CONSTANTS
    CNode,        \* CNode objects
    Radix,        \* Radix[n]: the radix of the capabilities to CNode n
    Roots,        \* capabilities a CSpace may have for its root
    Guard,        \* pairs <<guard_bits, guard>> of the capabilities
    CNODE_DEPTH,  \* the bits of a full address
    WORD_RADIX,   \* a word has 2^WORD_RADIX bits
    Other         \* a capability to something else, or none

WORD_BITS == 2 ^ WORD_RADIX

ASSUME CNodeAssumption ==
    /\ Radix \in [CNode -> 0 .. CNODE_DEPTH]
    /\ CNODE_DEPTH \in 1 .. WORD_BITS - 1
    /\ Guard \subseteq (0 .. CNODE_DEPTH) \X Nat

\* All that is used of powers of two.
ASSUME PowerAssumption ==
    /\ WORD_BITS \in Nat
    /\ 2 ^ 0 = 1 /\ 2 ^ 1 = 2
    /\ \A b \in 0 .. CNODE_DEPTH : 2 ^ b \in Nat \ {0}
    /\ \A b, c \in 0 .. CNODE_DEPTH :
          b + c <= CNODE_DEPTH => 2 ^ (b + c) = 2 ^ b * 2 ^ c

CNodeCap == [node : CNode, guard : Guard]
ASSUME RootAssumption == Roots \subseteq CNodeCap /\ Other \notin CNodeCap

VARIABLES
    debug,    \* built with debug assertions
    space,    \* space[n][i]: the capability in slot i of CNode n
    cptr,     \* the address looked up
    root,     \* the capability of the root CNode
    depth,    \* the bits of it to resolve
    current,  \* the capability of the CNode being indexed
    n_bits,   \* the bits not resolved yet
    result    \* the outcome of resolve_internal

lookupVars == <<debug, space, cptr, root, depth, current, n_bits, result>>
input == <<debug, space, cptr, depth>>

\* x & mask!(b).
LowBits(x, b) == x % 2 ^ b

IsCNode(c) == c \in CNodeCap
radix_bits(c) == Radix[c.node]
guard_bits(c) == c.guard[1]
guard(c) == c.guard[2]
level_bits(c) == radix_bits(c) + guard_bits(c)
size(n) == 2 ^ Radix[n]

Running == [status |-> "running"]
Error == [status |-> "error"]
Panic == [status |-> "panic"]
Found(n, i, bits) == [status |-> "ok", node |-> n, index |-> i,
                      bits_remaining |-> bits]

\* shift and mask of the guard: the subtraction wraps, and is taken modulo the
\* width of a word.
GuardIn(c) ==
    LET shift == (n_bits + WORD_BITS - guard_bits(c)) % WORD_BITS
    IN  IF guard_bits(c) = 0 THEN 0
        ELSE LowBits(cptr \div 2 ^ shift, guard_bits(c))

\* An index taken from the low bits of the address.
IndexLow(c) == LowBits(cptr, radix_bits(c))

IndexIn(c) ==
    IF radix_bits(c) = 0 THEN 0
    ELSE LowBits(cptr \div 2 ^ (n_bits - level_bits(c)), radix_bits(c))

Mismatch(c) == \/ guard_bits(c) > n_bits
               \/ GuardIn(c) # guard(c)
               \/ level_bits(c) > n_bits

\* A step that forgets to count the bits it resolved.
LeftUnresolved(c) == n_bits

\* The bits left below the slot.
Left(c) == n_bits - level_bits(c)

\* A loop that stops only where there is no CNode to go to.
TerminalAtOther(c, slot) == ~ IsCNode(slot)

\* All bits are resolved, or there is no CNode to go on in.
Terminal(c, slot) == Left(c) = 0 \/ ~ IsCNode(slot)

\* One iteration of the loop.  The index has radix_bits bits and the slice has
\* 2^radix_bits slots, so get(index) is never None.  "CNode must resolve bits"
\* is a debug assertion only.
resolve_internal ==
    /\ result = Running
    /\ UNCHANGED <<input, root>>
    /\ IF debug /\ level_bits(current) = 0
       THEN result' = Panic /\ UNCHANGED <<current, n_bits>>
       ELSE IF Mismatch(current)
       THEN result' = Error /\ UNCHANGED <<current, n_bits>>
       ELSE LET slot == space[current.node][IndexIn(current)]
            IN  IF Terminal(current, slot)
                THEN /\ result' = Found(current.node, IndexIn(current),
                                        Left(current))
                     /\ UNCHANGED <<current, n_bits>>
                ELSE /\ current' = slot
                     /\ n_bits' = Left(current)
                     /\ UNCHANGED result

\* lookup_with_depth: a slot, when no bits remain.
lookup == IF result.status = "ok" /\ result.bits_remaining # 0 THEN Error
          ELSE result

\* CSpace::new refuses a root that is not a CNode, and lookup_with_depth a depth
\* outside 1 .. CNODE_DEPTH, before the loop.
Init == /\ debug \in BOOLEAN
        /\ space \in [CNode -> UNION {[0 .. size(n) - 1 -> CNodeCap \cup {Other}]
                                        : n \in CNode}]
        /\ \A n \in CNode : DOMAIN space[n] = 0 .. size(n) - 1
        /\ cptr \in 0 .. 2 ^ CNODE_DEPTH - 1
        /\ depth \in 1 .. CNODE_DEPTH
        /\ root \in Roots
        /\ current = root
        /\ n_bits = depth
        /\ result = Running

Done == result # Running /\ UNCHANGED lookupVars

Next == resolve_internal \/ Done

Spec == Init /\ [][Next]_lookupVars /\ WF_lookupVars(resolve_internal)

(***************************************************************************)
(* The reference: addresses are strings of bits, most significant first,   *)
(* and a path of indices spells one.                                       *)
(***************************************************************************)
Bits(x, n) == [k \in 1 .. n |-> (x \div 2 ^ (n - k)) % 2]

\* The capability in slot i of a CNode, if there is such a slot.
Below(s, c, i) == IF IsCNode(c) /\ i < size(c.node) THEN s[c.node][i] ELSE Other

\* The capabilities that path p goes through in the space s: c, then those in
\* its slots.
CapsOn(s, c, p) ==
    LET at[k \in 1 .. Len(p) + 1] ==
            IF k = 1 THEN c ELSE Below(s, at[k - 1], p[k - 1])
    IN  at

\* A guard that does not fit its width is spelled by nothing.
IsPath(s, c, p) == \A k \in 1 .. Len(p) :
    LET d == CapsOn(s, c, p)[k]
    IN  IsCNode(d) /\ p[k] < size(d.node) /\ guard(d) < 2 ^ guard_bits(d)

\* What slot i of a CNode with capability c adds to an address.
Letters(c, i) == Bits(guard(c), guard_bits(c)) \o Bits(i, radix_bits(c))

\* The sequences of ss, one after the other.
Join(ss) ==
    LET upTo[k \in 1 .. Len(ss)] == IF k = 1 THEN ss[k] ELSE upTo[k - 1] \o ss[k]
    IN  IF Len(ss) = 0 THEN << >> ELSE upTo[Len(ss)]

Spelling(s, c, p) ==
    Join([k \in 1 .. Len(p) |-> Letters(CapsOn(s, c, p)[k], p[k])])

Begins(u, v) == Len(u) <= Len(v) /\ SubSeq(v, 1, Len(u)) = u

\* The paths that spell all of an address, or a beginning of it after which
\* there is no CNode to go to.
Spells(s, c, p, address) ==
    /\ IsPath(s, c, p)
    /\ Begins(Spelling(s, c, p), address)
    /\ \/ Len(Spelling(s, c, p)) = Len(address)
       \/ ~ IsCNode(CapsOn(s, c, p)[Len(p) + 1])

Indices == UNION {0 .. size(n) - 1 : n \in CNode}

\* The slots an address may stand for: those at the end of such a path.
SlotsAt(s, c, address) ==
    {Found(CapsOn(s, c, p)[Len(p)].node, p[Len(p)],
           Len(address) - Len(Spelling(s, c, p))) :
       p \in {q \in UNION {[1 .. k -> Indices] : k \in 1 .. Len(address)} :
                Spells(s, c, q, address)}}

Denoted == SlotsAt(space, root, Bits(cptr, depth))

(***************************************************************************)
(* Properties.                                                             *)
(***************************************************************************)
\* The bits left are a suffix of the address: between steps of the loop n_bits
\* stays in 1 .. depth, so no shift is negative or as wide as a word.
LookupTypeOK == /\ n_bits \in 1 .. depth
                /\ IsCNode(current)
                /\ result.status \in {"running", "ok", "error", "panic"}

\* The space of the debug assertion: every CNode resolves bits.
Resolves(c) == IsCNode(c) => level_bits(c) # 0
Resolving == /\ Resolves(root)
             /\ \A n \in CNode : \A i \in DOMAIN space[n] : Resolves(space[n][i])

\* The loop of shifts and masks finds the slot the address denotes as a string
\* of bits, with the number of bits it leaves, and fails only if there is none;
\* lookup_with_depth gives a slot only if the whole address spells it.
ResolvesAddress == Resolving /\ result # Running =>
    /\ result # Panic
    /\ Denoted = IF result = Error THEN {} ELSE {result}
    /\ lookup # Error <=> \E d \in Denoted : d.bits_remaining = 0

\* A lookup ends, in a capability space with cycles too, unless it gets to go
\* round in CNodes that resolve no bits; with debug assertions it always ends.
LookupEnds == \/ <>(result # Running)
              \/ ~ debug /\ <>[](level_bits(current) = 0)
=============================================================================
