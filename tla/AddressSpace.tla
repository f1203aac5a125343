---------------------------- MODULE AddressSpace ----------------------------
(***************************************************************************)
(* What a virtual address space promises, without page tables: a partial   *)
(* map from pages to physical pages, each with the access its frame        *)
(* capability grants.  Mapping a frame takes a whole region that was free; *)
(* unmapping an address frees the whole region of the frame mapped there;  *)
(* nothing else moves.                                                     *)
(***************************************************************************)
EXTENDS Naturals

CONSTANTS
    Page,            \* smallest pages
    Region(_, _),    \* Region(v, l): the pages of the region of size l at v
    Offset(_, _),    \* Offset(u, l): distance of u from the start of its region
    FrameCap,        \* frame capabilities: paddr, level, rights and cache
    None

VARIABLE mapping

SpaceInit == mapping = [u \in Page |-> None]

\* What a frame gives to a user or to the kernel.
Granted(f, user) == [write |-> "WRITE" \in f.rights,
                     execute |-> "EXECUTE" \in f.rights,
                     user |-> user,
                     cache |-> f.cache]

\* Page u of a region of size l that maps to consecutive pages from p.
Piece(u, p, l, access) == [to |-> p + Offset(u, l), size |-> l, access |-> access]

OthersKept(v, l) == \A u \in Page \ Region(v, l) : mapping'[u] = mapping[u]

MapRegion(v, f, user) ==
    /\ \A u \in Region(v, f.level) :
          /\ mapping[u] = None
          /\ mapping'[u] = Piece(u, f.paddr, f.level, Granted(f, user))
    /\ OthersKept(v, f.level)

UnmapRegion(v) ==
    /\ mapping[v] # None
    /\ Offset(v, mapping[v].size) = 0
    /\ \A u \in Region(v, mapping[v].size) :
          /\ mapping[u] = Piece(u, mapping[v].to, mapping[v].size,
                                mapping[v].access)
          /\ mapping'[u] = None
    /\ OthersKept(v, mapping[v].size)

\* A step changes a region that starts at one of the pages it changes.
SpaceNext == \E v \in {u \in Page : mapping'[u] # mapping[u]} :
                \/ UnmapRegion(v)
                \/ \E f \in FrameCap, user \in BOOLEAN :
                      Offset(v, f.level) = 0 /\ MapRegion(v, f, user)

SpaceSpec == SpaceInit /\ [][SpaceNext]_mapping
=============================================================================
