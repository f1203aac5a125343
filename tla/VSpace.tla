------------------------------- MODULE VSpace -------------------------------
(***************************************************************************)
(* One virtual address space: VSpaceCap of kernel/src/objects/vspace.rs,   *)
(* over the page tables of kernel/src/vspace.rs and the entries of         *)
(* kernel/src/arch/x86_64/vspace, with the TLB entries the processor may   *)
(* hold for it.                                                            *)
(*                                                                         *)
(* Physical addresses count smallest pages; a table has FANOUT entries, so *)
(* a frame at level l has FANOUT^(l-1) of them: FrameSize Small, Large and *)
(* Huge are levels 1, 2 and 3.  An entry has the flags of entry.rs, with   *)
(* PRESENT and HUGE_PAGE as its kind; ACCESSED, DIRTY and GLOBAL are not   *)
(* set by the code.  A call that returns an error changes nothing: it is a *)
(* stuttering step, and its conditions are guards here.                    *)
(***************************************************************************)
EXTENDS Naturals, FiniteSets

CONSTANTS
    Table,      \* physical pages that may hold page tables
    Root,       \* the PML4
    FANOUT,     \* ENTRIES_PER_TABLE
    Pml4Index,  \* the entries of the PML4 in use
    Named,      \* the pages that calls name
    FrameCap,   \* the frame capabilities that may be mapped
    None

CachePolicy == {"WriteBack", "WriteThrough", "Uncacheable", "WriteCombining"}

Index == 0 .. FANOUT - 1
Page == {u \in [1 .. 4 -> Index] : u[4] \in Pml4Index}

ASSUME NamedAssumption == Named \subseteq Page
ASSUME TableAssumption == Root \in Table /\ None \notin Table
ASSUME PaddrAssumption == /\ FANOUT \in Nat \ {0, 1}
                          /\ Pml4Index \subseteq 0 .. FANOUT - 1
                          /\ Pml4Index # {}
                          /\ FrameCap \subseteq
                                [paddr : Nat, level : 1 .. 3,
                                 rights : SUBSET {"READ", "WRITE", "EXECUTE"},
                                 cache : CachePolicy]

\* What a page may be translated to: a physical page, the size of its frame, and
\* the access the entries allow.
Translation == [to : Nat, size : 1 .. 3,
                access : [write : BOOLEAN, user : BOOLEAN, execute : BOOLEAN,
                          cache : CachePolicy]]
ASSUME NoneAssumption == None \notin Translation

VARIABLES
    mem,  \* mem[t][i]: entry i of table t
    tlb   \* cached translations

spaceVars == <<mem, tlb>>

\* A virtual address: its page, and whether it has an offset in the page or is
\* not canonical.
Vaddr == [page : Named, offset : BOOLEAN, canonical : BOOLEAN]

Invalid == [kind |-> "invalid", to |-> None, flags |-> {}]
is_present(e) == e.kind # "invalid"
is_table(e) == e.kind = "table"
is_page(e) == e.kind = "page"
new_table(t) == [kind |-> "table", to |-> t, flags |-> {"WRITABLE", "USER"}]
new_page(p, flags) == [kind |-> "page", to |-> p, flags |-> flags]

\* CachePolicy in the bits of an entry, and back.
CacheFlags(c) == CASE c = "WriteBack" -> {}
                   [] c = "WriteThrough" -> {"WRITE_THROUGH"}
                   [] c = "Uncacheable" -> {"CACHE_DISABLE"}
                   [] c = "WriteCombining" -> {"WRITE_THROUGH", "CACHE_DISABLE"}
CacheOf(flags) == CHOOSE c \in CachePolicy :
                     CacheFlags(c) = flags \cap {"WRITE_THROUGH", "CACHE_DISABLE"}

\* vm_rights_from_cap: nothing else of the rights of a capability is used.
vm_rights_from_cap(f) == f.rights \cap {"READ", "WRITE", "EXECUTE"}

\* vm_attributes.
vm_attributes(f, user) == [rights |-> vm_rights_from_cap(f), cache |-> f.cache,
                           global |-> FALSE, user |-> user]

\* A build_flags that marks only what is neither written nor executed.
BuildFlagsWX(attr) ==
    {x \in {"WRITABLE"} : "WRITE" \in attr.rights}
    \cup {x \in {"USER"} : attr.user}
    \cup {x \in {"NO_EXECUTE"} : attr.rights \cap {"WRITE", "EXECUTE"} = {}}
    \cup CacheFlags(attr.cache)

build_flags(attr) ==
    {x \in {"WRITABLE"} : "WRITE" \in attr.rights}
    \cup {x \in {"USER"} : attr.user}
    \cup {x \in {"GLOBAL"} : attr.global}
    \cup {x \in {"NO_EXECUTE"} : "EXECUTE" \notin attr.rights}
    \cup CacheFlags(attr.cache)

FrameBytes(l) == FANOUT ^ (l - 1)

\* FrameSize::is_aligned, of a virtual and of a physical address.
vaddr_aligned(v, l) == ~ v.offset /\ \A k \in 1 .. l - 1 : v.page[k] = 0
paddr_aligned(p, l) == p % FrameBytes(l) = 0

(***************************************************************************)
(* The walk down the tables that all functions begin with.  TableAt(v, l)  *)
(* is the table that holds the entry of v at level l; None if a table is   *)
(* missing above, or a page entry ends the walk.                           *)
(***************************************************************************)
EntryIn(t, u, l) == mem[t][u[l]]

\* next_table: from a table of level l to the table below it on the way to u.
next_table(u, l) == [t \in Table \cup {None} |->
    IF t # None /\ is_table(EntryIn(t, u, l)) THEN EntryIn(t, u, l).to ELSE None]

TableAt(u, l) ==
    LET down[k \in 1 .. 4] == IF k = 4 THEN Root
                              ELSE next_table(u, k + 1)[down[k + 1]]
    IN  down[l]

\* WalkResult: where the walk ends, and with what entry.
walk(u) ==
    LET l == CHOOSE k \in 1 .. 4 :
                 /\ TableAt(u, k) # None
                 /\ k > 1 => ~ is_table(EntryIn(TableAt(u, k), u, k))
    IN  [level |-> l, entry |-> EntryIn(TableAt(u, l), u, l)]

\* Distance of page u from the start of its frame of level l.
Offset(u, l) == CASE l = 1 -> 0
                  [] l = 2 -> u[1]
                  [] l = 3 -> u[1] + FANOUT * u[2]

\* The pages in the frame of level l at page v.
Region(v, l) == {u \in Page : \A k \in l .. 4 : u[k] = v[k]}

\* The entries the processor reads on its way down to page u.
Path(u, l) == {EntryIn(TableAt(u, k), u, k) : k \in l .. 4}

\* What it allows: to write and to a user if every entry does, to execute if
\* none forbids it; the cache policy is that of the last entry.
AccessOn(path, leaf) ==
    [write |-> \A e \in path : "WRITABLE" \in e.flags,
     user |-> \A e \in path : "USER" \in e.flags,
     execute |-> \A e \in path : "NO_EXECUTE" \notin e.flags,
     cache |-> CacheOf(leaf.flags)]

\* What the processor translates page u to.
Translate(u) == LET w == walk(u)
                IN  IF is_page(w.entry)
                    THEN [to |-> w.entry.to + Offset(u, w.level),
                          size |-> w.level,
                          access |-> AccessOn(Path(u, w.level), w.entry)]
                    ELSE None

SetEntry(t, i, e) == mem' = [mem EXCEPT ![t][i] = e]

(***************************************************************************)
(* The TLB.  A large page may be cached whole or in pieces, so a cached    *)
(* translation is that of one page, tagged with the page it was read at;   *)
(* flush_page (invlpg) drops every piece of the frame that holds v.        *)
(***************************************************************************)
\* A flush of the page itself only, not of the frame it is in.
FlushOnePage(u, l) == tlb' = {c \in tlb : c.page # u}

flush_page(u, l) == tlb' = {c \in tlb : c.page \notin Region(u, l)}

Fill(u) == /\ Translate(u) # None
           /\ tlb' = {[page |-> u, to |-> Translate(u)]}
           /\ UNCHANGED mem

(***************************************************************************)
(* The operations.                                                         *)
(***************************************************************************)
\* map_frame: map_4k, map_2m and map_1g are levels 1, 2 and 3.
map_frame(v, f, user) ==
    LET l == f.level
        t == TableAt(v.page, l)
    IN  /\ v.canonical /\ vaddr_aligned(v, l) /\ paddr_aligned(f.paddr, l)
        /\ t # None
        /\ ~ is_present(EntryIn(t, v.page, l))
        /\ SetEntry(t, v.page[l], new_page(f.paddr, build_flags(vm_attributes(f, user))))
        /\ flush_page(v.page, l)

unmap(v) ==
    LET w == walk(v.page)
    IN  /\ v.canonical
        /\ is_page(w.entry)
        /\ SetEntry(TableAt(v.page, w.level), v.page[w.level], Invalid)
        /\ flush_page(v.page, w.level)

\* A table is in use when some entry leads to it.
InUse(t) == \/ t = Root
            \/ \E s \in Table, i \in Index : mem[s][i] = new_table(t)

\* An install_table that does not look at the entry it overwrites.
InstallOverPresent(v, level, t) ==
    LET up == TableAt(v.page, level + 1)
    IN  /\ v.canonical
        /\ ~ InUse(t)
        /\ up # None
        /\ SetEntry(up, v.page[level + 1], new_table(t))
        /\ UNCHANGED tlb

\* install_table.  Contract: the page is not in use as a table, and is clear.
install_table(v, level, t) ==
    LET up == TableAt(v.page, level + 1)
    IN  /\ v.canonical
        /\ ~ InUse(t)
        /\ up # None
        /\ ~ is_present(EntryIn(up, v.page, level + 1))
        /\ SetEntry(up, v.page[level + 1], new_table(t))
        /\ UNCHANGED tlb

Init == /\ mem = [t \in Table |-> [i \in Index |-> Invalid]]
        /\ tlb = {}

Next ==
    \/ \E v \in Vaddr :
          \/ \E f \in FrameCap, user \in BOOLEAN : map_frame(v, f, user)
          \/ unmap(v)
          \/ \E t \in Table, level \in 1 .. 3 : install_table(v, level, t)
    \/ \E u \in Page : Fill(u)

Spec == Init /\ [][Next]_spaceVars

(***************************************************************************)
(* Properties.                                                             *)
(***************************************************************************)
\* The TLB never holds a translation the tables do not give, nor an access
\* they do not allow: map, unmap and install_table flush what they change, for
\* frames of every size.
TlbCoherent == \A c \in tlb : c.to = Translate(c.page)

\* install_table never loses or shares a table: every table in use is reached
\* from the root by exactly one path, and so is never cut off with the frames
\* mapped below it.
TablesReachable ==
    \A t \in Table : InUse(t) =>
        \E l \in 1 .. 4 :
            /\ \E u \in Page : TableAt(u, l) = t
            /\ \A u, v \in Page : TableAt(u, l) = t /\ TableAt(v, l) = t =>
                  \A k \in l + 1 .. 4 : u[k] = v[k]

Space == INSTANCE AddressSpace WITH
            mapping <- [u \in Page |-> Translate(u)]

\* Page tables of four levels implement a map from pages to physical pages:
\* a frame is mapped over free pages only, whole, with the access its
\* capability grants whatever the entries above say; unmap frees the whole
\* frame mapped at the address; every other translation stays as it is.
MapsRegions == Space!SpaceSpec
=============================================================================
