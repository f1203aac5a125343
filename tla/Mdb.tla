-------------------------------- MODULE Mdb ---------------------------------
(***************************************************************************)
(* Capability slots and the mapping database: CNodeEntry of                *)
(* kernel/src/objects/cnode.rs, NullCap of nullcap.rs.                     *)
(*                                                                         *)
(* The entries of all CNodes are linked by mdb_next and mdb_prev into      *)
(* chains.  A derived capability is inserted right after its source;       *)
(* revoke erases everything that follows an entry in its chain.  revoke is *)
(* modelled one loop iteration per step: slots are plain Cells used by one *)
(* core with interrupts masked, so nothing else runs in between.           *)
(*                                                                         *)
(* `after` is the ghost MdbChainGhost of the source, as a relation: the    *)
(* pairs <<a, b>> such that b comes after a in a chain.  No action reads   *)
(* it.                                                                     *)
(***************************************************************************)
EXTENDS Naturals, FiniteSets

CONSTANTS
    Entry,    \* the CNodeEntry cells
    ObjType,  \* types of capabilities, without the null one
    NullObj,  \* ObjType::NullObj
    None      \* Option::None

ASSUME EntryAssumption == IsFiniteSet(Entry) /\ None \notin Entry
ASSUME NullAssumption == NullObj \notin ObjType

\* The locals of a revoke in progress.
Revocation == [self : Entry, cur : Entry \cup {None}, doomed : SUBSET Entry]

ASSUME NoneAssumption == None \notin Revocation

VARIABLES
    cap_type,  \* CapRaw::cap_type; rights, paddr and args go with it
    mdb_next,  \* CapRaw::mdb_next
    mdb_prev,  \* CapRaw::mdb_prev
    op,        \* the revoke in progress, or None
    after      \* ghost: the order of the chains

mdbVars == <<cap_type, mdb_next, mdb_prev, op, after>>

is_null(s) == cap_type[s] = NullObj
mdb_isolated(s) == mdb_prev[s] = None /\ mdb_next[s] = None

\* links EXCEPT ![s] = v, nothing if s is None: `if let Some(p) = s`.
SetLink(links, s, v) == IF s = None THEN links ELSE [links EXCEPT ![s] = v]

(***************************************************************************)
(* insert and insert_raw: a fresh capability, minted without links, is     *)
(* written over a null slot.  Only the type is tested, so the slot must be *)
(* out of every chain already.  The slots retype fills are written so too. *)
(***************************************************************************)
Insert(s, c) ==
    /\ op = None
    /\ is_null(s)
    /\ cap_type' = [cap_type EXCEPT ![s] = c]
    /\ mdb_next' = [mdb_next EXCEPT ![s] = None]
    /\ mdb_prev' = [mdb_prev EXCEPT ![s] = None]
    /\ UNCHANGED <<op, after>>

\* The order once dst comes right after src.
InsertedAfter(src, dst) ==
    {p \in Entry \X Entry :
        \/ p \in after
        \/ p[2] = dst /\ (p[1] = src \/ <<p[1], src>> \in after)
        \/ p[1] = dst /\ <<src, p[2]>> \in after}

\* An insertion that leaves the old successor pointing back at src.
InsertWithoutBackLink(src, dst) ==
    /\ op = None
    /\ ~ is_null(src) /\ ~ is_null(dst)
    /\ src # dst /\ mdb_isolated(dst)
    /\ mdb_prev' = [mdb_prev EXCEPT ![dst] = src]
    /\ mdb_next' = [mdb_next EXCEPT ![dst] = mdb_next[src], ![src] = dst]
    /\ after' = InsertedAfter(src, dst)
    /\ UNCHANGED <<cap_type, op>>

\* mdb_insert_after.  Contract: dst is isolated (`requires`), and the two
\* entries hold capabilities.
mdb_insert_after(src, dst) ==
    /\ op = None
    /\ ~ is_null(src) /\ ~ is_null(dst)
    /\ src # dst /\ mdb_isolated(dst)
    /\ mdb_prev' = SetLink([mdb_prev EXCEPT ![dst] = src], mdb_next[src], dst)
    /\ mdb_next' = [mdb_next EXCEPT ![dst] = mdb_next[src], ![src] = dst]
    /\ after' = InsertedAfter(src, dst)
    /\ UNCHANGED <<cap_type, op>>

\* A removal that does not repair the successor's prev link.
UnlinkForward(s) ==
    /\ mdb_next' = [SetLink(mdb_next, mdb_prev[s], mdb_next[s])
                       EXCEPT ![s] = None]
    /\ mdb_prev' = [mdb_prev EXCEPT ![s] = None]
    /\ after' = {p \in after : p[1] # s /\ p[2] # s}

\* The effect of mdb_remove on the links.
Unlink(s) ==
    /\ mdb_next' = [SetLink(mdb_next, mdb_prev[s], mdb_next[s])
                       EXCEPT ![s] = None]
    /\ mdb_prev' = [SetLink(mdb_prev, mdb_next[s], mdb_prev[s])
                       EXCEPT ![s] = None]
    /\ after' = {p \in after : p[1] # s /\ p[2] # s}

mdb_remove(s) ==
    /\ op = None
    /\ Unlink(s)
    /\ UNCHANGED <<cap_type, op>>

(***************************************************************************)
(* revoke.  op.cur is the local variable cur; op.doomed, a ghost, is what  *)
(* followed op.self in its chain when revoke was called.                   *)
(***************************************************************************)
revoke(s) ==
    /\ op = None
    /\ op' = [self |-> s, cur |-> mdb_next[s],
              doomed |-> {b \in Entry : <<s, b>> \in after}]
    /\ UNCHANGED <<cap_type, mdb_next, mdb_prev, after>>

\* An iteration that reads the next entry after mdb_remove has cleared it.
RevokeStepLateNext ==
    /\ op # None /\ op.cur # None
    /\ cap_type' = [cap_type EXCEPT ![op.cur] = NullObj]
    /\ Unlink(op.cur)
    /\ op' = [op EXCEPT !.cur = mdb_next'[op.cur]]

\* An iteration that erases the capability and leaves the entry linked.
RevokeStepNoRemove ==
    /\ op # None /\ op.cur # None
    /\ cap_type' = [cap_type EXCEPT ![op.cur] = NullObj]
    /\ op' = [op EXCEPT !.cur = mdb_next[op.self]]
    /\ UNCHANGED <<mdb_next, mdb_prev, after>>

RevokeStep ==
    /\ op # None /\ op.cur # None
    /\ op' = [op EXCEPT !.cur = mdb_next[op.cur]]
    /\ cap_type' = [cap_type EXCEPT ![op.cur] = NullObj]
    /\ Unlink(op.cur)

RevokeEnd ==
    /\ op # None /\ op.cur = None
    /\ op' = None
    /\ UNCHANGED <<cap_type, mdb_next, mdb_prev, after>>

MdbInit ==
    /\ cap_type = [s \in Entry |-> NullObj]
    /\ mdb_next = [s \in Entry |-> None]
    /\ mdb_prev = [s \in Entry |-> None]
    /\ op = None
    /\ after = {}

MdbNext ==
    \/ \E s \in Entry : \/ \E c \in ObjType : Insert(s, c)
                        \/ \E d \in Entry : mdb_insert_after(s, d)
                        \/ mdb_remove(s)
                        \/ revoke(s)
    \/ RevokeStep
    \/ RevokeEnd

MdbSpec == MdbInit /\ [][MdbNext]_mdbVars

\* A loop in the kernel goes on to its end.
FairSpec == MdbSpec /\ WF_mdbVars(RevokeStep \/ RevokeEnd)

(***************************************************************************)
(* Properties.                                                             *)
(***************************************************************************)
EntryTypeOK ==
    /\ cap_type \in [Entry -> ObjType \cup {NullObj}]
    /\ mdb_next \in [Entry -> Entry \cup {None}]
    /\ mdb_prev \in [Entry -> Entry \cup {None}]
    /\ op \in Revocation \cup {None}
    /\ after \in SUBSET (Entry \X Entry)

\* MdbChainGhost::adjacent_linked, for every chain and in the middle of a
\* revoke too: next and prev are inverse to one another.
AdjacentLinked ==
    \A a, b \in Entry : mdb_next[a] = b <=> mdb_prev[b] = a

\* MdbChainGhost::acyclic: the links follow a strict order, and that order
\* relates no more than what the links reach; no walk over a chain, such as
\* the loop of revoke, comes back to where it was.
Acyclic ==
    /\ \A a \in Entry : <<a, a>> \notin after
    /\ \A a, b, c \in Entry : <<a, b>> \in after /\ <<b, c>> \in after
                                => <<a, c>> \in after
    /\ \A a \in Entry : mdb_next[a] # None => <<a, mdb_next[a]>> \in after
    /\ \A a, b \in Entry : <<a, b>> \in after =>
          mdb_next[a] # None /\ (mdb_next[a] = b \/ <<mdb_next[a], b>> \in after)

\* A null slot is out of every chain: revoke and mdb_remove leave no link to
\* a slot that a later insert overwrites.
NullIsolated == \A s \in Entry : is_null(s) => mdb_isolated(s)

\* revoke(self) is exact when it returns: self ends its chain, every entry that
\* followed it is null, and an entry that did not follow it keeps its
\* capability in every step of the loop.
RevokeExact ==
    [][op # None =>
          /\ op' = None => /\ mdb_next[op.self] = None
                           /\ \A s \in op.doomed : is_null(s)
          /\ \A s \in Entry \ op.doomed : cap_type'[s] = cap_type[s]]_mdbVars

\* The loop of revoke comes to an end.
RevokeEnds == op # None ~> op = None
=============================================================================
