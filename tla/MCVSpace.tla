------------------------------ MODULE MCVSpace ------------------------------
(* Instance of VSpace for TLC: a frame of each size. *)
EXTENDS VSpace, TLC

Frame(p, l, rights, c) == [paddr |-> p, level |-> l, rights |-> rights, cache |-> c]

MCFrameCap == {Frame(1, 1, {"READ", "WRITE"}, "WriteBack"),
               Frame(4, 2, {"READ", "EXECUTE"}, "Uncacheable"),
               Frame(4, 3, {}, "WriteCombining")}

\* The first page, and one in the next table at each level.
MCNamed == {<<0, 0, 0, 0>>, <<1, 0, 0, 0>>, <<0, 1, 0, 0>>, <<0, 0, 1, 0>>}

\* Tables other than the root are interchangeable.
TableSymmetry == Permutations(Table \ {Root})
=============================================================================
