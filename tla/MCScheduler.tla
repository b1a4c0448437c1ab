---------------------------- MODULE MCScheduler ----------------------------
(***************************************************************************)
(* Instance of Profile, and so of Scheduler: every list of up to three     *)
(* footprints over two keys, those that hold a key in both sets included,  *)
(* every list of four in which none holds one in both sets, and the        *)
(* synthetic sets of six transactions over two shards and two plain keys.  *)
(***************************************************************************)
EXTENDS Profile

MCKey == 1..5

SmallFootprint == [read_only: SUBSET (1..2), read_write: SUBSET (1..2)]

DisjointFootprint ==
  {fp \in SmallFootprint : fp.read_only \cap fp.read_write = {}}

MCInputs ==
  BoundedSeq(SmallFootprint, 3)
    \cup [1..4 -> DisjointFootprint]
    \cup SimulatedSets(1, 2, 6)
=============================================================================
