----------------------------- MODULE MCTier2Sync -----------------------------
(***************************************************************************)
(* Instances of Tier2Sync for TLC.  Devices, mutation ids, calls and the   *)
(* rows whose key the database draws are interchangeable.  Counters are    *)
(* bounded by Mutations and MaxEra, save the commit numbers of aborted     *)
(* writes, of creations and of the cloud's own writes: Bounded.            *)
(***************************************************************************)
EXTENDS Tier2Sync, TLC

CONSTANT MaxSeq   \* bound: commit numbers drawn

Symmetry ==
  UNION {Permutations(S) : S \in {Devices, Mutations, Calls, Generated}}

Bounded == seq <= MaxSeq
=============================================================================
