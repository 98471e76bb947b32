---------------------------- MODULE VersionVector ----------------------------
(***************************************************************************)
(* services/sync/version_vector.py.  A vector is total on Actors here: an  *)
(* actor the code's dict does not mention counts 0 there as well.          *)
(***************************************************************************)
EXTENDS Integers

CONSTANT Actors   \* the devices that author mutations, and the cloud

Vector == [Actors -> Nat]

Zero == [a \in Actors |-> 0]

vv_merge(v, w) == [a \in Actors |-> IF v[a] < w[a] THEN w[a] ELSE v[a]]

AtLeast(v, w) == \A a \in Actors : v[a] >= w[a]

vv_dominates(v, w) == AtLeast(v, w) /\ \E a \in Actors : v[a] > w[a]

vv_concurrent(v, w) == ~vv_dominates(v, w) /\ ~vv_dominates(w, v)

vv_bump(v, a) == [v EXCEPT ![a] = @ + 1]
=============================================================================
