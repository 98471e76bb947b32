----------------------------- MODULE MCApproval -----------------------------
(***************************************************************************)
(* An instance of Approval for TLC: two turns in the main conversation,    *)
(* a helper of theirs and a turn of a chat; two calls of which the second  *)
(* adds an argument to the first.                                          *)
(***************************************************************************)
EXTENDS Approval, TLC

CONSTANTS u1, u2, h1, x1, main, chat, c1, c2

MCRuns == {u1, u2, h1, x1}
MCHelpers == {h1}
MCScopes == {main, chat}
MCScopeOf == [r \in MCRuns |-> IF r = x1 THEN chat ELSE main]
MCCalls == {c1, c2}
MCExtends == {<<c2, c1>>}

Symmetry == Permutations(Ids)
=============================================================================
