----------------------------- MODULE MCHelpers -----------------------------
(***************************************************************************)
(* Instances of Helpers for TLC: three helpers, so that reports can be held*)
(* by one, sent by another and taken by the parent, one scheduler run, and *)
(* one slot less than there are agents.                                    *)
(***************************************************************************)
EXTENDS Helpers
=============================================================================
