---------------------------- MODULE MCCallQueue ----------------------------
(***************************************************************************)
(* Instances of CallQueue for TLC: three calls of two owners, the second   *)
(* of which may ask for what the first asked for.                          *)
(***************************************************************************)
EXTENDS CallQueue

CONSTANTS c1, c2, c3, k1, k2, k3, u1, u2

MCCalls == {c1, c2, c3}
MCKeys == {k1, k2, k3}
MCAsks == [c \in MCCalls |-> IF c = c1 THEN {k1} ELSE IF c = c2 THEN {k1, k2} ELSE {k3}]
MCOwner == [k \in MCKeys |-> IF k = k3 THEN u2 ELSE u1]
MCLimit == [u \in {u1, u2} |-> 1]
MCLocalLimit == [u \in {u1, u2} |-> 25]
=============================================================================
