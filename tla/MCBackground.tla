---------------------------- MODULE MCBackground ----------------------------
(* Processes of which one may have children that escape. *)
EXTENDS Background

CONSTANTS p1, p2, s1, s2
=============================================================================
