----------------------------- MODULE MCSessions -----------------------------
(***************************************************************************)
(* Sessions for TLC: two devices, which are interchangeable.               *)
(***************************************************************************)
EXTENDS Sessions, TLC

Symmetry == Permutations(Devices)
=============================================================================
