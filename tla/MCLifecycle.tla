---------------------------- MODULE MCLifecycle -----------------------------
(* The instance of Lifecycle that TLC checks: two healthy versions and a   *)
(* bad one, two units.  Its properties are invariants of steps and look at *)
(* no version or unit by name, so that the interchange of the two healthy  *)
(* versions and of the two units is a symmetry.                            *)
EXTENDS Lifecycle, TLC

CONSTANTS v1, v2, bad, u1, u2

Symmetric == Permutations({v1, v2}) \cup Permutations({u1, u2})
=============================================================================
