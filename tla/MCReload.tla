------------------------------ MODULE MCReload ------------------------------
(* Instances of Reload for TLC. *)
EXTENDS Reload, TLC

CONSTANTS m1, m2, p1, p2, p3

TwoMaps         == {m1, m2}
OneMap          == {m1}
TwoGoroutines   == {p1, p2}
ThreeGoroutines == {p1, p2, p3}

Symmetry == Permutations(Map) \cup Permutations(Goroutine)
=============================================================================
