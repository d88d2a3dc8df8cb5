----------------------------- MODULE MCWatchSet -----------------------------
(* Watch sets of up to four channels for TLC, where a select takes one and a *)
(* goroutine two.                                                            *)
EXTENDS WatchSet, TLC

CONSTANTS i1, i2

Symmetry == Permutations({i1, i2})
============================================================================
