---------------------------- MODULE MCLiveMaker ----------------------------
(* LiveMaker for TLC: the pools are interchangeable.                        *)
EXTENDS LiveMaker, TLC

PoolSymmetry == Permutations(Pools)
=============================================================================
