----------------------------- MODULE MCMemCache -----------------------------
(* TLC instances of MemCache: slabs are interchangeable.                    *)
EXTENDS MemCache

SlabSymmetry == Permutations(Slab)
=============================================================================
