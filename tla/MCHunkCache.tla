------------------------------ MODULE MCHunkCache ------------------------------
(* HunkCache with the header sizes of the 64-bit build and room for two or    *)
(* three cache blocks, so that gaps of every kind, relocation in both         *)
(* directions and eviction happen.                                            *)
EXTENDS HunkCache

MCHunkRequests == {40}
MCCacheRequests == {16, 64}
=============================================================================
