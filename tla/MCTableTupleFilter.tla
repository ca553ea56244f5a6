------------------------- MODULE MCTableTupleFilter -------------------------
(* Instances of TableTupleFilter for TLC. *)
EXTENDS TableTupleFilter

(* Two blocks of two 2-byte tuples; enumeration order is not address order *)
(* and the blocks are adjacent in memory (block 2 ends where block 1       *)
(* starts), so a cache lookup can fall just past the cached block.         *)
MCBlockAddr == <<8, 4>>
=============================================================================
