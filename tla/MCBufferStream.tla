--------------------------- MODULE MCBufferStream ---------------------------
(* Two streams over a pool of three blocks of two bytes. *)
EXTENDS BufferStream

CONSTANTS a, b

Packets == {<<>>, <<a>>, <<b, a, b, a>>}
Symmetry == Permutations(Block) \union Permutations(Stream)
=============================================================================
