-------------------------- MODULE MCOutputBuffers --------------------------
(* The output buffers of both libraries, one at a time: libnano2's, two    *)
(* descriptors over a pool of three blocks of two bytes, and libnano's,    *)
(* two connections that follow one another on a number.                    *)
EXTENDS OutputBuffers, SharedBuffers

CONSTANTS a, b

VARIABLE subject

Packets == {<<>>, <<a>>, <<b, a, b>>}
Symmetry == Permutations(Block) \union Permutations(Stream) \union Permutations(SharedThread)

BothInit == subject \in {"nano2", "nano"} /\ BuffersInit /\ SharedInit

BothNext ==
  \/ subject = "nano2" /\ BuffersNext /\ UNCHANGED <<subject, shared_vars>>
  \/ subject = "nano" /\ SharedNext /\ UNCHANGED <<subject, buffers_vars>>

BothSpec == BothInit /\ [][BothNext]_<<subject, buffers_vars, shared_vars>>
=============================================================================
