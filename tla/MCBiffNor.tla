------------------------------ MODULE MCBiffNor ------------------------------
(* Small flash chips for BiffNor. *)
EXTENDS BiffNor, TLC

\* The files are alike.
MCSymmetry == Permutations(Handle)

MCBits == {0, 1}
MCData == {{0}, {1}}
MCTail == [i \in 0 .. ChunkSize - 1 |-> IF i = ChunkSize - 1 THEN Erased ELSE {1}]
MCParts == {MCTail, [i \in 0 .. ChunkSize - 1 |-> {0}]}

\* A blank flash and one full of zero bits, each with a boot loader.
MCInitialFlash ==
  {[s \in Sector |-> IF s \in BootSectors THEN MCTail ELSE c] :
     c \in {ErasedChunk, ZeroChunk}}
=============================================================================
