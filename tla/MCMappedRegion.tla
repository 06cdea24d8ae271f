--------------------------- MODULE MCMappedRegion ---------------------------
(* Two scoped_memory objects over three addresses, so that an address one *)
(* region released can be handed to the other while the first still holds *)
(* a pointer to it.                                                        *)
EXTENDS MappedRegion

CONSTANTS b1, b2, b3, vocab, search

MCBlocks == {b1, b2, b3}
MCRegions == {vocab, search}

=============================================================================
