------------------------- MODULE MCDescriptorOwner -------------------------
EXTENDS DescriptorOwner, TLC

Symmetry == Permutations(Handlers) \cup Permutations(Threads)
=============================================================================
