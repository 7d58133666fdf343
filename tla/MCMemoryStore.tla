--------------------------- MODULE MCMemoryStore ----------------------------
EXTENDS MemoryStore, TLC

Clients == Permutations(Client)
=============================================================================
