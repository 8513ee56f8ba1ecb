---------------------------- MODULE MCActiveTurns ----------------------------
EXTENDS ActiveTurns
Symmetry == Permutations(Calls) \cup Permutations(EntryIds) 
=============================================================================
