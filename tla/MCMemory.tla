------------------------------ MODULE MCMemory ------------------------------
EXTENDS Memory, TLC
CONSTANTS runtime, gateway, dark, light
MCThreads == {runtime, gateway}
MCValues == {dark, light}
MCSymmetry == Permutations(MCThreads) \cup Permutations(MCValues)
=============================================================================
