---------------------------- MODULE MCChampSelect ----------------------------
EXTENDS ChampSelect

AllCandidates == Pool
=============================================================================
