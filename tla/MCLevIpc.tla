------------------------------ MODULE MCLevIpc ------------------------------
EXTENDS LevIpc, TLC

MCSymmetry == Permutations(Workers) \cup Permutations(TcpAddrs)
=============================================================================
