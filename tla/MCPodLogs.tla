----------------------------- MODULE MCPodLogs -----------------------------
EXTENDS PodLogs, TLC

WorkerSymmetry == Permutations(Workers)
=============================================================================
