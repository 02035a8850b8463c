---------------------------- MODULE MCTempKeyFile ----------------------------
(* Values of TempKeyFile's constants for TLC.                                *)
EXTENDS TempKeyFile, TLC

\* Private keys of one size have texts of different lengths.
MCPemLen == CHOOSE f \in [Procs -> {1, 3}] : \E p, q \in Procs : f[p] # f[q]
MCSymmetry == Permutations(Inodes)
=============================================================================
