----------------------------- MODULE MCFumPlugin ----------------------------
(* Values of FumPlugin's constants for TLC.                                 *)
EXTENDS FumPlugin

MCStatusWords == {CS_RSA1024}
MCDevCodes == {12}
MCRsaLens == {0, 128}

\* Neither the tokens nor the objects are told apart: sound for the safety runs.
MCSymmetry == Permutations(Devices) \cup Permutations(Instances)
=============================================================================
