----------------------------- MODULE MCNovinLib -----------------------------
(* Values of NovinLib's constants for TLC, and what is checked of it.       *)
EXTENDS NovinLib

\* A healthy RSA token, one without RSA, and a suspended, a blocked and a disabled one.
MCStatusWords ==
    {CS_RSA1024, 0} \cup {bit + CS_RSA1024 : bit \in {CS_Suspended, CS_Blocked, CS_Disabled}}
\* nErr_IVP, the wrong password, and the largest code a byte can hold.
MCDevCodes == {12, 255}
MCRsaLens == {0, 128}
=============================================================================
