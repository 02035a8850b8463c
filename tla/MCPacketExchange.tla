-------------------------- MODULE MCPacketExchange ---------------------------
(* Values of PacketExchange's constants for TLC.                             *)
EXTENDS PacketExchange, TLC

CONSTANTS p, q, d, e

\* A process that calls everything beside one that sends packets: two that scan
\* have nothing to do with each other.
MCUses == p :> Calls @@ q :> {"_send_packet"}
MCSymmetry == Permutations(Devices)
=============================================================================
