---------------------------- MODULE MCDeviceRegistry ----------------------------
(***************************************************************************)
(* DeviceRegistry for TLC: the reads of each kind's poll, and slave        *)
(* addresses that are interchangeable.                                     *)
(***************************************************************************)
EXTENDS DeviceRegistry, TLC

CONSTANTS a1, a2

MCReads == <<2>>

MCAddrs == {a1, a2}

Symmetry == Permutations(MCAddrs)
=============================================================================
