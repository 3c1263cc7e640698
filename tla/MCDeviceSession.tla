-------------------------- MODULE MCDeviceSession --------------------------
(* Instances of DeviceSession for TLC.                                     *)
EXTENDS DeviceSession, TLC

CONSTANTS s1, s2, s3

SessionSymmetry == Permutations(Sessions)
=============================================================================
