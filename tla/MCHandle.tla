------------------------------ MODULE MCHandle ------------------------------
(***************************************************************************)
(* Instances of Handle for TLC.                                            *)
(***************************************************************************)
EXTENDS Handle, TLC

MCMetadataSize == 1104

\* 2^16 stands for 2^64.
MCWord64 == 65536

\* A texture, and a protected one that is not to be cleared (PRIVATE_3).
MCUsages == {{8}, {8, 14, 31}}

\* A modifier with a vendor's code in its upper byte.
MCModifiers == {{0, 57, 58}}

\* An id that as an int is negative.
MCIds == {{1, 31}}

MCFds == 0 .. 3

MCSymmetry == Permutations(Buffers) \cup Permutations(Clients)

=============================================================================
