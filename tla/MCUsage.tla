------------------------------ MODULE MCUsage -------------------------------
(***************************************************************************)
(* Instances of Usage for TLC.                                             *)
(***************************************************************************)
EXTENDS Usage

MCMetadataSize == 1104

\* 2^16 stands for 2^64.
MCWord64 == 65536

\* Every pair of bits, and every combination of the bits whose masks overlap
\* or whose flags coincide.
MCUsages ==
  {{a, b} : a, b \in 0 .. 63} \cup SUBSET {0, 1, 4, 5, 16, 28, 32} \cup {{}}

=============================================================================
