------------------------------ MODULE MCMapper ------------------------------
(***************************************************************************)
(* Instances of Mapper for TLC.                                            *)
(***************************************************************************)
EXTENDS Mapper, TLC

EveryFault == {"clone", "register", "unregister", "release", "region"}

\* Every fault but a release that fails once the handle is unregistered.
ReleaseWorks == EveryFault \ {"release"}

Symmetry == Permutations(Threads) \cup Permutations(Buffers) \cup Permutations(Addrs)

=============================================================================
