----------------------------- MODULE MCTransfer -----------------------------
(* Instances of ShmTransfer for TLC.                                       *)
EXTENDS ShmTransfer, TLC

CONSTANTS sampler, sink, s1, s2, k1, k2

TwoProcesses == {sampler, sink}
TwoEach == {s1, s2, k1, k2}
HomeTwoEach == [m \in TwoEach |-> IF m \in {s1, s2} THEN sampler ELSE sink]

\* The places of a process are interchangeable.
PlaceSymmetry == Permutations({s1, s2}) \cup Permutations({k1, k2})
=============================================================================
