-------------------------- MODULE MCTransformFile --------------------------
(* Small instances of TransformFile for TLC. *)
EXTENDS TransformFile, TLC

\* Threads, files and names are interchangeable.
Symmetry == Permutations(Actors) \cup Permutations(Files) \cup Permutations(Names)
\* Names are not once one of them has a sidecar left over.
ThreadSymmetry == Permutations(Actors) \cup Permutations(Files)

EveryFault == FaultKinds
\* Every fault but a read error that cuts the HMAC short.
HashingFaultless == FaultKinds \ {"mac"}
\* Every fault but that one and a tag that cannot be deleted.
ReportedFaults == FaultKinds \ {"mac", "untag"}
=============================================================================
