-------------------------- MODULE MCArtifactStore ---------------------------
(* ArtifactStore with its checked sets. *)
EXTENDS ArtifactStore, TLC

Interchangeable == Permutations(Digests) \cup Permutations(Uploads)
=============================================================================
