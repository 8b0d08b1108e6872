----------------------------- MODULE MCPipeline -----------------------------
(* Small instances of Pipeline for TLC.                                     *)
EXTENDS PipelineInv, TLC

\* Digests are only compared.
DigestSymmetry == Permutations(Digest)
=============================================================================
