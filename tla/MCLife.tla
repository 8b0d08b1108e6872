------------------------------- MODULE MCLife -------------------------------
(* Small instances of ServiceLife for TLC.                                  *)
EXTENDS ServiceLife, TLC

\* Digests are only compared.
DigestSymmetry == Permutations(Digest)
=============================================================================
