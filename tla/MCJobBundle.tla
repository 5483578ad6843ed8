----------------------------- MODULE MCJobBundle -----------------------------
(* Writers of one target, and readers, are interchangeable.                *)
EXTENDS JobBundle, TLC

BundleSymmetry == Permutations(Writers) \cup Permutations(Readers)
==============================================================================
